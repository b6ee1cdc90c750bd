------------------------ MODULE OrderLifecycleProofs ------------------------
(* Proofs about OrderLifecycle, for every set of orders, items, riders and *)
(* concurrent handlers, and every number of retries and restarts.          *)
EXTENDS OrderLifecycle, TLAPS

(* The part of TypeOK about the handlers in flight. *)
ReqOK ==
    /\ req \in [Workers -> Call \cup {Idle}]
    /\ \A w \in Workers :
         req[w] # Idle /\ req[w].op \in NeedsRider => req[w].r \in Riders

(* The read half of a handler leaves a well-formed call behind. *)
LEMMA ReadsType ==
    ASSUME TypeOK, NEW w \in Workers, NEW o \in Orders, NEW op \in HandlerOp,
           NEW n \in 0..(MaxRetries - 1), Reads(w, op, o, n),
           op \in NeedsRider => rider[o] # NoRider
    PROVE  ReqOK'
  <1> DEFINE c == [op |-> op, o |-> o, st |-> status[o], pay |-> pay[o],
                   n |-> n, r |-> rider[o]]
  <1>1. c \in Call /\ (op \in NeedsRider => c.r \in Riders)
    BY DEF TypeOK, Call
  <1>2. req' = [req EXCEPT ![w] = c]
    BY DEF Reads
  <1> QED
    BY <1>1, <1>2 DEF TypeOK, ReqOK

(* So does the end of a handler. *)
LEMMA ReturnsType ==
    ASSUME TypeOK, NEW w \in Workers, Returns(w)
    PROVE  ReqOK'
  BY DEF TypeOK, ReqOK, Returns

(* A worker at op holds a call for some order. *)
LEMMA RunningType ==
    ASSUME TypeOK, NEW w \in Workers, NEW op, Running(w, op)
    PROVE  /\ req[w] \in Call
           /\ req[w].o \in Orders
           /\ req[w].op = op
           /\ req[w].n \in 0..(MaxRetries - 1)
  BY DEF TypeOK, Running, Call

(* The saturating counters stay in Count. *)
LEMMA BumpType == ASSUME NEW n \in Count PROVE Bump(n) \in Count
  BY DEF Bump, Count, Many

(* A ledger transaction keeps the counts in range. *)
LEMMA RecordsType ==
    ASSUME TypeOK, NEW o \in Orders, NEW k \in LedgerKind, Records(o, k)
    PROVE  ledger' \in [Orders -> [LedgerKind -> Count]]
  <1>1. ledger[o] \in [LedgerKind -> Count] /\ ledger[o][k] \in Count
    BY DEF TypeOK
  <1>2. Bump(ledger[o][k]) \in Count
    BY <1>1, BumpType
  <1>3. [ledger[o] EXCEPT ![k] = Bump(ledger[o][k])] \in [LedgerKind -> Count]
    BY <1>1, <1>2
  <1>4. ledger' = [ledger EXCEPT ![o] = [ledger[o] EXCEPT ![k] = Bump(ledger[o][k])]]
    BY DEF Records
  <1> QED
    BY <1>3, <1>4 DEF TypeOK

(* So does an emitted event. *)
LEMMA EmitsType ==
    ASSUME TypeOK, NEW o \in Orders, NEW k \in EventKind, Emits(o, k)
    PROVE  emitted' \in [Orders -> [EventKind -> Count]]
  <1>1. emitted[o] \in [EventKind -> Count] /\ emitted[o][k] \in Count
    BY DEF TypeOK
  <1>2. Bump(emitted[o][k]) \in Count
    BY <1>1, BumpType
  <1>3. [emitted[o] EXCEPT ![k] = Bump(emitted[o][k])] \in [EventKind -> Count]
    BY <1>1, <1>2
  <1>4. emitted' = [emitted EXCEPT ![o] = [emitted[o] EXCEPT ![k] = Bump(emitted[o][k])]]
    BY DEF Emits
  <1> QED
    BY <1>3, <1>4 DEF TypeOK

(* A delayed job joins the queue, or the enqueue fails. *)
LEMMA EnqueuesType ==
    ASSUME TypeOK, NEW o \in Orders, NEW j \in LifecycleJob, Enqueues(o, j)
    PROVE  jobs' \in [Orders -> SUBSET LifecycleJob]
  <1>1. jobs[o] \cup {j} \in SUBSET LifecycleJob
    BY DEF TypeOK
  <1>2. CASE jobs' = [jobs EXCEPT ![o] = @ \cup {j}]
    BY <1>1, <1>2 DEF TypeOK
  <1>3. CASE UNCHANGED jobs
    BY <1>3 DEF TypeOK
  <1> QED
    BY <1>2, <1>3 DEF Enqueues

(* Every handler that starts preserves the types. *)
LEMMA ReadPreservesType ==
    ASSUME TypeOK, NEW w \in Workers, NEW o \in Orders,
           ClientRead(w, o) \/ SystemRead(w, o), UNCHANGED crashes
    PROVE  TypeOK'
  <1>0. 0 \in 0..(MaxRetries - 1)
    BY RetriesAssumption
  <1>1. CASE InitiateMomoRead(w, o)
    <2>1. ReqOK'
      BY <1>1, <1>0, ReadsType
      DEF InitiateMomoRead, HandlerOp, NeedsRider, RiderCalls
    <2> QED
      BY <1>1, <2>1
      DEF InitiateMomoRead, TypeOK, ReqOK, row, queues, history, CollectState
  <1>2. CASE OnPaymentSucceededRead(w, o)
    <2>1. ReqOK'
      BY <1>2, <1>0, ReadsType
      DEF OnPaymentSucceededRead, HandlerOp, NeedsRider, RiderCalls
    <2> QED
      BY <1>2, <2>1
      DEF OnPaymentSucceededRead, TypeOK, ReqOK, row, queues, history,
         CollectState
  <1>3. CASE WebhookFailedRead(w, o)
    <2>1. ReqOK'
      BY <1>3, <1>0, ReadsType
      DEF WebhookFailedRead, HandlerOp, NeedsRider, RiderCalls
    <2> QED
      BY <1>3, <2>1
      DEF WebhookFailedRead, TypeOK, ReqOK, row, queues, history, CollectState
  <1>4. CASE AcceptOrderRead(w, o)
    <2>1. ReqOK'
      BY <1>4, <1>0, ReadsType
      DEF AcceptOrderRead, HandlerOp, NeedsRider, RiderCalls
    <2> QED
      BY <1>4, <2>1 DEF AcceptOrderRead, TypeOK, ReqOK, row, queues, history
  <1>5. CASE RefuseOrderRead(w, o)
    <2>1. ReqOK'
      BY <1>5, <1>0, ReadsType
      DEF RefuseOrderRead, HandlerOp, NeedsRider, RiderCalls
    <2> QED
      BY <1>5, <2>1 DEF RefuseOrderRead, TypeOK, ReqOK, row, queues, history
  <1>6. CASE CancelOrderRead(w, o)
    <2>1. ReqOK'
      BY <1>6, <1>0, ReadsType
      DEF CancelOrderRead, HandlerOp, NeedsRider, RiderCalls
    <2> QED
      BY <1>6, <2>1 DEF CancelOrderRead, TypeOK, ReqOK, row, queues, history
  <1>7. CASE SetItemPreparedRead(w, o)
    <2>1. ReqOK'
      BY <1>7, <1>0, ReadsType
      DEF SetItemPreparedRead, HandlerOp, NeedsRider, RiderCalls
    <2> QED
      BY <1>7, <2>1 DEF SetItemPreparedRead, TypeOK, ReqOK, row, queues, history
  <1>8. CASE MarkOrderReadyRead(w, o)
    <2>1. ReqOK'
      BY <1>8, <1>0, ReadsType
      DEF MarkOrderReadyRead, HandlerOp, NeedsRider, RiderCalls
    <2> QED
      BY <1>8, <2>1 DEF MarkOrderReadyRead, TypeOK, ReqOK, row, queues, history
  <1>9. CASE VendorCancelPreOrderRead(w, o)
    <2>1. ReqOK'
      BY <1>9, <1>0, ReadsType
      DEF VendorCancelPreOrderRead, HandlerOp, NeedsRider, RiderCalls
    <2> QED
      BY <1>9, <2>1
      DEF VendorCancelPreOrderRead, TypeOK, ReqOK, row, queues, history
  <1>10. CASE MarkPickedUpRead(w, o)
    <2>1. ReqOK'
      BY <1>10, <1>0, ReadsType
      DEF MarkPickedUpRead, HandlerOp, NeedsRider, RiderCalls
    <2> QED
      BY <1>10, <2>1 DEF MarkPickedUpRead, TypeOK, ReqOK, row, queues, history
  <1>11. CASE MarkDeliveredRead(w, o)
    <2>1. ReqOK'
      BY <1>11, <1>0, ReadsType
      DEF MarkDeliveredRead, HandlerOp, NeedsRider, RiderCalls
    <2> QED
      BY <1>11, <2>1 DEF MarkDeliveredRead, TypeOK, ReqOK, row, queues, history
  <1>12. CASE ResolveRiderFraudRead(w, o)
    <2>1. ReqOK'
      BY <1>12, <1>0, ReadsType
      DEF ResolveRiderFraudRead, HandlerOp, NeedsRider, RiderCalls
    <2> QED
      BY <1>12, <2>1
      DEF ResolveRiderFraudRead, TypeOK, ReqOK, row, queues, history
  <1>13. CASE ExpireVendorDecisionRead(w, o)
    <2>1. ReqOK'
      BY <1>13, <1>0, ReadsType
      DEF ExpireVendorDecisionRead, HandlerOp, NeedsRider, TypeOK, ReqOK
    <2>2. jobs[o] \ {"aexp"} \in SUBSET LifecycleJob
      BY DEF TypeOK
    <2> QED
      BY <1>13, <2>1, <2>2
      DEF ExpireVendorDecisionRead, TypeOK, ReqOK, row, history
  <1>14. CASE SweepExpiredRead(w, o)
    <2>1. ReqOK'
      BY <1>14, <1>0, ReadsType
      DEF SweepExpiredRead, HandlerOp, NeedsRider, RiderCalls
    <2> QED
      BY <1>14, <2>1 DEF SweepExpiredRead, TypeOK, ReqOK, row, queues, history
  <1>15. CASE PromotePreOrderRead(w, o)
    <2>1. ReqOK'
      BY <1>15, <1>0, ReadsType
      DEF PromotePreOrderRead, HandlerOp, NeedsRider, TypeOK, ReqOK
    <2>2. jobs[o] \ {"pop"} \in SUBSET LifecycleJob
      BY DEF TypeOK
    <2> QED
      BY <1>15, <2>1, <2>2 DEF PromotePreOrderRead, TypeOK, ReqOK, row, history
  <1>16. CASE PromotionSweepRead(w, o)
    <2>1. ReqOK'
      BY <1>16, <1>0, ReadsType
      DEF PromotionSweepRead, HandlerOp, NeedsRider, RiderCalls
    <2> QED
      BY <1>16, <2>1 DEF PromotionSweepRead, TypeOK, ReqOK, row, queues, history
  <1>17. ASSUME NEW n \in 0..(MaxRetries - 1), TryDispatchRead(w, o, n)
        PROVE  TypeOK'
    <2>1. ReqOK'
      BY <1>17, ReadsType
      DEF TryDispatchRead, HandlerOp, NeedsRider, TypeOK, ReqOK
    <2>2. attempts[o] \ {n} \in SUBSET (0..(MaxRetries - 1))
      BY DEF TypeOK
    <2> QED
      BY <1>17, <2>1, <2>2 DEF TryDispatchRead, TypeOK, ReqOK, row, history
  <1> QED
    BY <1>1, <1>2, <1>3, <1>4, <1>5, <1>6, <1>7, <1>8, <1>9, <1>10, <1>11,
       <1>12, <1>13, <1>14, <1>15, <1>16, <1>17
    DEF ClientRead, SystemRead

(* Every handler that goes on preserves the types. *)
LEMMA ContinuePreservesType ==
    ASSUME TypeOK, NEW w \in Workers, Continue(w), UNCHANGED crashes
    PROVE  TypeOK'
  <1> DEFINE o == req[w].o
  <1>1. CASE InitiateMomoWrite(w)
    <2>1. Running(w, "momo") /\ o \in Orders
      BY <1>1, RunningType DEF InitiateMomoWrite
    <2>2. ReqOK'
      BY <1>1, ReturnsType DEF InitiateMomoWrite
    <2> QED
      BY <1>1, <2>1, <2>2
      DEF InitiateMomoWrite, TypeOK, Status, PaymentStatus, CollectState,
         ReqOK, row, queues, history
  <1>2. CASE InitiateMomoFail(w)
    <2>1. Running(w, "momo") /\ o \in Orders
      BY <1>2, RunningType DEF InitiateMomoFail
    <2>2. ReqOK'
      BY <1>2, ReturnsType DEF InitiateMomoFail
    <2> QED
      BY <1>2, <2>1, <2>2
      DEF InitiateMomoFail, TypeOK, Status, PaymentStatus, CollectState,
         ReqOK, row, queues, history
  <1>3. CASE OnPaymentSucceededWrite(w)
    <2>1. Running(w, "paySucceeded") /\ o \in Orders
      BY <1>3, RunningType DEF OnPaymentSucceededWrite
    <2>2. ReqOK'
      BY <1>3, ReturnsType DEF OnPaymentSucceededWrite
    <2>3. ledger' \in [Orders -> [LedgerKind -> Count]]
      BY <1>3, <2>1, RecordsType
      DEF OnPaymentSucceededWrite, LedgerKind, history, TypeOK
    <2>4. emitted' \in [Orders -> [EventKind -> Count]]
      BY <1>3, <2>1, EmitsType
      DEF OnPaymentSucceededWrite, EventKind, history, TypeOK
    <2>5. jobs' \in [Orders -> SUBSET LifecycleJob]
      BY <1>3, <2>1, EnqueuesType
      DEF OnPaymentSucceededWrite, LifecycleJob, queues, TypeOK
    <2>6. \/ UNCHANGED row
          \/ /\ status' = [status EXCEPT ![o] = "CONFIRMED"]
             /\ pay' = [pay EXCEPT ![o] = "PAID"]
             /\ \/ UNCHANGED deadline
                \/ deadline' = [deadline EXCEPT ![o] = TRUE]
             /\ UNCHANGED <<rider, prepared, suspended>>
      <3>1. CASE pay[o] \notin {"PENDING", "PROCESSING"}
        BY <1>3, <3>1 DEF OnPaymentSucceededWrite
      <3>2. CASE pay[o] \in {"PENDING", "PROCESSING"}
        BY <1>3, <3>2 DEF OnPaymentSucceededWrite
      <3> QED
        BY <3>1, <3>2
    <2>7. UNCHANGED <<attempts, collect>>
      BY <1>3 DEF OnPaymentSucceededWrite, queues
    <2> QED
      BY <2>1, <2>2, <2>3, <2>4, <2>5, <2>6, <2>7
      DEF TypeOK, Status, PaymentStatus, ReqOK, row
  <1>4. CASE WebhookFailedWrite(w)
    <2>1. Running(w, "payFailed") /\ o \in Orders
      BY <1>4, RunningType DEF WebhookFailedWrite
    <2>2. ReqOK'
      BY <1>4, ReturnsType DEF WebhookFailedWrite
    <2> QED
      BY <1>4, <2>1, <2>2
      DEF WebhookFailedWrite, TypeOK, Status, PaymentStatus, CollectState,
         ReqOK, row, queues, history
  <1>5. CASE AcceptOrderWrite(w)
    <2>1. Running(w, "accept") /\ o \in Orders
      BY <1>5, RunningType DEF AcceptOrderWrite
    <2>2. ReqOK'
      BY <1>5, ReturnsType DEF AcceptOrderWrite
    <2>3. emitted' \in [Orders -> [EventKind -> Count]]
      BY <1>5, <2>1, EmitsType DEF AcceptOrderWrite, EventKind, history, TypeOK
    <2>4. attempts[o] \cup {0} \in SUBSET (0..(MaxRetries - 1))
      BY <2>1, RetriesAssumption DEF TypeOK
    <2> QED
      BY <1>5, <2>1, <2>2, <2>3, <2>4
      DEF AcceptOrderWrite, TypeOK, Status, PaymentStatus, CollectState,
         ReqOK, row, queues, history
  <1>6. CASE RefuseOrderWrite(w)
    <2>1. Running(w, "refuse") /\ o \in Orders
      BY <1>6, RunningType DEF RefuseOrderWrite, RefuseWrite
    <2>2. ReqOK'
      BY <1>6, ReturnsType DEF RefuseOrderWrite, RefuseWrite
    <2>3. emitted' \in [Orders -> [EventKind -> Count]]
      BY <1>6, <2>1, EmitsType
      DEF RefuseOrderWrite, RefuseWrite, EventKind, history, TypeOK
    <2> QED
      BY <1>6, <2>1, <2>2, <2>3
      DEF RefuseOrderWrite, RefuseWrite, TypeOK, Status, PaymentStatus,
         CollectState,
         ReqOK, row, queues, history
  <1>7. CASE CancelOrderWrite(w)
    <2>1. Running(w, "cancel") /\ o \in Orders
      BY <1>7, RunningType DEF CancelOrderWrite
    <2>2. ReqOK'
      BY <1>7, ReturnsType DEF CancelOrderWrite
    <2>3. emitted' \in [Orders -> [EventKind -> Count]]
      BY <1>7, <2>1, EmitsType DEF CancelOrderWrite, EventKind, history, TypeOK
    <2> QED
      BY <1>7, <2>1, <2>2, <2>3
      DEF CancelOrderWrite, TypeOK, Status, PaymentStatus, CollectState,
         ReqOK, row, queues, history
  <1>8. CASE ExpireVendorDecisionWrite(w)
    <2>1. Running(w, "expire") /\ o \in Orders
      BY <1>8, RunningType DEF ExpireVendorDecisionWrite, RefuseWrite
    <2>2. ReqOK'
      BY <1>8, ReturnsType DEF ExpireVendorDecisionWrite, RefuseWrite
    <2>3. emitted' \in [Orders -> [EventKind -> Count]]
      BY <1>8, <2>1, EmitsType
      DEF ExpireVendorDecisionWrite, RefuseWrite, EventKind, history, TypeOK
    <2> QED
      BY <1>8, <2>1, <2>2, <2>3
      DEF ExpireVendorDecisionWrite, RefuseWrite, TypeOK, Status,
         PaymentStatus, CollectState,
         ReqOK, row, queues, history
  <1>9. CASE PromotePreOrderWrite(w)
    <2>1. Running(w, "promoteJob") /\ o \in Orders
      BY <1>9, RunningType DEF PromotePreOrderWrite, PromoteWrite
    <2>2. ReqOK'
      BY <1>9, ReturnsType DEF PromotePreOrderWrite, PromoteWrite
    <2>3. emitted' \in [Orders -> [EventKind -> Count]]
      BY <1>9, <2>1, EmitsType
      DEF PromotePreOrderWrite, PromoteWrite, EventKind, history, TypeOK
    <2>4. jobs' \in [Orders -> SUBSET LifecycleJob]
      BY <1>9, <2>1, EnqueuesType
      DEF PromotePreOrderWrite, PromoteWrite, LifecycleJob, queues, TypeOK
    <2> QED
      BY <1>9, <2>1, <2>2, <2>3, <2>4
      DEF PromotePreOrderWrite, PromoteWrite, TypeOK, Status, PaymentStatus,
         CollectState,
         ReqOK, row, queues, history
  <1>10. CASE PromotionSweepWrite(w)
    <2>1. Running(w, "promoteCron") /\ o \in Orders
      BY <1>10, RunningType DEF PromotionSweepWrite, PromoteWrite
    <2>2. ReqOK'
      BY <1>10, ReturnsType DEF PromotionSweepWrite, PromoteWrite
    <2>3. emitted' \in [Orders -> [EventKind -> Count]]
      BY <1>10, <2>1, EmitsType
      DEF PromotionSweepWrite, PromoteWrite, EventKind, history, TypeOK
    <2>4. jobs' \in [Orders -> SUBSET LifecycleJob]
      BY <1>10, <2>1, EnqueuesType
      DEF PromotionSweepWrite, PromoteWrite, LifecycleJob, queues, TypeOK
    <2> QED
      BY <1>10, <2>1, <2>2, <2>3, <2>4
      DEF PromotionSweepWrite, PromoteWrite, TypeOK, Status, PaymentStatus,
         CollectState,
         ReqOK, row, queues, history
  <1>11. CASE SetItemPreparedWrite(w)
    <2>1. Running(w, "setItem") /\ o \in Orders
      BY <1>11, RunningType DEF SetItemPreparedWrite
    <2>2. ReqOK'
      BY <1>11, ReturnsType DEF SetItemPreparedWrite
    <2>3. prepared' \in [Orders -> SUBSET Items]
      BY <1>11, <2>1 DEF SetItemPreparedWrite, TypeOK
    <2>4. status' \in [Orders -> Status]
      BY <1>11, <2>1 DEF SetItemPreparedWrite, TypeOK, Status
    <2> QED
      BY <1>11, <2>1, <2>2, <2>3, <2>4
      DEF SetItemPreparedWrite, TypeOK, Status, PaymentStatus, CollectState,
         ReqOK, row, queues, history
  <1>12. CASE MarkOrderReadyWrite(w)
    <2>1. Running(w, "ready") /\ o \in Orders
      BY <1>12, RunningType DEF MarkOrderReadyWrite
    <2>2. ReqOK'
      BY <1>12, ReturnsType DEF MarkOrderReadyWrite
    <2> QED
      BY <1>12, <2>1, <2>2
      DEF MarkOrderReadyWrite, TypeOK, Status, PaymentStatus, CollectState,
         ReqOK, row, queues, history
  <1>13. CASE VendorCancelPreOrderWrite(w)
    <2>1. Running(w, "preCancel") /\ o \in Orders
      BY <1>13, RunningType DEF VendorCancelPreOrderWrite
    <2>2. ReqOK'
      BY <1>13, ReturnsType DEF VendorCancelPreOrderWrite
    <2>3. ledger' \in [Orders -> [LedgerKind -> Count]]
      BY <1>13, <2>1, RecordsType
      DEF VendorCancelPreOrderWrite, LedgerKind, history, TypeOK
    <2>4. emitted' \in [Orders -> [EventKind -> Count]]
      BY <1>13, <2>1, EmitsType
      DEF VendorCancelPreOrderWrite, EventKind, history, TypeOK
    <2> QED
      BY <1>13, <2>1, <2>2, <2>3, <2>4
      DEF VendorCancelPreOrderWrite, TypeOK, Status, PaymentStatus,
         CollectState,
         ReqOK, row, queues, history
  <1>14. CASE DispatchQuery(w)
    <2>1. Running(w, "query") /\ o \in Orders
      BY <1>14, RunningType DEF DispatchQuery
    <2>2. PICK r \in Riders \ suspended :
            req' = [req EXCEPT ![w].op = "claim", ![w].r = r]
      BY <1>14 DEF DispatchQuery
    <2>3. [req[w] EXCEPT !.op = "claim", !.r = r] \in Call
      BY <2>1, RunningType DEF Call, HandlerOp
    <2>4. ReqOK'
      BY <2>1, <2>2, <2>3, RunningType DEF TypeOK, ReqOK, Call
    <2> QED
      BY <1>14, <2>1, <2>4
      DEF DispatchQuery, TypeOK, Status, PaymentStatus, CollectState,
         ReqOK, row, queues, history
  <1>15. CASE DispatchClaim(w)
    <2>1. Running(w, "claim") /\ o \in Orders
      BY <1>15, RunningType DEF DispatchClaim
    <2>2. ReqOK'
      BY <1>15, ReturnsType DEF DispatchClaim
    <2>3. rider' \in [Orders -> Riders \cup {NoRider}]
      BY <1>15, <2>1, RunningType DEF DispatchClaim, TypeOK, Call
    <2> QED
      BY <1>15, <2>1, <2>2, <2>3
      DEF DispatchClaim, TypeOK, Status, PaymentStatus, CollectState,
         ReqOK, row, queues, history
  <1>16. CASE DispatchMiss(w)
    <2>1. req[w] \in Call /\ o \in Orders /\ req[w].n \in 0..(MaxRetries - 1)
      BY <1>16, RunningType DEF DispatchMiss
    <2>2. [req[w] EXCEPT !.op = "giveUp", !.r = NoRider] \in Call
      BY <2>1 DEF Call, HandlerOp
    <2>4. ReqOK'
      <3>1. CASE Returns(w)
        BY <3>1, ReturnsType
      <3>2. CASE req' = [req EXCEPT ![w].op = "giveUp", ![w].r = NoRider]
        BY <3>2, <2>1, <2>2 DEF TypeOK, ReqOK, NeedsRider, Call
      <3> QED
        BY <1>16, <3>1, <3>2 DEF DispatchMiss
    <2>3. req[w].n < MaxRetries - 1 =>
            attempts[o] \cup {req[w].n + 1} \in SUBSET (0..(MaxRetries - 1))
      BY <2>1, RetriesAssumption DEF TypeOK
    <2> QED
      BY <1>16, <2>1, <2>4, <2>3
      DEF DispatchMiss, TypeOK, Status, PaymentStatus, CollectState,
         ReqOK, row, queues, history
  <1>17. CASE ExpireForNoRiderRead(w)
    <2>1. Running(w, "giveUp") /\ o \in Orders
      BY <1>17, RunningType DEF ExpireForNoRiderRead
    <2>2. ReqOK'
      BY <1>17, <2>1, RunningType
      DEF ExpireForNoRiderRead, TypeOK, ReqOK, Call, HandlerOp, NeedsRider
    <2> QED
      BY <1>17, <2>1, <2>2
      DEF ExpireForNoRiderRead, TypeOK, Status, PaymentStatus, CollectState,
         ReqOK, row, queues, history
  <1>18. CASE ExpireForNoRiderWrite(w)
    <2>1. Running(w, "expireNoRider") /\ o \in Orders
      BY <1>18, RunningType DEF ExpireForNoRiderWrite
    <2>2. ReqOK'
      BY <1>18, ReturnsType DEF ExpireForNoRiderWrite
    <2>3. emitted' \in [Orders -> [EventKind -> Count]]
      BY <1>18, <2>1, EmitsType
      DEF ExpireForNoRiderWrite, EventKind, history, TypeOK
    <2> QED
      BY <1>18, <2>1, <2>2, <2>3
      DEF ExpireForNoRiderWrite, TypeOK, Status, PaymentStatus, CollectState,
         ReqOK, row, queues, history
  <1>19. CASE MarkPickedUpWrite(w)
    <2>1. Running(w, "pickup") /\ o \in Orders
      BY <1>19, RunningType DEF MarkPickedUpWrite
    <2>2. ReqOK'
      BY <1>19, ReturnsType DEF MarkPickedUpWrite
    <2> QED
      BY <1>19, <2>1, <2>2
      DEF MarkPickedUpWrite, TypeOK, Status, PaymentStatus, CollectState,
         ReqOK, row, queues, history
  <1>20. CASE MarkDeliveredWrite(w)
    <2>1. Running(w, "deliver") /\ o \in Orders
      BY <1>20, RunningType DEF MarkDeliveredWrite
    <2>2. ReqOK'
      BY <1>20, ReturnsType DEF MarkDeliveredWrite
    <2>3. ledger' \in [Orders -> [LedgerKind -> Count]]
      BY <1>20, <2>1, RecordsType
      DEF MarkDeliveredWrite, LedgerKind, history, TypeOK
    <2> QED
      BY <1>20, <2>1, <2>2, <2>3
      DEF MarkDeliveredWrite, TypeOK, Status, PaymentStatus, CollectState,
         ReqOK, row, queues, history
  <1>21. CASE ResolveRiderFraudWrite(w)
    <2>1. req[w] \in Call /\ o \in Orders
      BY <1>21, RunningType DEF ResolveRiderFraudWrite
    <2>2. ReqOK'
      BY <1>21, ReturnsType DEF ResolveRiderFraudWrite
    <2>3. ledger' \in [Orders -> [LedgerKind -> Count]]
      BY <1>21, <2>1, RecordsType
      DEF ResolveRiderFraudWrite, LedgerKind, history, TypeOK
    <2>4. suspended' \subseteq Riders
      BY <1>21, <2>1
      DEF ResolveRiderFraudWrite, TypeOK, ReqOK, NeedsRider, Running
    <2> QED
      BY <1>21, <2>1, <2>2, <2>3, <2>4
      DEF ResolveRiderFraudWrite, TypeOK, Status, PaymentStatus, CollectState,
         ReqOK, row, queues, history
  <1> QED
    BY <1>1, <1>2, <1>3, <1>4, <1>5, <1>6, <1>7, <1>8, <1>9, <1>10, <1>11,
       <1>12, <1>13, <1>14, <1>15, <1>16, <1>17, <1>18, <1>19, <1>20, <1>21
    DEF Continue

(* Every step preserves the types. *)
LEMMA StepPreservesType ==
    ASSUME TypeOK, [Next]_vars
    PROVE  TypeOK'
  <1>1. ASSUME NEW w \in Workers, Continue(w), UNCHANGED crashes
        PROVE  TypeOK'
    BY <1>1, ContinuePreservesType
  <1>2. ASSUME NEW w \in Workers, NEW o \in Orders,
               ClientRead(w, o) \/ SystemRead(w, o), UNCHANGED crashes
        PROVE  TypeOK'
    BY <1>2, ReadPreservesType
  <1>3. ASSUME NEW r \in Riders, SuspendRider(r) \/ UnsuspendRider(r),
               UNCHANGED crashes
        PROVE  TypeOK'
    BY <1>3 DEF SuspendRider, UnsuspendRider, TypeOK, queues, history
  <1>4. CASE Crash
    <2>1. crashes' \in 0..MaxCrashes
      BY <1>4, SwitchesAssumption DEF Crash, TypeOK
    <2>2. attempts' \in [Orders -> SUBSET (0..(MaxRetries - 1))]
      BY <1>4 DEF Crash, TypeOK
    <2>3. collect' \in [Orders -> CollectState]
      BY <1>4 DEF Crash, TypeOK, CollectState
    <2> QED
      BY <1>4, <2>1, <2>2, <2>3 DEF Crash, TypeOK, row, history
  <1>5. CASE UNCHANGED vars
    BY <1>5 DEF TypeOK, vars, row, queues, history
  <1> QED
    BY <1>1, <1>2, <1>3, <1>4, <1>5 DEF Next

(* The rows, queues, counters and in-flight handlers keep their types: in  *)
(* particular the attempt number never passes MAX_RETRIES - 1, and no      *)
(* claim, pickup, delivery or fraud resolution goes on without a rider.    *)
THEOREM TypeCorrect == Spec => []TypeOK
  <1>1. Init => TypeOK
    BY SwitchesAssumption
    DEF Init, TypeOK, Status, PaymentStatus, CollectState, Count, Many, Idle
  <1>2. TypeOK /\ [Next]_vars => TypeOK'
    BY StepPreservesType
  <1> QED
    BY <1>1, <1>2, PTL DEF Spec

-----------------------------------------------------------------------------
(* riderId is written by DispatchClaim alone, under riderId IS NULL. *)
LEMMA RiderStep ==
    ASSUME TypeOK, [Next]_vars, NEW o \in Orders, rider[o] # NoRider
    PROVE  rider'[o] = rider[o]
  <1>1. ASSUME NEW w \in Workers, Continue(w)
        PROVE  rider'[o] = rider[o]
    <2>1. CASE DispatchClaim(w)
      BY <2>1, RunningType DEF DispatchClaim, TypeOK
    <2>2. CASE ~DispatchClaim(w)
      BY <1>1, <2>2 DEF Continue, row,
         InitiateMomoWrite, InitiateMomoFail, OnPaymentSucceededWrite,
         WebhookFailedWrite, AcceptOrderWrite, RefuseOrderWrite, RefuseWrite,
         CancelOrderWrite, ExpireVendorDecisionWrite, PromotePreOrderWrite,
         PromotionSweepWrite, PromoteWrite, SetItemPreparedWrite,
         MarkOrderReadyWrite, VendorCancelPreOrderWrite, DispatchQuery,
         DispatchMiss, ExpireForNoRiderRead, ExpireForNoRiderWrite,
         MarkPickedUpWrite, MarkDeliveredWrite, ResolveRiderFraudWrite
    <2> QED
      BY <2>1, <2>2
  <1>2. ASSUME NEW w \in Workers, NEW x \in Orders,
               ClientRead(w, x) \/ SystemRead(w, x)
        PROVE  rider'[o] = rider[o]
    BY <1>2 DEF ClientRead, SystemRead, row, InitiateMomoRead,
       OnPaymentSucceededRead, WebhookFailedRead, AcceptOrderRead,
       RefuseOrderRead, CancelOrderRead, SetItemPreparedRead,
       MarkOrderReadyRead, VendorCancelPreOrderRead, MarkPickedUpRead,
       MarkDeliveredRead, ResolveRiderFraudRead, ExpireVendorDecisionRead,
       SweepExpiredRead, PromotePreOrderRead, PromotionSweepRead, TryDispatchRead
  <1>3. CASE UNCHANGED rider
    BY <1>3
  <1> QED
    BY <1>1, <1>2, <1>3
    DEF Next, SuspendRider, UnsuspendRider, Crash, vars, row

(* Whatever attempts, redeliveries and restarts overlap, an assigned rider *)
(* stays the order's rider.                                                *)
THEOREM RiderIsKept == Spec => RiderKept
  <1>1. TypeOK /\ [Next]_vars =>
          [\A o \in Orders : rider[o] # NoRider => rider'[o] = rider[o]]_vars
    BY RiderStep
  <1> QED
    BY <1>1, TypeCorrect, PTL DEF Spec, RiderKept

=============================================================================
