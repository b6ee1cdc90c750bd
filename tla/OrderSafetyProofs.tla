------------------------- MODULE OrderSafetyProofs --------------------------
(* The safety of the order pipeline, for every number of orders, workers,  *)
(* retries and restarts, under one assumption: the vendor decides only on  *)
(* the orders that listVendorOrders shows (~EarlyAccept).  The inductive   *)
(* invariant is IndInv; ChainInv adds the dispatch chain of the orders     *)
(* whose jobs the queue does not run twice.  And, while handlers do not    *)
(* overlap, that the pipeline implements OrderCustody.                     *)
EXTENDS OrderLifecycleProofs, MCOrderLifecycle

(* Entering a handler other than the MoMo ones keeps CallInv. *)
LEMMA PlainReadCall ==
    ASSUME TypeOK, CallInv, NEW w \in Workers, NEW o \in Orders,
           NEW op \in HandlerOp, NEW n, Reads(w, op, o, n),
           UNCHANGED <<ledger, collect>>,
           op \notin {"momo", "paySucceeded", "payFailed"},
           op # "cancel" => Booked(o),
           op \in {"promoteJob", "promoteCron"} => o \in PreOrders
    PROVE  CallInv'
  <1>1. req' = [req EXCEPT ![w] = [op |-> op, o |-> o, st |-> status[o],
                                  pay |-> pay[o], n |-> n, r |-> rider[o]]]
    BY DEF Reads
  <1> QED
    BY <1>1 DEF TypeOK, CallInv, Booked, Busy, Idle

(* Leaving a handler keeps CallInv when no attempt and no booking moved    *)
(* backwards.                                                              *)
LEMMA ReturnCall ==
    ASSUME TypeOK, CallInv, NEW w \in Workers, Returns(w), UNCHANGED collect,
           \A x \in Orders : Booked(x) => Booked(x)'
    PROVE  CallInv'
  <1>1. \A v \in Workers : req'[v] # Idle => v # w /\ req'[v] = req[v]
    BY DEF Returns, TypeOK
  <1>2. \A v \in Workers : req[v] # Idle => req[v].o \in Orders
    BY DEF TypeOK, Call
  <1> QED
    BY <1>1, <1>2 DEF CallInv, Busy

(* The other parts do not look at the handlers. *)
LEMMA QuietStep ==
    ASSUME TypeOK, IndInv, UNCHANGED <<row, collect, history>>,
           \A x \in Orders : jobs'[x] \subseteq jobs[x]
                             /\ attempts'[x] \subseteq attempts[x]
    PROVE  MoneyInv' /\ DecisionInv' /\ AlertInv' /\ PenaltyInv'
  <1>1. MoneyInv'
    BY DEF IndInv, MoneyInv, Booked, Funded, row, history
  <1>2. DecisionInv'
    BY DEF IndInv, DecisionInv, Booked, row, history
  <1>3. AlertInv'
    BY DEF IndInv, AlertInv, Booked, row, history
  <1>4. PenaltyInv'
    BY DEF IndInv, PenaltyInv, row, history
  <1> QED
    BY <1>1, <1>2, <1>3, <1>4

(* A handler that starts preserves the invariant. *)
LEMMA ReadPreservesInv ==
    ASSUME TypeOK, IndInv, ~EarlyAccept, NEW w \in Workers, NEW o \in Orders,
           ClientRead(w, o) \/ SystemRead(w, o)
    PROVE  IndInv'
  <1>0. CallInv
    BY DEF IndInv
  <1>1. CASE InitiateMomoRead(w, o)
    <2>1. collect[o] = "idle" /\ ~Booked(o)
      BY <1>1 DEF InitiateMomoRead, IndInv, MoneyInv, TypeOK, CollectState
    <2>2. MoneyInv'
      BY <1>1, <2>1
      DEF InitiateMomoRead, IndInv, MoneyInv, TypeOK, Booked, row, queues,
         history
    <2>3. \A v \in Workers : req[v] # Idle =>
             /\ req[v].o \in Orders
             /\ req[v].o = o => req[v].op \notin {"momo", "paySucceeded", "payFailed"}
      BY <2>1 DEF IndInv, CallInv, TypeOK, Call
    <2>4. CallInv'
      BY <1>1, <2>1, <2>3
      DEF InitiateMomoRead, Reads, IndInv, CallInv, TypeOK, Booked, Busy, Idle,
         history
    <2> QED
      BY <1>1, <2>2, <2>4 DEF InitiateMomoRead, IndInv, DecisionInv, AlertInv,
         PenaltyInv, Booked, row, history
  <1>2. CASE OnPaymentSucceededRead(w, o)
    <2>1. MoneyInv'
      BY <1>2
      DEF OnPaymentSucceededRead, IndInv, MoneyInv, TypeOK, Booked, row,
         queues, history
    <2>2. CallInv'
      BY <1>2
      DEF OnPaymentSucceededRead, Reads, IndInv, CallInv, MoneyInv, TypeOK,
         Booked, Busy, Idle, history
    <2> QED
      BY <1>2, <2>1, <2>2
      DEF OnPaymentSucceededRead, IndInv, DecisionInv, AlertInv,
         PenaltyInv, Booked, row, history
  <1>3. CASE WebhookFailedRead(w, o)
    <2>1. MoneyInv'
      BY <1>3
      DEF WebhookFailedRead, IndInv, MoneyInv, TypeOK, Booked, row, queues,
         history
    <2>2. CallInv'
      BY <1>3
      DEF WebhookFailedRead, Reads, IndInv, CallInv, MoneyInv, TypeOK, Booked,
         Busy, Idle, history
    <2> QED
      BY <1>3, <2>1, <2>2 DEF WebhookFailedRead, IndInv, DecisionInv, AlertInv,
         PenaltyInv, Booked, row, history
  <1>4. CASE AcceptOrderRead(w, o)
    <2>1. Booked(o)
      BY <1>4 DEF AcceptOrderRead, IndInv, MoneyInv, Funded, VendorSees
    <2>2. CallInv'
      BY <1>4, <1>0, <2>1, PlainReadCall DEF AcceptOrderRead, HandlerOp, history
    <2> QED
      BY <1>4, <2>2, QuietStep DEF AcceptOrderRead, IndInv, queues
  <1>5. CASE RefuseOrderRead(w, o)
    <2>1. Booked(o)
      BY <1>5 DEF RefuseOrderRead, IndInv, MoneyInv, Funded, VendorSees
    <2>2. CallInv'
      BY <1>5, <1>0, <2>1, PlainReadCall DEF RefuseOrderRead, HandlerOp, history
    <2> QED
      BY <1>5, <2>2, QuietStep DEF RefuseOrderRead, IndInv, queues
  <1>6. CASE CancelOrderRead(w, o)
    <2>1. CallInv'
      BY <1>6, <1>0, PlainReadCall DEF CancelOrderRead, HandlerOp, history
    <2> QED
      BY <1>6, <2>1, QuietStep DEF CancelOrderRead, IndInv, queues
  <1>7. CASE SetItemPreparedRead(w, o)
    <2>1. Booked(o)
      BY <1>7 DEF SetItemPreparedRead, IndInv, MoneyInv, Funded, InKitchen
    <2>2. CallInv'
      BY <1>7, <1>0, <2>1, PlainReadCall
      DEF SetItemPreparedRead, HandlerOp, history
    <2> QED
      BY <1>7, <2>2, QuietStep DEF SetItemPreparedRead, IndInv, queues
  <1>8. CASE MarkOrderReadyRead(w, o)
    <2>1. Booked(o)
      BY <1>8 DEF MarkOrderReadyRead, IndInv, MoneyInv, Funded, InKitchen
    <2>2. CallInv'
      BY <1>8, <1>0, <2>1, PlainReadCall
      DEF MarkOrderReadyRead, HandlerOp, history
    <2> QED
      BY <1>8, <2>2, QuietStep DEF MarkOrderReadyRead, IndInv, queues
  <1>9. CASE VendorCancelPreOrderRead(w, o)
    <2>1. Booked(o)
      BY <1>9 DEF VendorCancelPreOrderRead, IndInv, MoneyInv, Funded, InKitchen
    <2>2. CallInv'
      BY <1>9, <1>0, <2>1, PlainReadCall
      DEF VendorCancelPreOrderRead, HandlerOp, history
    <2> QED
      BY <1>9, <2>2, QuietStep DEF VendorCancelPreOrderRead, IndInv, queues
  <1>10. CASE MarkPickedUpRead(w, o)
    <2>1. Booked(o)
      BY <1>10 DEF MarkPickedUpRead, IndInv, MoneyInv, Funded, Pickupable
    <2>2. CallInv'
      BY <1>10, <1>0, <2>1, PlainReadCall
      DEF MarkPickedUpRead, HandlerOp, history
    <2> QED
      BY <1>10, <2>2, QuietStep DEF MarkPickedUpRead, IndInv, queues
  <1>11. CASE MarkDeliveredRead(w, o)
    <2>1. Booked(o)
      BY <1>11 DEF MarkDeliveredRead, IndInv, MoneyInv, Funded
    <2>2. CallInv'
      BY <1>11, <1>0, <2>1, PlainReadCall
      DEF MarkDeliveredRead, HandlerOp, history
    <2> QED
      BY <1>11, <2>2, QuietStep DEF MarkDeliveredRead, IndInv, queues
  <1>12. CASE ResolveRiderFraudRead(w, o)
    <2>1. Booked(o)
      BY <1>12 DEF ResolveRiderFraudRead, IndInv, MoneyInv, Funded
    <2>2. CallInv'
      BY <1>12, <1>0, <2>1, PlainReadCall
      DEF ResolveRiderFraudRead, HandlerOp, history
    <2> QED
      BY <1>12, <2>2, QuietStep DEF ResolveRiderFraudRead, IndInv, queues
  <1>13. CASE SweepExpiredRead(w, o)
    <2>1. Booked(o)
      BY <1>13 DEF SweepExpiredRead, IndInv, MoneyInv, Funded
    <2>2. CallInv'
      BY <1>13, <1>0, <2>1, PlainReadCall
      DEF SweepExpiredRead, HandlerOp, history
    <2> QED
      BY <1>13, <2>2, QuietStep DEF SweepExpiredRead, IndInv, queues
  <1>14. CASE PromotionSweepRead(w, o)
    <2>1. Booked(o)
      BY <1>14 DEF PromotionSweepRead, IndInv, MoneyInv, Funded, Promotable
    <2>2. CallInv'
      BY <1>14, <1>0, <2>1, PlainReadCall
      DEF PromotionSweepRead, HandlerOp, history, Promotable
    <2> QED
      BY <1>14, <2>2, QuietStep DEF PromotionSweepRead, IndInv, queues
  <1>15. CASE ExpireVendorDecisionRead(w, o)
    <2>1. ASSUME status[o] \in Decidable PROVE CallInv'
      <3>1. Booked(o)
        BY <1>15, <2>1 DEF ExpireVendorDecisionRead, IndInv, MoneyInv, Funded
      <3> QED
        BY <1>15, <1>0, <2>1, <3>1, PlainReadCall
        DEF ExpireVendorDecisionRead, HandlerOp, history
    <2>2. ASSUME ~(status[o] \in Decidable) PROVE CallInv'
      BY <1>15, <2>2
      DEF ExpireVendorDecisionRead, IndInv, CallInv, Booked, Busy, history
    <2>3. CallInv'
      BY <2>1, <2>2
    <2>4. \A x \in Orders : jobs'[x] \subseteq jobs[x]
      BY <1>15 DEF ExpireVendorDecisionRead, TypeOK
    <2> QED
      BY <1>15, <2>3, <2>4, QuietStep DEF ExpireVendorDecisionRead, IndInv
  <1>16. CASE PromotePreOrderRead(w, o)
    <2>1. ASSUME Promotable(o) PROVE CallInv'
      <3>1. Booked(o)
        BY <1>16, <2>1
        DEF PromotePreOrderRead, IndInv, MoneyInv, Funded, Promotable
      <3> QED
        BY <1>16, <1>0, <2>1, <3>1, PlainReadCall
        DEF PromotePreOrderRead, HandlerOp, history, Promotable
    <2>2. ASSUME ~(Promotable(o)) PROVE CallInv'
      BY <1>16, <2>2
      DEF PromotePreOrderRead, IndInv, CallInv, Booked, Busy, history
    <2>3. CallInv'
      BY <2>1, <2>2
    <2>4. \A x \in Orders : jobs'[x] \subseteq jobs[x]
      BY <1>16 DEF PromotePreOrderRead, TypeOK
    <2> QED
      BY <1>16, <2>3, <2>4, QuietStep DEF PromotePreOrderRead, IndInv
  <1>17. ASSUME NEW n \in 0..(MaxRetries - 1), TryDispatchRead(w, o, n)
        PROVE  IndInv'
    <2>1. Booked(o)
      BY <1>17 DEF TryDispatchRead, IndInv, MoneyInv
    <2>2. CASE Reads(w, "query", o, n)
      <3>1. CallInv'
        BY <1>17, <1>0, <2>1, <2>2, PlainReadCall
        DEF TryDispatchRead, HandlerOp, history
      <3>2. \A x \in Orders : attempts'[x] \subseteq attempts[x]
        BY <1>17 DEF TryDispatchRead, TypeOK
      <3> QED
        BY <1>17, <3>1, <3>2, QuietStep DEF TryDispatchRead, IndInv
    <2>3. CASE UNCHANGED req
      <3>1. CallInv'
        BY <1>17, <2>3
        DEF TryDispatchRead, IndInv, CallInv, Booked, Busy, history
      <3>2. \A x \in Orders : attempts'[x] \subseteq attempts[x]
        BY <1>17 DEF TryDispatchRead, TypeOK
      <3> QED
        BY <1>17, <3>1, <3>2, QuietStep DEF TryDispatchRead, IndInv
    <2> QED
      BY <1>17, <2>2, <2>3 DEF TryDispatchRead
  <1> QED
    BY <1>1, <1>2, <1>3, <1>4, <1>5, <1>6, <1>7, <1>8, <1>9, <1>10, <1>11,
       <1>12, <1>13, <1>14, <1>15, <1>16, <1>17
    DEF ClientRead, SystemRead

(* What the counters hold after a write. *)
LEMMA RecordsEffect ==
    ASSUME TypeOK, NEW o \in Orders, NEW k \in LedgerKind, Records(o, k)
    PROVE  \A x \in Orders, j \in LedgerKind :
             ledger'[x][j] = IF x = o /\ j = k THEN Bump(ledger[o][k])
                                               ELSE ledger[x][j]
  BY DEF Records, TypeOK

(* An emitted event bumps its own count and no other. *)
LEMMA EmitsEffect ==
    ASSUME TypeOK, NEW o \in Orders, NEW k \in EventKind, Emits(o, k)
    PROVE  \A x \in Orders, j \in EventKind :
             emitted'[x][j] = IF x = o /\ j = k THEN Bump(emitted[o][k])
                                                ELSE emitted[x][j]
  BY DEF Emits, TypeOK

(* A handler past its read half works on a booked order, unless it is one  *)
(* of the payment handlers or the consumer's cancellation.                 *)
LEMMA RunningBooked ==
    ASSUME TypeOK, IndInv, NEW w \in Workers, NEW op, Running(w, op),
           op \notin {"momo", "paySucceeded", "payFailed", "cancel"}
    PROVE  req[w].o \in Orders /\ Booked(req[w].o)
  BY RunningType DEF IndInv, CallInv, Running

(* A dispatch handler that goes on as another one keeps CallInv. *)
LEMMA ContinuesCall ==
    ASSUME TypeOK, CallInv, NEW w \in Workers, req[w] # Idle,
           req[w].op \in ChainOp, NEW c \in Call, c.o = req[w].o,
           c.op \in ChainOp, req' = [req EXCEPT ![w] = c],
           UNCHANGED <<ledger, collect>>
    PROVE  CallInv'
  <1>1. \A v \in Workers : req'[v] = IF v = w THEN c ELSE req[v]
    BY DEF TypeOK
  <1> QED
    BY <1>1 DEF CallInv, Booked, Busy, ChainOp

(* The status written under a booking: MoneyInv only asks that it is not   *)
(* PENDING, DecisionInv that it does not reopen the decision.              *)
LEMMA StatusWrite ==
    ASSUME TypeOK, IndInv, NEW o \in Orders, Booked(o),
           NEW s \in Status \ Decidable, status' = [status EXCEPT ![o] = s],
           UNCHANGED <<pay, deadline, collect, queues, ledger>>
    PROVE  MoneyInv' /\ PenaltyInv' /\ (UNCHANGED emitted => DecisionInv' /\ AlertInv')
  <1>1. MoneyInv'
    BY DEF IndInv, MoneyInv, Booked, Decidable, TypeOK, queues
  <1>2. PenaltyInv'
    BY DEF IndInv, PenaltyInv
  <1>3. UNCHANGED emitted => DecisionInv' /\ AlertInv'
    BY DEF IndInv, DecisionInv, AlertInv, Booked, TypeOK
  <1> QED
    BY <1>1, <1>2, <1>3

(* A handler that goes on preserves the invariant. *)
LEMMA ContinuePreservesInv ==
    ASSUME TypeOK, IndInv, NEW w \in Workers, Continue(w)
    PROVE  IndInv'
  <1> DEFINE o == req[w].o
  <1>0. CallInv
    BY DEF IndInv
  <1>1. CASE InitiateMomoWrite(w)
    <2>1. /\ o \in Orders /\ collect[o] = "calling" /\ ~Booked(o)
          /\ \A v \in Workers \ {w} : ~Busy(v, "momo", o)
      BY <1>1, RunningType
      DEF InitiateMomoWrite, IndInv, CallInv, MoneyInv, Running
    <2>2. MoneyInv'
      BY <1>1, <2>1
      DEF InitiateMomoWrite, IndInv, MoneyInv, TypeOK, Booked, Funded, queues,
         history
    <2>3. \A v \in Workers \ {w} : req[v] # Idle =>
             /\ req[v].o \in Orders
             /\ req[v].o = o => req[v].op \notin {"momo", "paySucceeded", "payFailed"}
      BY <2>1 DEF IndInv, CallInv, TypeOK, Call, Busy
    <2>4. CallInv'
      BY <1>1, <2>1, <2>3
      DEF InitiateMomoWrite, Returns, IndInv, CallInv, TypeOK, Booked, Busy,
         history
    <2>5. PenaltyInv'
      BY <1>1, <2>1
      DEF InitiateMomoWrite, IndInv, PenaltyInv, MoneyInv, Funded, TypeOK,
         history
    <2> QED
      BY <1>1, <2>2, <2>4, <2>5
      DEF InitiateMomoWrite, IndInv, DecisionInv, AlertInv, Booked, history
  <1>2. CASE InitiateMomoFail(w)
    <2>1. /\ o \in Orders /\ collect[o] = "calling" /\ ~Booked(o)
          /\ \A v \in Workers \ {w} : ~Busy(v, "momo", o)
      BY <1>2, RunningType
      DEF InitiateMomoFail, IndInv, CallInv, MoneyInv, Running
    <2>2. MoneyInv'
      BY <1>2, <2>1
      DEF InitiateMomoFail, IndInv, MoneyInv, TypeOK, Booked, Funded, row,
         queues, history
    <2>3. \A v \in Workers \ {w} : req[v] # Idle =>
             /\ req[v].o \in Orders
             /\ req[v].o = o => req[v].op \notin {"momo", "paySucceeded", "payFailed"}
      BY <2>1 DEF IndInv, CallInv, TypeOK, Call, Busy
    <2>4. CallInv'
      BY <1>2, <2>1, <2>3
      DEF InitiateMomoFail, Returns, IndInv, CallInv, TypeOK, Booked, Busy,
         history
    <2> QED
      BY <1>2, <2>2, <2>4
      DEF InitiateMomoFail, IndInv, DecisionInv, AlertInv, PenaltyInv, Booked,
         row, history
  <1>3. CASE OnPaymentSucceededWrite(w)
    <2>1. o \in Orders /\ collect[o] = "succeeded" /\ Returns(w) /\ UNCHANGED collect
      BY <1>3, RunningType DEF OnPaymentSucceededWrite, IndInv, CallInv, Running
    <2>2. ASSUME pay[o] \notin {"PENDING", "PROCESSING"}
          PROVE  IndInv'
      <3>1. UNCHANGED <<row, queues, history>>
        BY <1>3, <2>2 DEF OnPaymentSucceededWrite
      <3>2. CallInv'
        BY <1>0, <2>1, <3>1, ReturnCall DEF Booked, history
      <3> QED
        BY <2>1, <3>1, <3>2, QuietStep DEF IndInv, queues
    <2>3. ASSUME pay[o] \in {"PENDING", "PROCESSING"}
          PROVE  IndInv'
      <3>1. /\ status' = [status EXCEPT ![o] = "CONFIRMED"]
            /\ pay' = [pay EXCEPT ![o] = "PAID"]
            /\ Records(o, "payment")
            /\ IF o \in PreOrders
               THEN Enqueues(o, "pop") /\ UNCHANGED <<deadline, emitted>>
               ELSE /\ deadline' = [deadline EXCEPT ![o] = TRUE]
                    /\ Emits(o, "created")
                    /\ Enqueues(o, "aexp")
            /\ UNCHANGED attempts
        BY <1>3, <2>3 DEF OnPaymentSucceededWrite
      <3>0. /\ ledger[o]["payment"] \in Count /\ ledger[o]["penalty"] \in Count
            /\ emitted[o]["created"] \in Count
        BY <2>1 DEF TypeOK, LedgerKind, EventKind
      <3>2. ledger[o]["payment"] = 0 /\ ledger[o]["penalty"] = 0
        BY <2>1, <2>3, <3>0
        DEF IndInv, MoneyInv, PenaltyInv, Funded, Booked, Count, Many
      <3>3. \A x \in Orders : /\ ledger'[x]["payment"] = IF x = o THEN 1 ELSE ledger[x]["payment"]
                              /\ ledger'[x]["penalty"] = ledger[x]["penalty"]
        BY <2>1, <3>1, <3>2, RecordsEffect DEF LedgerKind, Bump, Many
      <3>4. \A x \in Orders : /\ "aexp" \in jobs'[x] => x = o \/ "aexp" \in jobs[x]
                              /\ deadline'[x] => x = o \/ deadline[x]
        BY <2>1, <3>1 DEF Enqueues, TypeOK
      <3>5. \A x \in Orders :
              /\ emitted'[x]["accepted"] = emitted[x]["accepted"]
              /\ emitted'[x]["refused"] = emitted[x]["refused"]
              /\ emitted'[x]["created"] = IF x = o /\ o \notin PreOrders
                                          THEN Bump(emitted[x]["created"])
                                          ELSE emitted[x]["created"]
        BY <2>1, <3>1, EmitsEffect DEF EventKind
      <3>6. MoneyInv'
        <4>1. /\ status' = [status EXCEPT ![o] = "CONFIRMED"]
              /\ pay' = [pay EXCEPT ![o] = "PAID"]
              /\ UNCHANGED <<attempts, collect>>
          BY <2>1, <3>1
        <4>2. \A x \in Orders \ {o} : status'[x] = status[x] /\ pay'[x] = pay[x]
          BY <4>1 DEF TypeOK
        <4>3. status'[o] = "CONFIRMED" /\ pay'[o] = "PAID"
          BY <2>1, <4>1 DEF TypeOK
        <4> QED
          BY <2>1, <3>3, <3>4, <4>1, <4>2, <4>3
          DEF IndInv, MoneyInv, Booked, Funded
      <3>7. CallInv'
        BY <1>0, <2>1, <3>3, ReturnCall DEF Booked
      <3>8. DecisionInv'
        BY <2>1, <3>1, <3>2, <3>3, <3>5 DEF IndInv, DecisionInv, Booked, TypeOK
      <3>9. AlertInv'
        <4>1. o \notin PreOrders => emitted[o]["created"] = 0
          BY <2>1, <3>0, <3>2 DEF IndInv, AlertInv, Booked, Count, Many
        <4>2. \A x \in Orders : x \in PreOrders => deadline'[x] = deadline[x]
          BY <2>1, <3>1 DEF TypeOK
        <4> QED
          BY <2>1, <3>3, <3>5, <4>1, <4>2
          DEF IndInv, AlertInv, Booked, Bump, Many
      <3>10. PenaltyInv'
        BY <2>1, <3>1, <3>2, <3>3 DEF IndInv, PenaltyInv, TypeOK
      <3> QED
        BY <3>6, <3>7, <3>8, <3>9, <3>10 DEF IndInv
    <2> QED
      BY <2>2, <2>3
  <1>4. CASE WebhookFailedWrite(w)
    <2>1. /\ o \in Orders /\ collect[o] = "failed" /\ ~Booked(o)
          /\ \A v \in Workers \ {w} : ~Busy(v, "payFailed", o)
      BY <1>4, RunningType
      DEF WebhookFailedWrite, IndInv, CallInv, MoneyInv, Running
    <2>2. MoneyInv'
      BY <1>4, <2>1
      DEF WebhookFailedWrite, IndInv, MoneyInv, TypeOK, Booked, Funded, queues,
         history
    <2>3. \A v \in Workers \ {w} : req[v] # Idle =>
             /\ req[v].o \in Orders
             /\ req[v].o = o => req[v].op \notin {"momo", "paySucceeded", "payFailed"}
      BY <2>1 DEF IndInv, CallInv, TypeOK, Call, Busy
    <2>4. CallInv'
      BY <1>4, <2>1, <2>3
      DEF WebhookFailedWrite, Returns, IndInv, CallInv, TypeOK, Booked, Busy,
         history
    <2>5. PenaltyInv'
      BY <1>4, <2>1
      DEF WebhookFailedWrite, IndInv, PenaltyInv, MoneyInv, Funded, TypeOK,
         history
    <2> QED
      BY <1>4, <2>2, <2>4, <2>5
      DEF WebhookFailedWrite, IndInv, DecisionInv, AlertInv, Booked, history
  <1>5. CASE AcceptOrderWrite(w)
    <2>1. o \in Orders /\ Booked(o)
      BY <1>5, RunningBooked DEF AcceptOrderWrite
    <2>2. CallInv'
      BY <1>5, <1>0, ReturnCall DEF AcceptOrderWrite, Booked
    <2>3. CASE status[o] \in Decidable
      <3>1. /\ status' = [status EXCEPT ![o] = "ACCEPTED"]
            /\ Emits(o, "accepted")
            /\ attempts' = [attempts EXCEPT ![o] = @ \cup {0}]
            /\ UNCHANGED <<pay, deadline, collect, jobs, ledger>>
        BY <1>5, <2>3 DEF AcceptOrderWrite
      <3>2. MoneyInv'
        BY <2>1, <3>1 DEF IndInv, MoneyInv, Booked, TypeOK
      <3>3. emitted[o]["accepted"] = 0 /\ emitted[o]["refused"] = 0
        BY <2>1, <2>3 DEF IndInv, DecisionInv
      <3>4. \A x \in Orders :
              /\ emitted'[x]["accepted"] = IF x = o THEN 1 ELSE emitted[x]["accepted"]
              /\ emitted'[x]["refused"] = emitted[x]["refused"]
              /\ emitted'[x]["created"] = emitted[x]["created"]
        BY <2>1, <3>1, <3>3, EmitsEffect DEF EventKind, Bump, Many
      <3>5. DecisionInv'
        BY <2>1, <3>1, <3>3, <3>4
        DEF IndInv, DecisionInv, Booked, Decidable, TypeOK
      <3>6. AlertInv' /\ PenaltyInv'
        BY <3>1, <3>4 DEF IndInv, AlertInv, PenaltyInv, Booked
      <3> QED
        BY <2>2, <3>2, <3>5, <3>6 DEF IndInv
    <2>4. CASE status[o] \notin Decidable
      BY <1>5, <2>2, <2>4, QuietStep DEF AcceptOrderWrite, IndInv, row, history
    <2> QED
      BY <2>3, <2>4
  <1>6. CASE RefuseOrderWrite(w)
    <2>1. o \in Orders /\ Booked(o)
      BY <1>6, RunningBooked DEF RefuseOrderWrite, RefuseWrite
    <2>2. CallInv'
      BY <1>6, <1>0, ReturnCall DEF RefuseOrderWrite, RefuseWrite, Booked
    <2>3. CASE status[o] \in Decidable
      <3>1. /\ status' = [status EXCEPT ![o] = "REFUSED"]
            /\ Emits(o, "refused")
            /\ UNCHANGED <<pay, deadline, collect, queues, ledger>>
        BY <1>6, <2>3 DEF RefuseOrderWrite, RefuseWrite
      <3>2. MoneyInv' /\ PenaltyInv'
        BY <2>1, <3>1, StatusWrite DEF Status, Decidable
      <3>3. emitted[o]["accepted"] = 0 /\ emitted[o]["refused"] = 0
        BY <2>1, <2>3 DEF IndInv, DecisionInv
      <3>4. \A x \in Orders :
              /\ emitted'[x]["refused"] = IF x = o THEN 1 ELSE emitted[x]["refused"]
              /\ emitted'[x]["accepted"] = emitted[x]["accepted"]
              /\ emitted'[x]["created"] = emitted[x]["created"]
        BY <2>1, <3>1, <3>3, EmitsEffect DEF EventKind, Bump, Many
      <3>5. DecisionInv'
        BY <2>1, <3>1, <3>3, <3>4
        DEF IndInv, DecisionInv, Booked, Decidable, TypeOK
      <3>6. AlertInv'
        BY <3>1, <3>4 DEF IndInv, AlertInv, Booked
      <3> QED
        BY <2>2, <3>2, <3>5, <3>6 DEF IndInv
    <2>4. CASE status[o] \notin Decidable
      BY <1>6, <2>2, <2>4, QuietStep
      DEF RefuseOrderWrite, RefuseWrite, IndInv, row, queues, history
    <2> QED
      BY <2>3, <2>4
  <1>7. CASE ExpireVendorDecisionWrite(w)
    <2>1. o \in Orders /\ Booked(o)
      BY <1>7, RunningBooked DEF ExpireVendorDecisionWrite, RefuseWrite
    <2>2. CallInv'
      BY <1>7, <1>0, ReturnCall
      DEF ExpireVendorDecisionWrite, RefuseWrite, Booked
    <2>3. CASE status[o] \in Decidable
      <3>1. /\ status' = [status EXCEPT ![o] = "REFUSED"]
            /\ Emits(o, "refused")
            /\ UNCHANGED <<pay, deadline, collect, queues, ledger>>
        BY <1>7, <2>3 DEF ExpireVendorDecisionWrite, RefuseWrite
      <3>2. MoneyInv' /\ PenaltyInv'
        BY <2>1, <3>1, StatusWrite DEF Status, Decidable
      <3>3. emitted[o]["accepted"] = 0 /\ emitted[o]["refused"] = 0
        BY <2>1, <2>3 DEF IndInv, DecisionInv
      <3>4. \A x \in Orders :
              /\ emitted'[x]["refused"] = IF x = o THEN 1 ELSE emitted[x]["refused"]
              /\ emitted'[x]["accepted"] = emitted[x]["accepted"]
              /\ emitted'[x]["created"] = emitted[x]["created"]
        BY <2>1, <3>1, <3>3, EmitsEffect DEF EventKind, Bump, Many
      <3>5. DecisionInv'
        BY <2>1, <3>1, <3>3, <3>4
        DEF IndInv, DecisionInv, Booked, Decidable, TypeOK
      <3>6. AlertInv'
        BY <3>1, <3>4 DEF IndInv, AlertInv, Booked
      <3> QED
        BY <2>2, <3>2, <3>5, <3>6 DEF IndInv
    <2>4. CASE status[o] \notin Decidable
      BY <1>7, <2>2, <2>4, QuietStep
      DEF ExpireVendorDecisionWrite, RefuseWrite, IndInv, row, queues, history
    <2> QED
      BY <2>3, <2>4
  <1>8. CASE CancelOrderWrite(w)
    <2>1. o \in Orders
      BY <1>8, RunningType DEF CancelOrderWrite
    <2>2. CallInv'
      BY <1>8, <1>0, ReturnCall DEF CancelOrderWrite, Booked
    <2>3. CASE status[o] \in Decidable
      <3>1. /\ status' = [status EXCEPT ![o] = "CANCELLED"]
            /\ Emits(o, "cancelled")
            /\ UNCHANGED <<pay, deadline, collect, queues, ledger>>
        BY <1>8, <2>3 DEF CancelOrderWrite
      <3>2. MoneyInv'
        BY <2>1, <3>1 DEF IndInv, MoneyInv, Booked, TypeOK, queues
      <3>3. \A x \in Orders, j \in {"accepted", "refused", "created"} :
              emitted'[x][j] = emitted[x][j]
        BY <2>1, <3>1, EmitsEffect DEF EventKind
      <3>4. DecisionInv'
        BY <2>1, <3>1, <3>3 DEF IndInv, DecisionInv, Booked, Decidable, TypeOK
      <3>5. AlertInv' /\ PenaltyInv'
        BY <3>1, <3>3 DEF IndInv, AlertInv, PenaltyInv, Booked
      <3> QED
        BY <2>2, <3>2, <3>4, <3>5 DEF IndInv
    <2>4. CASE status[o] \notin Decidable
      BY <1>8, <2>2, <2>4, QuietStep
      DEF CancelOrderWrite, IndInv, row, queues, history
    <2> QED
      BY <2>3, <2>4
  <1>9. CASE PromotePreOrderWrite(w)
    <2>1. o \in Orders /\ Booked(o)
      BY <1>9, RunningBooked DEF PromotePreOrderWrite, PromoteWrite
    <2>2. CallInv'
      BY <1>9, <1>0, ReturnCall DEF PromotePreOrderWrite, PromoteWrite, Booked
    <2>3. CASE deadline[o]
      BY <1>9, <2>2, <2>3, QuietStep
      DEF PromotePreOrderWrite, PromoteWrite, IndInv, row, history
    <2>4. CASE ~deadline[o]
      <3>1. /\ deadline' = [deadline EXCEPT ![o] = TRUE]
            /\ Emits(o, "created")
            /\ Enqueues(o, "aexp") \/ UNCHANGED jobs
            /\ UNCHANGED <<status, pay, collect, attempts, ledger>>
        BY <1>9, <2>4 DEF PromotePreOrderWrite, PromoteWrite
      <3>2. o \in PreOrders /\ emitted[o]["created"] \in Count
        BY <1>9, <2>1
        DEF PromotePreOrderWrite, PromoteWrite, Running, IndInv, CallInv,
           TypeOK, EventKind
      <3>3. emitted[o]["created"] = 0
        BY <2>1, <2>4, <3>2 DEF IndInv, AlertInv, Count
      <3>4. \A x \in Orders :
              /\ emitted'[x]["created"] = IF x = o THEN 1 ELSE emitted[x]["created"]
              /\ emitted'[x]["accepted"] = emitted[x]["accepted"]
              /\ emitted'[x]["refused"] = emitted[x]["refused"]
        BY <2>1, <3>1, <3>3, EmitsEffect DEF EventKind, Bump, Many
      <3>5. \A x \in Orders : /\ "aexp" \in jobs'[x] => x = o \/ "aexp" \in jobs[x]
                              /\ deadline'[x] => x = o \/ deadline[x]
                              /\ x = o \/ deadline[x] => deadline'[x]
        BY <2>1, <3>1 DEF Enqueues, TypeOK
      <3>6. MoneyInv'
        BY <2>1, <3>1, <3>5 DEF IndInv, MoneyInv, Booked
      <3>7. DecisionInv' /\ PenaltyInv'
        BY <3>1, <3>4 DEF IndInv, DecisionInv, PenaltyInv, Booked
      <3>8. AlertInv'
        BY <3>1, <3>2, <3>4, <3>5 DEF IndInv, AlertInv, Booked
      <3> QED
        BY <2>2, <3>6, <3>7, <3>8 DEF IndInv
    <2> QED
      BY <2>3, <2>4
  <1>10. CASE PromotionSweepWrite(w)
    <2>1. o \in Orders /\ Booked(o)
      BY <1>10, RunningBooked DEF PromotionSweepWrite, PromoteWrite
    <2>2. CallInv'
      BY <1>10, <1>0, ReturnCall DEF PromotionSweepWrite, PromoteWrite, Booked
    <2>3. CASE deadline[o]
      BY <1>10, <2>2, <2>3, QuietStep
      DEF PromotionSweepWrite, PromoteWrite, IndInv, row, history
    <2>4. CASE ~deadline[o]
      <3>1. /\ deadline' = [deadline EXCEPT ![o] = TRUE]
            /\ Emits(o, "created")
            /\ Enqueues(o, "aexp") \/ UNCHANGED jobs
            /\ UNCHANGED <<status, pay, collect, attempts, ledger>>
        BY <1>10, <2>4 DEF PromotionSweepWrite, PromoteWrite
      <3>2. o \in PreOrders /\ emitted[o]["created"] \in Count
        BY <1>10, <2>1
        DEF PromotionSweepWrite, PromoteWrite, Running, IndInv, CallInv,
           TypeOK, EventKind
      <3>3. emitted[o]["created"] = 0
        BY <2>1, <2>4, <3>2 DEF IndInv, AlertInv, Count
      <3>4. \A x \in Orders :
              /\ emitted'[x]["created"] = IF x = o THEN 1 ELSE emitted[x]["created"]
              /\ emitted'[x]["accepted"] = emitted[x]["accepted"]
              /\ emitted'[x]["refused"] = emitted[x]["refused"]
        BY <2>1, <3>1, <3>3, EmitsEffect DEF EventKind, Bump, Many
      <3>5. \A x \in Orders : /\ "aexp" \in jobs'[x] => x = o \/ "aexp" \in jobs[x]
                              /\ deadline'[x] => x = o \/ deadline[x]
                              /\ x = o \/ deadline[x] => deadline'[x]
        BY <2>1, <3>1 DEF Enqueues, TypeOK
      <3>6. MoneyInv'
        BY <2>1, <3>1, <3>5 DEF IndInv, MoneyInv, Booked
      <3>7. DecisionInv' /\ PenaltyInv'
        BY <3>1, <3>4 DEF IndInv, DecisionInv, PenaltyInv, Booked
      <3>8. AlertInv'
        BY <3>1, <3>2, <3>4, <3>5 DEF IndInv, AlertInv, Booked
      <3> QED
        BY <2>2, <3>6, <3>7, <3>8 DEF IndInv
    <2> QED
      BY <2>3, <2>4
  <1>11. CASE SetItemPreparedWrite(w)
    <2>1. o \in Orders /\ Booked(o)
      BY <1>11, RunningBooked DEF SetItemPreparedWrite
    <2>2. CallInv'
      BY <1>11, <1>0, ReturnCall DEF SetItemPreparedWrite, Booked, history
    <2>3. CASE UNCHANGED status
      BY <1>11, <2>2, <2>3
      DEF SetItemPreparedWrite, IndInv, MoneyInv, DecisionInv, AlertInv,
         PenaltyInv,
         Booked, queues, history
    <2>4. CASE \E s \in InKitchen : status' = [status EXCEPT ![o] = s]
      BY <1>11, <2>1, <2>2, <2>4, StatusWrite
      DEF SetItemPreparedWrite, IndInv, Status, Decidable, InKitchen, history
    <2>5. UNCHANGED status \/ \E s \in InKitchen : status' = [status EXCEPT ![o] = s]
      BY <1>11 DEF SetItemPreparedWrite, InKitchen
    <2> QED
      BY <2>3, <2>4, <2>5
  <1>12. CASE MarkOrderReadyWrite(w)
    <2>1. o \in Orders /\ Booked(o)
      BY <1>12, RunningBooked DEF MarkOrderReadyWrite
    <2>2. CallInv'
      BY <1>12, <1>0, ReturnCall DEF MarkOrderReadyWrite, Booked, history
    <2>3. CASE UNCHANGED status
      BY <1>12, <2>2, <2>3
      DEF MarkOrderReadyWrite, IndInv, MoneyInv, DecisionInv, AlertInv,
         PenaltyInv,
         Booked, queues, history
    <2>4. CASE status' = [status EXCEPT ![o] = "READY_PICKUP"]
      BY <1>12, <2>1, <2>2, <2>4, StatusWrite
      DEF MarkOrderReadyWrite, IndInv, Status, Decidable, history
    <2> QED
      BY <1>12, <2>3, <2>4 DEF MarkOrderReadyWrite
  <1>13. CASE MarkPickedUpWrite(w)
    <2>1. o \in Orders /\ Booked(o)
      BY <1>13, RunningBooked DEF MarkPickedUpWrite
    <2>2. CallInv'
      BY <1>13, <1>0, ReturnCall DEF MarkPickedUpWrite, Booked, history
    <2> QED
      BY <1>13, <2>1, <2>2, StatusWrite
      DEF MarkPickedUpWrite, IndInv, Status, Decidable, history
  <1>14. CASE VendorCancelPreOrderWrite(w)
    <2>1. o \in Orders /\ Booked(o) /\ Returns(w) /\ UNCHANGED <<collect, queues, deadline>>
      BY <1>14, RunningBooked DEF VendorCancelPreOrderWrite
    <2>2. CASE status[o] \in InKitchen /\ ledger[o]["penalty"] = 0
      <3>1. /\ status' = [status EXCEPT ![o] = "CANCELLED"]
            /\ pay' = [pay EXCEPT ![o] = "REFUND_PENDING"]
            /\ Records(o, "penalty")
            /\ Emits(o, "cancelled")
        BY <1>14, <2>2 DEF VendorCancelPreOrderWrite
      <3>2. \A x \in Orders :
              /\ ledger'[x]["penalty"] = IF x = o THEN 1 ELSE ledger[x]["penalty"]
              /\ ledger'[x]["payment"] = ledger[x]["payment"]
        BY <2>1, <2>2, <3>1, RecordsEffect DEF LedgerKind, Bump, Many
      <3>3. \A x \in Orders, j \in {"accepted", "refused", "created"} :
              emitted'[x][j] = emitted[x][j]
        BY <2>1, <3>1, EmitsEffect DEF EventKind
      <3>4. MoneyInv'
        BY <2>1, <3>1, <3>2 DEF IndInv, MoneyInv, Booked, Funded, TypeOK, queues
      <3>5. CallInv'
        BY <1>0, <2>1, <3>2, ReturnCall DEF Booked
      <3>6. DecisionInv'
        BY <2>1, <3>1, <3>2, <3>3
        DEF IndInv, DecisionInv, Booked, Decidable, TypeOK
      <3>7. AlertInv'
        BY <2>1, <3>2, <3>3 DEF IndInv, AlertInv, Booked
      <3>8. PenaltyInv'
        BY <2>1, <3>1, <3>2 DEF IndInv, PenaltyInv, TypeOK
      <3> QED
        BY <3>4, <3>5, <3>6, <3>7, <3>8 DEF IndInv
    <2>3. CASE ~(status[o] \in InKitchen /\ ledger[o]["penalty"] = 0)
      <3>1. UNCHANGED <<row, history>>
        BY <1>14, <2>3 DEF VendorCancelPreOrderWrite, row
      <3>2. CallInv'
        BY <1>0, <2>1, <3>1, ReturnCall DEF Booked, history
      <3> QED
        BY <2>1, <3>1, <3>2, QuietStep DEF IndInv, queues
    <2> QED
      BY <2>2, <2>3
  <1>15. CASE DispatchQuery(w)
    <2>1. Running(w, "query") /\ req[w] \in Call /\ UNCHANGED <<row, collect, queues, history>>
      BY <1>15, RunningType DEF DispatchQuery
    <2>2. PICK r \in Riders : req' = [req EXCEPT ![w].op = "claim", ![w].r = r]
      BY <1>15 DEF DispatchQuery
    <2> DEFINE c == [req[w] EXCEPT !.op = "claim", !.r = r]
    <2>3. c \in Call /\ c.o = req[w].o /\ c.op = "claim" /\ req' = [req EXCEPT ![w] = c]
      BY <2>1, <2>2 DEF Call, HandlerOp, TypeOK
    <2>4. CallInv'
      BY <1>0, <2>1, <2>3, ContinuesCall DEF Running, ChainOp, history
    <2> QED
      BY <2>1, <2>4, QuietStep DEF IndInv, queues
  <1>16. CASE DispatchClaim(w)
    <2>1. CallInv'
      BY <1>16, <1>0, ReturnCall DEF DispatchClaim, Booked, history
    <2> QED
      BY <1>16, <2>1
      DEF DispatchClaim, IndInv, MoneyInv, DecisionInv, AlertInv, PenaltyInv,
         Booked,
         queues, history
  <1>17. CASE DispatchMiss(w)
    <2>1. /\ req[w] \in Call /\ req[w] # Idle /\ req[w].op \in ChainOp
          /\ o \in Orders /\ Booked(o) /\ UNCHANGED <<row, collect, jobs, history>>
      BY <1>17, RunningType, RunningBooked DEF DispatchMiss, Running, ChainOp
    <2>2. CASE Returns(w) /\ attempts' = [attempts EXCEPT ![o] = @ \cup {req[w].n + 1}]
      <3>1. CallInv'
        BY <1>0, <2>1, <2>2, ReturnCall DEF Booked, history
      <3>2. MoneyInv'
        BY <2>1, <2>2 DEF IndInv, MoneyInv, Booked, TypeOK, row, history
      <3> QED
        BY <2>1, <3>1, <3>2
        DEF IndInv, DecisionInv, AlertInv, PenaltyInv, Booked, row, history
    <2>3. CASE /\ req' = [req EXCEPT ![w].op = "giveUp", ![w].r = NoRider]
               /\ UNCHANGED attempts
      <3> DEFINE c == [req[w] EXCEPT !.op = "giveUp", !.r = NoRider]
      <3>1. c \in Call /\ c.o = o /\ c.op = "giveUp" /\ req' = [req EXCEPT ![w] = c]
        BY <2>1, <2>3 DEF Call, HandlerOp, TypeOK
      <3>2. CallInv'
        BY <1>0, <2>1, <3>1, ContinuesCall DEF ChainOp, history
      <3> QED
        BY <2>1, <2>3, <3>2, QuietStep DEF IndInv
    <2> QED
      BY <1>17, <2>2, <2>3 DEF DispatchMiss
  <1>18. CASE ExpireForNoRiderRead(w)
    <2>1. /\ req[w] \in Call /\ req[w] # Idle /\ req[w].op \in ChainOp
          /\ o \in Orders /\ UNCHANGED <<row, collect, queues, history>>
      BY <1>18, RunningType DEF ExpireForNoRiderRead, Running, ChainOp
    <2>2. CASE status[o] \in Pickupable
      <3> DEFINE c == [op |-> "expireNoRider", o |-> o, st |-> status[o],
                       pay |-> pay[o], n |-> req[w].n, r |-> NoRider]
      <3>1. c \in Call /\ c.o = o /\ c.op = "expireNoRider" /\ req' = [req EXCEPT ![w] = c]
        BY <1>18, <2>1, <2>2 DEF ExpireForNoRiderRead, Call, HandlerOp, TypeOK
      <3>2. CallInv'
        BY <1>0, <2>1, <3>1, ContinuesCall DEF ChainOp, history
      <3> QED
        BY <2>1, <3>2, QuietStep DEF IndInv, queues
    <2>3. CASE status[o] \notin Pickupable
      <3>1. CallInv'
        BY <1>18, <1>0, <2>1, <2>3, ReturnCall
        DEF ExpireForNoRiderRead, Returns, Booked, history
      <3> QED
        BY <2>1, <3>1, QuietStep DEF IndInv, queues
    <2> QED
      BY <2>2, <2>3
  <1>19. CASE ExpireForNoRiderWrite(w)
    <2>1. o \in Orders /\ Booked(o)
      BY <1>19, RunningBooked DEF ExpireForNoRiderWrite
    <2>2. CallInv'
      BY <1>19, <1>0, ReturnCall DEF ExpireForNoRiderWrite, Booked
    <2>3. /\ status' = [status EXCEPT ![o] = "EXPIRED"]
          /\ pay' = [pay EXCEPT ![o] = "REFUNDED"] \/ UNCHANGED pay
          /\ Emits(o, "cancelled")
          /\ UNCHANGED <<deadline, collect, queues, ledger>>
      BY <1>19 DEF ExpireForNoRiderWrite
    <2>4. MoneyInv'
      BY <2>1, <2>3 DEF IndInv, MoneyInv, Booked, Funded, TypeOK, queues
    <2>5. \A x \in Orders, j \in {"accepted", "refused", "created"} :
            emitted'[x][j] = emitted[x][j]
      BY <2>1, <2>3, EmitsEffect DEF EventKind
    <2>6. DecisionInv' /\ AlertInv'
      BY <2>1, <2>3, <2>5
      DEF IndInv, DecisionInv, AlertInv, Booked, Decidable, TypeOK
    <2>7. PenaltyInv'
      BY <2>1, <2>3 DEF IndInv, PenaltyInv, TypeOK
    <2> QED
      BY <2>2, <2>4, <2>6, <2>7 DEF IndInv
  <1>20. CASE MarkDeliveredWrite(w)
    <2>1. o \in Orders /\ Booked(o)
      BY <1>20, RunningBooked DEF MarkDeliveredWrite
    <2>2. CASE status[o] = "PICKED_UP" /\ o \notin Discounted
      <3>1. /\ status' = [status EXCEPT ![o] = "DELIVERED"]
            /\ Records(o, "delivery") /\ Returns(w)
            /\ UNCHANGED <<pay, deadline, collect, queues, emitted>>
        BY <1>20, <2>2 DEF MarkDeliveredWrite
      <3>2. \A x \in Orders, j \in {"payment", "penalty"} : ledger'[x][j] = ledger[x][j]
        BY <2>1, <3>1, RecordsEffect DEF LedgerKind
      <3>3. CallInv'
        BY <1>0, <3>1, <3>2, ReturnCall DEF Booked
      <3>4. MoneyInv'
        BY <2>1, <3>1, <3>2 DEF IndInv, MoneyInv, Booked, TypeOK, queues
      <3>5. DecisionInv' /\ AlertInv'
        BY <2>1, <3>1, <3>2
        DEF IndInv, DecisionInv, AlertInv, Booked, Decidable, TypeOK
      <3>6. PenaltyInv'
        BY <3>1, <3>2 DEF IndInv, PenaltyInv
      <3> QED
        BY <3>3, <3>4, <3>5, <3>6 DEF IndInv
    <2>3. CASE ~(status[o] = "PICKED_UP" /\ o \notin Discounted)
      <3>1. UNCHANGED <<row, collect, queues, history>> /\ Returns(w)
        BY <1>20, <2>3 DEF MarkDeliveredWrite, row, history
      <3>2. CallInv'
        BY <1>0, <3>1, ReturnCall DEF Booked, history
      <3> QED
        BY <3>1, <3>2, QuietStep DEF IndInv, queues
    <2> QED
      BY <2>2, <2>3
  <1>21. CASE ResolveRiderFraudWrite(w)
    <2>1. o \in Orders /\ Booked(o) /\ Returns(w)
          /\ UNCHANGED <<deadline, prepared, collect, queues, emitted, rider>>
      BY <1>21, RunningBooked DEF ResolveRiderFraudWrite
    <2>2. CASE status[o] = "PICKED_UP"
      <3>1. /\ status' = [status EXCEPT ![o] = "CANCELLED"]
            /\ UNCHANGED pay \/ pay' = [pay EXCEPT ![o] = "REFUND_PENDING"]
            /\ Records(o, "adjustment") \/ UNCHANGED ledger
        BY <1>21, <2>2 DEF ResolveRiderFraudWrite
      <3>2. \A x \in Orders, j \in {"payment", "penalty"} : ledger'[x][j] = ledger[x][j]
        BY <2>1, <3>1, RecordsEffect DEF LedgerKind
      <3>3. CallInv'
        BY <1>0, <2>1, <3>2, ReturnCall DEF Booked
      <3>4. MoneyInv'
        BY <2>1, <3>1, <3>2 DEF IndInv, MoneyInv, Booked, Funded, TypeOK, queues
      <3>5. DecisionInv' /\ AlertInv'
        BY <2>1, <3>1, <3>2
        DEF IndInv, DecisionInv, AlertInv, Booked, Decidable, TypeOK
      <3>6. PenaltyInv'
        BY <2>1, <3>1, <3>2 DEF IndInv, PenaltyInv, TypeOK
      <3> QED
        BY <3>3, <3>4, <3>5, <3>6 DEF IndInv
    <2>3. CASE status[o] # "PICKED_UP"
      <3>1. UNCHANGED <<row, collect, queues, history>>
        BY <1>21, <2>1, <2>3 DEF ResolveRiderFraudWrite, row, history
      <3>2. CallInv'
        BY <1>0, <2>1, <3>1, ReturnCall DEF Booked, history
      <3> QED
        BY <3>1, <3>2, QuietStep DEF IndInv, queues
    <2> QED
      BY <2>2, <2>3
  <1> QED
    BY <1>1, <1>2, <1>3, <1>4, <1>5, <1>6, <1>7, <1>8, <1>9, <1>10, <1>11,
       <1>12, <1>13, <1>14, <1>15, <1>16, <1>17, <1>18, <1>19, <1>20, <1>21
    DEF Continue

(* Every step preserves the invariant. *)
LEMMA StepPreservesInv ==
    ASSUME TypeOK, IndInv, ~EarlyAccept, [Next]_vars
    PROVE  IndInv'
  <1>1. ASSUME NEW w \in Workers, Continue(w)
        PROVE  IndInv'
    BY <1>1, ContinuePreservesInv
  <1>2. ASSUME NEW w \in Workers, NEW o \in Orders,
               ClientRead(w, o) \/ SystemRead(w, o)
        PROVE  IndInv'
    BY <1>2, ReadPreservesInv
  <1>3. ASSUME NEW r \in Riders, SuspendRider(r) \/ UnsuspendRider(r)
        PROVE  IndInv'
    BY <1>3 DEF SuspendRider, UnsuspendRider, IndInv, MoneyInv, CallInv,
       DecisionInv, AlertInv, PenaltyInv, Booked, Busy, queues, history
  <1>4. CASE Crash
    <2>1. \A x \in Orders :
            /\ attempts'[x] \subseteq attempts[x]
            /\ collect'[x] = IF collect[x] = "calling" THEN "idle" ELSE collect[x]
      BY <1>4 DEF Crash
    <2>2. MoneyInv'
      BY <1>4, <2>1 DEF Crash, IndInv, MoneyInv, Booked, row, history
    <2>3. CallInv'
      BY <1>4 DEF Crash, CallInv
    <2> QED
      BY <1>4, <2>2, <2>3 DEF Crash, IndInv, DecisionInv, AlertInv, PenaltyInv,
         Booked, row, history
  <1>5. CASE UNCHANGED vars
    BY <1>5 DEF vars, row, queues, history, IndInv, MoneyInv, CallInv,
       DecisionInv, AlertInv, PenaltyInv, Booked, Busy
  <1> QED
    BY <1>1, <1>2, <1>3, <1>4, <1>5 DEF Next

(* An order just created satisfies every part of the invariant. *)
LEMMA InitInv == ASSUME Init PROVE IndInv
  BY DEF Init, IndInv, MoneyInv, CallInv, DecisionInv, AlertInv, PenaltyInv,
     Booked, Funded, LedgerKind, EventKind, Decidable

(* IndInv is an invariant when the vendor acts on what he is shown. *)
THEOREM Inductive == ASSUME ~EarlyAccept PROVE Spec => []IndInv
  <1>1. Init => IndInv
    BY InitInv
  <1>2. TypeOK /\ IndInv /\ [Next]_vars => IndInv'
    BY StepPreservesInv
  <1> QED
    BY <1>1, <1>2, TypeCorrect, PTL DEF Spec

(* The payment is booked once, whatever duplicates Campay sends and        *)
(* whatever attempts the consumer makes, and PAID means booked.            *)
THEOREM PaymentIsBookedOnce == ASSUME ~EarlyAccept PROVE Spec => []PaymentBookedOnce
  <1>1. IndInv => PaymentBookedOnce
    BY DEF IndInv, MoneyInv, PaymentBookedOnce, Booked, Funded
  <1> QED
    BY <1>1, Inductive, PTL

(* Nobody cooks, rides or delivers for an order that was never booked. *)
THEOREM OnlyPaidOrdersWork == ASSUME ~EarlyAccept PROVE Spec => []WorkOnlyIfPaid
  <1>1. IndInv => WorkOnlyIfPaid
    BY DEF IndInv, MoneyInv, WorkOnlyIfPaid, Booked
  <1> QED
    BY <1>1, Inductive, PTL

(* Accept, refuse, the expiry job and the expiry cron: one of them wins. *)
THEOREM DecidedOnce == ASSUME ~EarlyAccept PROVE Spec => []OneVendorDecision
  <1>1. IndInv => OneVendorDecision
    BY DEF IndInv, DecisionInv, OneVendorDecision
  <1> QED
    BY <1>1, Inductive, PTL

(* The delayed job and the cron never alert the vendor twice. *)
THEOREM AlertedOnce == ASSUME ~EarlyAccept PROVE Spec => []VendorAlertedOnce
  <1>1. IndInv => VendorAlertedOnce
    BY DEF IndInv, AlertInv, VendorAlertedOnce
  <1> QED
    BY <1>1, Inductive, PTL

(* One penalty, with its refund; no refund of what was not paid. *)
THEOREM PenaltyWithRefund == ASSUME ~EarlyAccept PROVE Spec => []PenaltyAndRefundAgree
  <1>1. IndInv => PenaltyAndRefundAgree
    BY DEF IndInv, MoneyInv, PenaltyInv, PenaltyAndRefundAgree, Booked, Funded
  <1> QED
    BY <1>1, Inductive, PTL

-----------------------------------------------------------------------------
(* The dispatch chain.  A step that starts no attempt, sets no rider and   *)
(* expires no order, or only one whose jobs run twice, leaves it alone.    *)
LEMMA ChainElsewhere ==
    ASSUME ChainInv,
           \A x \in Orders \ Redelivered :
               /\ rider'[x] = rider[x] /\ attempts'[x] = attempts[x]
               /\ \A v \in Workers : InChain(v, x)' => InChain(v, x)
               /\ emitted[x]["accepted"] > 0 => emitted'[x]["accepted"] > 0
               /\ emitted'[x]["accepted"] = 0 => emitted[x]["accepted"] = 0
               /\ status'[x] = "EXPIRED" => status[x] = "EXPIRED"
    PROVE  ChainInv'
  <1>1. \A x \in Orders \ Redelivered : ChainOver(x) => ChainOver(x)'
    BY DEF ChainOver
  <1> QED
    BY <1>1 DEF ChainInv

LEMMA ChainUntouched ==
    ASSUME ChainInv, UNCHANGED <<rider, attempts>>,
           \A x \in Orders, v \in Workers : InChain(v, x)' => InChain(v, x),
           \A x \in Orders : /\ emitted[x]["accepted"] > 0 => emitted'[x]["accepted"] > 0
                             /\ emitted'[x]["accepted"] = 0 => emitted[x]["accepted"] = 0
                             /\ status'[x] = "EXPIRED" => status[x] = "EXPIRED"
    PROVE  ChainInv'
  BY ChainElsewhere

(* Entering a handler outside dispatch, or leaving any handler, adds no    *)
(* worker to the chain.                                                    *)
LEMMA ReadsChain ==
    ASSUME TypeOK, NEW w \in Workers, NEW o, NEW op, NEW n, Reads(w, op, o, n),
           op \notin ChainOp
    PROVE  \A x \in Orders, v \in Workers : InChain(v, x)' => InChain(v, x)
  BY DEF Reads, InChain, TypeOK

(* A handler that returns leaves a chain, or was in none. *)
LEMMA ReturnsChain ==
    ASSUME TypeOK, NEW w \in Workers, Returns(w)
    PROVE  \A x \in Orders, v \in Workers : InChain(v, x)' => InChain(v, x)
  BY DEF Returns, InChain, TypeOK

(* A handler that starts preserves ChainInv. *)
LEMMA ReadPreservesChain ==
    ASSUME TypeOK, IndInv, ChainInv, NEW w \in Workers,
           NEW o \in Orders, ClientRead(w, o) \/ SystemRead(w, o)
    PROVE  ChainInv'
  <1>1. ASSUME NEW n \in 0..(MaxRetries - 1), TryDispatchRead(w, o, n)
        PROVE  ChainInv'
    <2>0. CASE o \in Redelivered
      <3>1. /\ \A x \in Orders \ {o} : attempts'[x] = attempts[x]
            /\ UNCHANGED <<rider, status, emitted>>
        BY <1>1 DEF TryDispatchRead, row, history, TypeOK
      <3>2. \A v \in Workers, x \in Orders \ {o} : InChain(v, x)' => InChain(v, x)
        <4>1. CASE UNCHANGED req
          BY <4>1 DEF InChain
        <4>2. CASE Reads(w, "query", o, n)
          BY <4>2 DEF Reads, InChain, TypeOK
        <4> QED
          BY <1>1, <4>1, <4>2 DEF TryDispatchRead
      <3> QED
        BY <2>0, <3>1, <3>2, ChainElsewhere
    <2> SUFFICES ASSUME o \notin Redelivered PROVE ChainInv'
      BY <2>0
    <2>1. /\ n \in attempts[o]
          /\ attempts' = [attempts EXCEPT ![o] = @ \ {n}]
          /\ UNCHANGED <<rider, status, emitted>>
      BY <1>1 DEF TryDispatchRead, row, history
    <2>2. /\ attempts'[o] = {} /\ ~ChainOver(o)
          /\ \A v \in Workers : ~InChain(v, o)
          /\ \A x \in Orders \ {o} : attempts'[x] = attempts[x]
      BY <2>1 DEF ChainInv, ChainOver, TypeOK
    <2>3. CASE UNCHANGED req
      <3>1. \A x \in Orders, v \in Workers : InChain(v, x)' <=> InChain(v, x)
        BY <2>3 DEF InChain
      <3>2. \A x \in Orders \ {o} : ChainOver(x) => ChainOver(x)'
        BY <2>2, <3>1 DEF ChainOver
      <3> QED
        BY <2>1, <2>2, <3>1, <3>2 DEF ChainInv
    <2>4. CASE Reads(w, "query", o, n)
      <3>1. /\ \A v \in Workers \ {w}, x \in Orders : InChain(v, x)' <=> InChain(v, x)
            /\ \A x \in Orders \ {o} : ~InChain(w, x) /\ ~InChain(w, x)'
        BY <2>4 DEF Reads, InChain, TypeOK
      <3>2. \A x \in Orders \ {o} : ChainOver(x) => ChainOver(x)'
        BY <2>2, <3>1 DEF ChainOver
      <3> QED
        BY <2>1, <2>2, <3>1, <3>2 DEF ChainInv
    <2> QED
      BY <1>1, <2>3, <2>4 DEF TryDispatchRead
  <1>2. ASSUME ClientRead(w, o)
        PROVE  ChainInv'
    <2>1. \E op \in HandlerOp \ ChainOp : Reads(w, op, o, 0)
      BY <1>2 DEF ClientRead, HandlerOp, ChainOp, InitiateMomoRead,
         OnPaymentSucceededRead, WebhookFailedRead, AcceptOrderRead,
         RefuseOrderRead, CancelOrderRead, SetItemPreparedRead,
         MarkOrderReadyRead, VendorCancelPreOrderRead, MarkPickedUpRead,
         MarkDeliveredRead, ResolveRiderFraudRead
    <2>2. UNCHANGED <<row, queues, history>>
      BY <1>2 DEF ClientRead, InitiateMomoRead,
         OnPaymentSucceededRead, WebhookFailedRead, AcceptOrderRead,
         RefuseOrderRead, CancelOrderRead, SetItemPreparedRead,
         MarkOrderReadyRead, VendorCancelPreOrderRead, MarkPickedUpRead,
         MarkDeliveredRead, ResolveRiderFraudRead
    <2>3. \A x \in Orders, v \in Workers : InChain(v, x)' => InChain(v, x)
      BY <2>1, ReadsChain
    <2> QED
      BY <2>2, <2>3, ChainUntouched DEF row, queues, history
  <1>3. ASSUME \/ ExpireVendorDecisionRead(w, o) \/ SweepExpiredRead(w, o)
               \/ PromotePreOrderRead(w, o) \/ PromotionSweepRead(w, o)
        PROVE  ChainInv'
    <2>1. (\E op \in HandlerOp \ ChainOp : Reads(w, op, o, 0)) \/ UNCHANGED req
      BY <1>3 DEF HandlerOp, ChainOp, ExpireVendorDecisionRead,
         SweepExpiredRead, PromotePreOrderRead, PromotionSweepRead
    <2>2. UNCHANGED <<row, attempts, history>>
      BY <1>3 DEF queues, ExpireVendorDecisionRead,
         SweepExpiredRead, PromotePreOrderRead, PromotionSweepRead
    <2>3. \A x \in Orders, v \in Workers : InChain(v, x)' => InChain(v, x)
      BY <2>1, ReadsChain DEF InChain
    <2> QED
      BY <2>2, <2>3, ChainUntouched DEF row, history
  <1> QED
    BY <1>1, <1>2, <1>3 DEF SystemRead

(* A handler that goes on preserves ChainInv. *)
LEMMA ContinuePreservesChain ==
    ASSUME TypeOK, IndInv, ChainInv, NEW w \in Workers, Continue(w)
    PROVE  ChainInv'
  <1> PICK o : o = req[w].o
    OBVIOUS
  <1>1. CASE AcceptOrderWrite(w)
    <2>1. /\ o \in Orders /\ Returns(w) /\ UNCHANGED rider
          /\ \A x \in Orders, v \in Workers : InChain(v, x)' => InChain(v, x)
      BY <1>1, RunningType, ReturnsChain DEF AcceptOrderWrite
    <2>2. CASE status[o] \in Decidable
      <3>1. /\ status' = [status EXCEPT ![o] = "ACCEPTED"]
            /\ Emits(o, "accepted")
            /\ attempts' = [attempts EXCEPT ![o] = @ \cup {0}]
        BY <1>1, <2>2 DEF AcceptOrderWrite
      <3>0. CASE o \in Redelivered
        <4>1. \A x \in Orders \ {o} : /\ attempts'[x] = attempts[x] /\ status'[x] = status[x]
                                      /\ emitted'[x]["accepted"] = emitted[x]["accepted"]
          BY <2>1, <3>1, EmitsEffect DEF EventKind, TypeOK
        <4> QED
          BY <2>1, <3>0, <4>1, ChainElsewhere
      <3> SUFFICES ASSUME o \notin Redelivered PROVE ChainInv'
        BY <3>0
      <3>2. emitted[o]["accepted"] = 0 /\ ChainOver(o) /\ rider[o] = NoRider
        BY <2>1, <2>2 DEF IndInv, DecisionInv, ChainInv
      <3>3. /\ \A x \in Orders : emitted'[x]["accepted"] =
                                 IF x = o THEN 1 ELSE emitted[x]["accepted"]
            /\ \A x \in Orders \ {o} : attempts'[x] = attempts[x] /\ status'[x] = status[x]
            /\ attempts'[o] = {0} /\ status'[o] = "ACCEPTED"
        BY <2>1, <3>1, <3>2, EmitsEffect
        DEF EventKind, Bump, Many, ChainOver, TypeOK
      <3>4. \A v \in Workers : ~InChain(v, o)'
        BY <2>1, <3>2 DEF ChainOver
      <3>5. \A x \in Orders \ {o} : ChainOver(x) => ChainOver(x)'
        BY <2>1, <3>3 DEF ChainOver
      <3> QED
        BY <2>1, <3>2, <3>3, <3>4, <3>5 DEF ChainInv
    <2>3. CASE status[o] \notin Decidable
      BY <1>1, <2>1, <2>3, ChainUntouched DEF AcceptOrderWrite
    <2> QED
      BY <2>2, <2>3
  <1>2. CASE DispatchQuery(w)
    <2>1. Running(w, "query") /\ UNCHANGED <<row, queues, history>>
      BY <1>2 DEF DispatchQuery
    <2>2. PICK r \in Riders : req' = [req EXCEPT ![w].op = "claim", ![w].r = r]
      BY <1>2 DEF DispatchQuery
    <2>3. \A x \in Orders, v \in Workers : InChain(v, x)' => InChain(v, x)
      BY <2>1, <2>2, RunningType DEF InChain, Running, ChainOp, TypeOK, Call
    <2> QED
      BY <2>1, <2>3, ChainUntouched DEF row, queues, history
  <1>3. CASE DispatchClaim(w)
    <2>1. /\ o \in Orders /\ InChain(w, o) /\ Returns(w)
          /\ rider[o] = NoRider /\ rider' = [rider EXCEPT ![o] = req[w].r]
          /\ req[w].r \in Riders /\ UNCHANGED <<status, attempts, emitted>>
      BY <1>3, RunningType
      DEF DispatchClaim, InChain, Running, ChainOp, NeedsRider, TypeOK, queues,
         history
    <2>2. /\ \A x \in Orders, v \in Workers : InChain(v, x)' => InChain(v, x)
          /\ ~InChain(w, o)'
      BY <2>1, ReturnsChain DEF Returns, InChain, TypeOK
    <2>0. CASE o \in Redelivered
      <3>1. \A x \in Orders \ {o} : rider'[x] = rider[x]
        BY <2>1 DEF TypeOK
      <3> QED
        BY <2>0, <2>1, <2>2, <3>1, ChainElsewhere
    <2> SUFFICES ASSUME o \notin Redelivered PROVE ChainInv'
      BY <2>0
    <2>3. ChainOver(o)' /\ emitted[o]["accepted"] # 0 /\ status[o] # "EXPIRED"
      BY <2>1, <2>2 DEF ChainInv, ChainOver
    <2>4. \A x \in Orders : ChainOver(x) => ChainOver(x)'
      BY <2>1, <2>2 DEF ChainOver
    <2>5. emitted[o]["accepted"] > 0
      BY <2>1, <2>3 DEF TypeOK, EventKind, Count
    <2>6. \A x \in Orders \ {o} : rider'[x] = rider[x]
      BY <2>1 DEF TypeOK
    <2> QED
      BY <2>1, <2>2, <2>3, <2>4, <2>5, <2>6 DEF ChainInv
  <1>4. CASE DispatchMiss(w)
    <2>1. /\ o \in Orders /\ InChain(w, o) /\ req[w] \in Call
          /\ UNCHANGED <<row, history>>
      BY <1>4, RunningType DEF DispatchMiss, InChain, Running, ChainOp
    <2>2. CASE Returns(w) /\ attempts' = [attempts EXCEPT ![o] = @ \cup {req[w].n + 1}]
      <3>1. /\ \A x \in Orders, v \in Workers : InChain(v, x)' => InChain(v, x)
            /\ ~InChain(w, o)'
        BY <2>1, <2>2, ReturnsChain DEF Returns, InChain, TypeOK
      <3>0. CASE o \in Redelivered
        <4>1. \A x \in Orders \ {o} : attempts'[x] = attempts[x]
          BY <2>1, <2>2 DEF TypeOK
        <4> QED
          BY <2>1, <3>0, <3>1, <4>1, ChainElsewhere DEF row, history
      <3> SUFFICES ASSUME o \notin Redelivered PROVE ChainInv'
        BY <3>0
      <3>2. /\ attempts[o] = {} /\ emitted[o]["accepted"] # 0 /\ rider[o] = NoRider
            /\ status[o] # "EXPIRED" /\ \A v \in Workers : ~InChain(v, o)'
        BY <2>1, <3>1 DEF ChainInv, ChainOver
      <3>3. /\ \A x \in Orders \ {o} : attempts'[x] = attempts[x]
            /\ attempts'[o] = {req[w].n + 1}
        BY <2>1, <2>2, <3>2 DEF TypeOK
      <3>4. \A x \in Orders \ {o} : ChainOver(x) => ChainOver(x)'
        BY <3>1, <3>3 DEF ChainOver
      <3> QED
        BY <2>1, <3>1, <3>2, <3>3, <3>4 DEF ChainInv, row, history
    <2>3. CASE /\ req' = [req EXCEPT ![w].op = "giveUp", ![w].r = NoRider]
               /\ UNCHANGED attempts
      <3>1. \A x \in Orders, v \in Workers : InChain(v, x)' => InChain(v, x)
        BY <2>1, <2>3 DEF InChain, ChainOp, TypeOK, Call
      <3> QED
        BY <2>1, <2>3, <3>1, ChainUntouched DEF row, history
    <2> QED
      BY <1>4, <2>2, <2>3 DEF DispatchMiss
  <1>5. CASE ExpireForNoRiderRead(w)
    <2>1. /\ o \in Orders /\ InChain(w, o) /\ UNCHANGED <<row, queues, history>>
      BY <1>5, RunningType DEF ExpireForNoRiderRead, InChain, Running, ChainOp
    <2>2. \A x \in Orders, v \in Workers : InChain(v, x)' => InChain(v, x)
      BY <1>5, <2>1 DEF ExpireForNoRiderRead, InChain, ChainOp, TypeOK
    <2> QED
      BY <2>1, <2>2, ChainUntouched DEF row, queues, history
  <1>6. CASE ExpireForNoRiderWrite(w)
    <2>1. /\ o \in Orders /\ InChain(w, o) /\ Returns(w) /\ Emits(o, "cancelled")
          /\ status' = [status EXCEPT ![o] = "EXPIRED"]
          /\ UNCHANGED <<rider, attempts>>
      BY <1>6, RunningType
      DEF ExpireForNoRiderWrite, InChain, Running, ChainOp, queues
    <2>2. /\ \A x \in Orders, v \in Workers : InChain(v, x)' => InChain(v, x)
          /\ ~InChain(w, o)'
      BY <2>1, ReturnsChain DEF Returns, InChain, TypeOK
    <2>6. \A x \in Orders : emitted'[x]["accepted"] = emitted[x]["accepted"]
      BY <2>1, EmitsEffect DEF EventKind
    <2>7. \A x \in Orders \ {o} : status'[x] = status[x]
      BY <2>1 DEF TypeOK
    <2>0. CASE o \in Redelivered
      BY <2>0, <2>1, <2>2, <2>6, <2>7, ChainElsewhere
    <2> SUFFICES ASSUME o \notin Redelivered PROVE ChainInv'
      BY <2>0
    <2>3. ChainOver(o)' /\ emitted[o]["accepted"] # 0 /\ rider[o] = NoRider
      BY <2>1, <2>2 DEF ChainInv, ChainOver
    <2>4. \A x \in Orders : ChainOver(x) => ChainOver(x)'
      BY <2>1, <2>2 DEF ChainOver
    <2>5. emitted[o]["accepted"] > 0
      BY <2>1, <2>3 DEF TypeOK, EventKind, Count
    <2> QED
      BY <2>1, <2>2, <2>3, <2>4, <2>5, <2>6, <2>7 DEF ChainInv
  <1> DEFINE Quiet ==
        /\ Returns(w) /\ UNCHANGED <<rider, attempts>>
        /\ \A x \in Orders : /\ emitted'[x]["accepted"] = emitted[x]["accepted"]
                             /\ status'[x] = "EXPIRED" => status[x] = "EXPIRED"
  <1>7. ASSUME Quiet PROVE ChainInv'
    <2>1. \A x \in Orders, v \in Workers : InChain(v, x)' => InChain(v, x)
      BY <1>7, ReturnsChain
    <2> QED
      BY <1>7, <2>1, ChainUntouched
  <1>8. ASSUME InitiateMomoWrite(w) PROVE Quiet
    <2>1. o \in Orders
      BY <1>8, RunningType DEF InitiateMomoWrite
    <2> QED
      BY <1>8, <2>1 DEF InitiateMomoWrite, TypeOK, row, queues, history
  <1>9. ASSUME InitiateMomoFail(w) PROVE Quiet
    <2>1. o \in Orders
      BY <1>9, RunningType DEF InitiateMomoFail
    <2> QED
      BY <1>9, <2>1 DEF InitiateMomoFail, TypeOK, row, queues, history
  <1>10. ASSUME OnPaymentSucceededWrite(w) PROVE Quiet
    <2>1. o \in Orders
      BY <1>10, RunningType DEF OnPaymentSucceededWrite
    <2>2. \A x \in Orders : emitted'[x]["accepted"] = emitted[x]["accepted"]
      BY <1>10, <2>1, EmitsEffect
      DEF OnPaymentSucceededWrite, EventKind, history
    <2> QED
      BY <1>10, <2>1, <2>2 DEF OnPaymentSucceededWrite, TypeOK, row, queues
  <1>11. ASSUME WebhookFailedWrite(w) PROVE Quiet
    <2>1. o \in Orders
      BY <1>11, RunningType DEF WebhookFailedWrite
    <2> QED
      BY <1>11, <2>1 DEF WebhookFailedWrite, TypeOK, row, queues, history
  <1>12. ASSUME RefuseOrderWrite(w) PROVE Quiet
    <2>1. o \in Orders
      BY <1>12, RunningType DEF RefuseOrderWrite, RefuseWrite
    <2>2. \A x \in Orders : emitted'[x]["accepted"] = emitted[x]["accepted"]
      BY <1>12, <2>1, EmitsEffect
      DEF RefuseOrderWrite, RefuseWrite, EventKind, history
    <2> QED
      BY <1>12, <2>1, <2>2
      DEF RefuseOrderWrite, RefuseWrite, TypeOK, row, queues
  <1>13. ASSUME CancelOrderWrite(w) PROVE Quiet
    <2>1. o \in Orders
      BY <1>13, RunningType DEF CancelOrderWrite
    <2>2. \A x \in Orders : emitted'[x]["accepted"] = emitted[x]["accepted"]
      BY <1>13, <2>1, EmitsEffect DEF CancelOrderWrite, EventKind, history
    <2> QED
      BY <1>13, <2>1, <2>2 DEF CancelOrderWrite, TypeOK, row, queues
  <1>14. ASSUME ExpireVendorDecisionWrite(w) PROVE Quiet
    <2>1. o \in Orders
      BY <1>14, RunningType DEF ExpireVendorDecisionWrite, RefuseWrite
    <2>2. \A x \in Orders : emitted'[x]["accepted"] = emitted[x]["accepted"]
      BY <1>14, <2>1, EmitsEffect
      DEF ExpireVendorDecisionWrite, RefuseWrite, EventKind, history
    <2> QED
      BY <1>14, <2>1, <2>2
      DEF ExpireVendorDecisionWrite, RefuseWrite, TypeOK, row, queues
  <1>15. ASSUME PromotePreOrderWrite(w) PROVE Quiet
    <2>1. o \in Orders
      BY <1>15, RunningType DEF PromotePreOrderWrite, PromoteWrite
    <2>2. \A x \in Orders : emitted'[x]["accepted"] = emitted[x]["accepted"]
      BY <1>15, <2>1, EmitsEffect
      DEF PromotePreOrderWrite, PromoteWrite, EventKind, history
    <2> QED
      BY <1>15, <2>1, <2>2
      DEF PromotePreOrderWrite, PromoteWrite, TypeOK, row, queues
  <1>16. ASSUME PromotionSweepWrite(w) PROVE Quiet
    <2>1. o \in Orders
      BY <1>16, RunningType DEF PromotionSweepWrite, PromoteWrite
    <2>2. \A x \in Orders : emitted'[x]["accepted"] = emitted[x]["accepted"]
      BY <1>16, <2>1, EmitsEffect
      DEF PromotionSweepWrite, PromoteWrite, EventKind, history
    <2> QED
      BY <1>16, <2>1, <2>2
      DEF PromotionSweepWrite, PromoteWrite, TypeOK, row, queues
  <1>17. ASSUME SetItemPreparedWrite(w) PROVE Quiet
    <2>1. o \in Orders
      BY <1>17, RunningType DEF SetItemPreparedWrite
    <2> QED
      BY <1>17, <2>1 DEF SetItemPreparedWrite, TypeOK, row, queues, history
  <1>18. ASSUME MarkOrderReadyWrite(w) PROVE Quiet
    <2>1. o \in Orders
      BY <1>18, RunningType DEF MarkOrderReadyWrite
    <2> QED
      BY <1>18, <2>1 DEF MarkOrderReadyWrite, TypeOK, row, queues, history
  <1>19. ASSUME VendorCancelPreOrderWrite(w) PROVE Quiet
    <2>1. o \in Orders
      BY <1>19, RunningType DEF VendorCancelPreOrderWrite
    <2>2. \A x \in Orders : emitted'[x]["accepted"] = emitted[x]["accepted"]
      BY <1>19, <2>1, EmitsEffect
      DEF VendorCancelPreOrderWrite, EventKind, history
    <2> QED
      BY <1>19, <2>1, <2>2 DEF VendorCancelPreOrderWrite, TypeOK, row, queues
  <1>20. ASSUME MarkPickedUpWrite(w) PROVE Quiet
    <2>1. o \in Orders
      BY <1>20, RunningType DEF MarkPickedUpWrite
    <2> QED
      BY <1>20, <2>1 DEF MarkPickedUpWrite, TypeOK, row, queues, history
  <1>21. ASSUME MarkDeliveredWrite(w) PROVE Quiet
    <2>1. o \in Orders
      BY <1>21, RunningType DEF MarkDeliveredWrite
    <2> QED
      BY <1>21, <2>1 DEF MarkDeliveredWrite, TypeOK, row, queues, history
  <1>22. ASSUME ResolveRiderFraudWrite(w) PROVE Quiet
    <2>1. o \in Orders
      BY <1>22, RunningType DEF ResolveRiderFraudWrite
    <2> QED
      BY <1>22, <2>1 DEF ResolveRiderFraudWrite, TypeOK, row, queues, history
  <1> HIDE DEF Quiet
  <1> QED
    BY <1>1, <1>2, <1>3, <1>4, <1>5, <1>6, <1>7, <1>8, <1>9, <1>10, <1>11,
       <1>12, <1>13, <1>14, <1>15, <1>16, <1>17, <1>18, <1>19, <1>20, <1>21,
       <1>22
    DEF Continue

(* Every step keeps the dispatch attempts of an order a single chain. *)
LEMMA StepPreservesChain ==
    ASSUME TypeOK, IndInv, ChainInv, [Next]_vars
    PROVE  ChainInv'
  <1>1. ASSUME NEW w \in Workers, Continue(w)
        PROVE  ChainInv'
    BY <1>1, ContinuePreservesChain
  <1>2. ASSUME NEW w \in Workers, NEW o \in Orders,
               ClientRead(w, o) \/ SystemRead(w, o)
        PROVE  ChainInv'
    BY <1>2, ReadPreservesChain
  <1>3. ASSUME NEW r \in Riders, SuspendRider(r) \/ UnsuspendRider(r)
        PROVE  ChainInv'
    BY <1>3, ChainUntouched
    DEF SuspendRider, UnsuspendRider, InChain, queues, history
  <1>4. CASE Crash
    <2>1. /\ \A x \in Orders, v \in Workers : ~InChain(v, x)'
          /\ \A x \in Orders : attempts'[x] = attempts[x] \ {0}
      BY <1>4 DEF Crash, InChain
    <2>2. \A x \in Orders : ChainOver(x) => ChainOver(x)'
      BY <2>1 DEF ChainOver
    <2> QED
      BY <1>4, <2>1, <2>2 DEF Crash, ChainInv, row, history
  <1>5. CASE UNCHANGED vars
    BY <1>5, ChainUntouched DEF vars, row, queues, history, InChain
  <1> QED
    BY <1>1, <1>2, <1>3, <1>4, <1>5 DEF Next

(* Where the queue runs no job twice, expireForNoRider never closes an     *)
(* order that has a rider, although it does not look at riderId: the       *)
(* attempts form a single chain that an assignment ends.                   *)
THEOREM ExpiredHasNoRider ==
    ASSUME ~EarlyAccept
    PROVE  Spec => []ExpiredWithoutRider
  <1>1. Init => ChainInv
    BY DEF Init, ChainInv, ChainOver, InChain, EventKind
  <1>2. TypeOK /\ IndInv /\ ChainInv /\ [Next]_vars => ChainInv'
    BY StepPreservesChain
  <1>3. ChainInv => ExpiredWithoutRider
    BY DEF ChainInv, ExpiredWithoutRider
  <1> QED
    BY <1>1, <1>2, <1>3, TypeCorrect, Inductive, PTL DEF Spec

-----------------------------------------------------------------------------
(* One handler at a time keeps the promise of OrderCustody *)

(* With one handler in flight nothing overtakes it: what it read, and what *)
(* it checked when it read it, still holds when it writes.                 *)
SnapshotInv ==
    \A w \in Workers : req[w] # Idle =>
        /\ req[w].st = status[req[w].o]
        /\ req[w].pay = pay[req[w].o]
        /\ req[w].op \in {"pickup", "expireNoRider"} => req[w].st \in Pickupable
        /\ req[w].op = "setItem" => req[w].st \in InKitchen

(* Escrow is released by the delivery alone, the vendor is compensated for *)
(* a cancelled order alone, and refunded is only an order that has ended.  *)
CustodyInv ==
    \A o \in Orders :
        /\ ledger[o]["delivery"] > 0 => status[o] = "DELIVERED"
        /\ ledger[o]["adjustment"] > 0 => status[o] = "CANCELLED" /\ Booked(o)
        /\ pay[o] \in {"REFUND_PENDING", "REFUNDED"} => status[o] \in {"CANCELLED", "EXPIRED"}

(* Statuses in which nothing has been released, compensated or returned. *)
Underway == Status \ {"DELIVERED", "CANCELLED", "EXPIRED"}

(* What a handler reads is what there is. *)
LEMMA ReadSnapshot ==
    ASSUME TypeOK, SnapshotInv, NEW w \in Workers, NEW o \in Orders, NEW op \in HandlerOp,
           NEW n, Reads(w, op, o, n), UNCHANGED <<status, pay>>,
           op = "pickup" => status[o] \in Pickupable, op # "expireNoRider",
           op = "setItem" => status[o] \in InKitchen
    PROVE  SnapshotInv'
<1>1. req' = [req EXCEPT ![w] = [op |-> op, o |-> o, st |-> status[o],
                                pay |-> pay[o], n |-> n, r |-> rider[o]]]
  BY DEF Reads
<1> QED
  BY <1>1 DEF TypeOK, SnapshotInv, Idle

(* A handler that starts writes no row and no ledger. *)
LEMMA ReadsOnly ==
    ASSUME NEW w \in Workers, NEW o \in Orders, ClientRead(w, o) \/ SystemRead(w, o)
    PROVE  UNCHANGED <<status, pay, ledger>>
  BY DEF ClientRead, SystemRead, InitiateMomoRead, OnPaymentSucceededRead, WebhookFailedRead,
     AcceptOrderRead, RefuseOrderRead, CancelOrderRead, SetItemPreparedRead, MarkOrderReadyRead,
     VendorCancelPreOrderRead, MarkPickedUpRead, MarkDeliveredRead, ResolveRiderFraudRead,
     ExpireVendorDecisionRead, SweepExpiredRead, PromotePreOrderRead, PromotionSweepRead,
     TryDispatchRead, row, history

(* A handler that starts keeps the snapshots. *)
LEMMA ReadKeepsSnapshot ==
    ASSUME TypeOK, SnapshotInv, NEW w \in Workers, NEW o \in Orders,
           ClientRead(w, o) \/ SystemRead(w, o)
    PROVE  SnapshotInv'
<1>0. UNCHANGED <<status, pay>>
  BY ReadsOnly
<1>1. CASE UNCHANGED req
  BY <1>0, <1>1 DEF SnapshotInv
<1>2. ASSUME NEW op \in HandlerOp \ {"pickup", "setItem", "expireNoRider"}, NEW n, Reads(w, op, o, n)
      PROVE  SnapshotInv'
  BY <1>0, <1>2, ReadSnapshot
<1>3. ASSUME InitiateMomoRead(w, o) \/ OnPaymentSucceededRead(w, o) \/ WebhookFailedRead(w, o)
             \/ AcceptOrderRead(w, o) \/ RefuseOrderRead(w, o) \/ CancelOrderRead(w, o)
      PROVE  \E op \in HandlerOp \ {"pickup", "setItem", "expireNoRider"} : Reads(w, op, o, 0)
  BY <1>3 DEF InitiateMomoRead, OnPaymentSucceededRead, WebhookFailedRead, AcceptOrderRead,
     RefuseOrderRead, CancelOrderRead, HandlerOp
<1>4. ASSUME MarkOrderReadyRead(w, o) \/ VendorCancelPreOrderRead(w, o) \/ MarkDeliveredRead(w, o)
             \/ ResolveRiderFraudRead(w, o) \/ SweepExpiredRead(w, o) \/ PromotionSweepRead(w, o)
      PROVE  \E op \in HandlerOp \ {"pickup", "setItem", "expireNoRider"} : Reads(w, op, o, 0)
  BY <1>4 DEF MarkOrderReadyRead, VendorCancelPreOrderRead, MarkDeliveredRead,
     ResolveRiderFraudRead, SweepExpiredRead, PromotionSweepRead, HandlerOp
<1>5. ASSUME ExpireVendorDecisionRead(w, o) \/ PromotePreOrderRead(w, o)
      PROVE  UNCHANGED req \/ \E op \in HandlerOp \ {"pickup", "setItem", "expireNoRider"} :
                                  Reads(w, op, o, 0)
  BY <1>5 DEF ExpireVendorDecisionRead, PromotePreOrderRead, HandlerOp
<1>6. ASSUME NEW n \in 0..(MaxRetries - 1), TryDispatchRead(w, o, n)
      PROVE  UNCHANGED req \/ Reads(w, "query", o, n)
  BY <1>6 DEF TryDispatchRead
<1>7. CASE SetItemPreparedRead(w, o)
  <2>1. "setItem" \in HandlerOp
    BY DEF HandlerOp
  <2> QED
    BY <1>0, <1>7, <2>1, ReadSnapshot DEF SetItemPreparedRead
<1>8. CASE MarkPickedUpRead(w, o)
  <2>1. "pickup" \in HandlerOp
    BY DEF HandlerOp
  <2> QED
    BY <1>0, <1>8, <2>1, ReadSnapshot DEF MarkPickedUpRead
<1>9. "query" \in HandlerOp \ {"pickup", "setItem", "expireNoRider"}
  BY DEF HandlerOp
<1> QED
  BY <1>1, <1>2, <1>3, <1>4, <1>5, <1>6, <1>7, <1>8, <1>9 DEF ClientRead, SystemRead

(* A handler that goes on leaves none behind, for it was the only one; or, *)
(* at dispatch, reads on.                                                  *)
LEMMA ContinueKeepsSnapshot ==
    ASSUME TypeOK, SnapshotInv, \A v, w \in Workers : v = w, NEW w \in Workers, Continue(w)
    PROVE  SnapshotInv'
<1>1. ASSUME Returns(w) PROVE SnapshotInv'
  BY <1>1 DEF Returns, TypeOK, SnapshotInv
<1>2. CASE DispatchQuery(w)
  <2>1. PICK r \in Riders : req' = [req EXCEPT ![w].op = "claim", ![w].r = r]
    BY <1>2 DEF DispatchQuery
  <2>2. req[w] \in Call /\ req[w] # Idle /\ UNCHANGED <<status, pay>>
    BY <1>2, RunningType DEF DispatchQuery, Running, row
  <2>3. /\ req'[w].op = "claim" /\ req'[w].o = req[w].o /\ req'[w].st = req[w].st
        /\ req'[w].pay = req[w].pay
    BY <2>1, <2>2 DEF TypeOK, Call
  <2> QED
    BY <2>2, <2>3 DEF SnapshotInv
<1>3. CASE DispatchMiss(w)
  <2>1. CASE Returns(w)
    BY <1>1, <2>1
  <2>2. CASE ~Returns(w)
    <3>1. req' = [req EXCEPT ![w].op = "giveUp", ![w].r = NoRider]
      BY <1>3, <2>2 DEF DispatchMiss
    <3>2. req[w] \in Call /\ req[w] # Idle /\ UNCHANGED <<status, pay>>
      BY <1>3, RunningType DEF DispatchMiss, Running, row
    <3>3. /\ req'[w].op = "giveUp" /\ req'[w].o = req[w].o /\ req'[w].st = req[w].st
          /\ req'[w].pay = req[w].pay
      BY <3>1, <3>2 DEF TypeOK, Call
    <3> QED
      BY <3>2, <3>3 DEF SnapshotInv
  <2> QED
    BY <2>1, <2>2
<1>4. CASE ExpireForNoRiderRead(w)
  <2>1. UNCHANGED <<status, pay>>
    BY <1>4 DEF ExpireForNoRiderRead, row
  <2>2. CASE status[req[w].o] \in Pickupable
    <3>1. /\ req'[w].op = "expireNoRider" /\ req'[w].o = req[w].o
          /\ req'[w].st = status[req[w].o] /\ req'[w].pay = pay[req[w].o]
      BY <1>4, <2>2 DEF ExpireForNoRiderRead, TypeOK
    <3> QED
      BY <2>1, <2>2, <3>1 DEF SnapshotInv
  <2>3. CASE status[req[w].o] \notin Pickupable
    BY <1>1, <1>4, <2>3 DEF ExpireForNoRiderRead, Returns
  <2> QED
    BY <2>2, <2>3
<1>5. DispatchQuery(w) \/ DispatchMiss(w) \/ ExpireForNoRiderRead(w) \/ Returns(w)
  BY DEF Continue, InitiateMomoWrite, InitiateMomoFail, OnPaymentSucceededWrite,
     WebhookFailedWrite, AcceptOrderWrite, RefuseOrderWrite, CancelOrderWrite,
     ExpireVendorDecisionWrite, RefuseWrite, PromotePreOrderWrite, PromotionSweepWrite,
     PromoteWrite, SetItemPreparedWrite, MarkOrderReadyWrite, VendorCancelPreOrderWrite,
     DispatchClaim, ExpireForNoRiderWrite, MarkPickedUpWrite, MarkDeliveredWrite,
     ResolveRiderFraudWrite
<1> QED
  BY <1>1, <1>2, <1>3, <1>4, <1>5

(* As long as the row and the ledger stand still, so does the money. *)
LEMMA MoneyStays ==
    ASSUME CustodyInv, UNCHANGED <<status, pay, ledger>>
    PROVE  CustodyInv' /\ UNCHANGED Abstract!vars
<1>1. CustodyInv'
  BY DEF CustodyInv, Booked
<1>2. UNCHANGED Abstract!vars
  BY DEF Abstract!vars, CustodyOf, HasFinanceSnapshot
<1> QED
  BY <1>1, <1>2

(* A status that moves on from where nothing was released, compensated or  *)
(* returned moves no money.                                                *)
LEMMA StatusMoves ==
    ASSUME TypeOK, CustodyInv, NEW o \in Orders, status[o] \in Underway,
           \A x \in Orders \ {o} : status'[x] = status[x], UNCHANGED <<pay, ledger>>
    PROVE  CustodyInv' /\ UNCHANGED Abstract!vars
<1>1. CustodyInv'
  BY DEF TypeOK, CustodyInv, Underway, Booked, LedgerKind, Count, Many
<1>2. UNCHANGED Abstract!vars
  BY DEF Abstract!vars, CustodyOf, HasFinanceSnapshot
<1> QED
  BY <1>1, <1>2

(* The counts of an order are numbers. *)
LEMMA LedgerCounts ==
    ASSUME TypeOK
    PROVE  \A x \in Orders, k \in LedgerKind : ledger[x][k] \in Count
  BY DEF TypeOK

(* Where the money of an order is. *)
LEMMA WhereItIs ==
    ASSUME TypeOK, IndInv, CustodyInv, NEW o \in Orders
    PROVE  /\ status[o] \in Underway => ledger[o]["delivery"] = 0 /\ ledger[o]["adjustment"] = 0
           /\ status[o] \in Underway =>
                CustodyOf(o) = IF Booked(o) THEN "escrow" ELSE "customer"
           /\ ~Booked(o) => /\ ledger[o]["delivery"] = 0 /\ ledger[o]["adjustment"] = 0
                            /\ CustodyOf(o) = "customer"
<1>1. \A k \in LedgerKind : ledger[o][k] \in {0, 1, 2}
  BY LedgerCounts DEF Count, Many
<1>2. ledger[o]["payment"] \in {0, 1}
  BY <1>1 DEF IndInv, MoneyInv, LedgerKind
<1>3. status[o] \in Underway => /\ ledger[o]["delivery"] = 0 /\ ledger[o]["adjustment"] = 0
                                /\ pay[o] \notin {"REFUND_PENDING", "REFUNDED"}
  BY <1>1 DEF CustodyInv, Underway, LedgerKind
<1>4. ~Booked(o) => /\ ledger[o]["delivery"] = 0 /\ ledger[o]["adjustment"] = 0
                    /\ pay[o] \notin {"REFUND_PENDING", "REFUNDED"}
  BY <1>1 DEF CustodyInv, IndInv, MoneyInv, Funded, LedgerKind
<1> QED
  BY <1>2, <1>3, <1>4 DEF CustodyOf, HasFinanceSnapshot, Booked

(* When one order's row and ledger change, its money alone may move. *)
LEMMA OneOrderMoves ==
    ASSUME NEW o \in Orders,
           \A x \in Orders \ {o} : pay'[x] = pay[x] /\ \A k \in LedgerKind : ledger'[x][k] = ledger[x][k]
    PROVE  LET custody == [x \in Orders |-> CustodyOf(x)]
               credits == [x \in Orders |-> ledger[x]["delivery"] + ledger[x]["adjustment"]]
           IN  /\ custody' = [custody EXCEPT ![o] = CustodyOf(o)']
               /\ credits' = [credits EXCEPT ![o] = ledger'[o]["delivery"] + ledger'[o]["adjustment"]]
<1>1. \A x \in Orders \ {o} : CustodyOf(x)' = CustodyOf(x)
  BY DEF CustodyOf, HasFinanceSnapshot, LedgerKind
<1>2. \A x \in Orders \ {o} : ledger'[x]["delivery"] + ledger'[x]["adjustment"]
                               = ledger[x]["delivery"] + ledger[x]["adjustment"]
  BY DEF LedgerKind
<1> QED
  BY <1>1, <1>2

(* The vendor is credited, while the money goes from one place to another. *)
LEMMA AbstractStep ==
    ASSUME NEW o \in Orders,
           \A x \in Orders \ {o} :
              pay'[x] = pay[x] /\ \A k \in LedgerKind : ledger'[x][k] = ledger[x][k],
           NEW before, NEW after, CustodyOf(o) = before, CustodyOf(o)' = after,
           ledger[o]["delivery"] = 0, ledger[o]["adjustment"] = 0,
           NEW credited, ledger'[o]["delivery"] + ledger'[o]["adjustment"] = credited,
           \/ before = "customer" /\ after = "escrow" /\ credited = 0
           \/ before = "escrow" /\ after = "earned" /\ credited = 1
           \/ before = "escrow" /\ after = "returning" /\ credited \in {0, 1}
           \/ before = "escrow" /\ after = "escrow" /\ credited = 1
           \/ before = after /\ credited = 0
    PROVE  [Abstract!Next]_Abstract!vars
<1> DEFINE custody == [x \in Orders |-> CustodyOf(x)]
           credits == [x \in Orders |-> ledger[x]["delivery"] + ledger[x]["adjustment"]]
<1>1. custody' = [custody EXCEPT ![o] = after] /\ custody[o] = before
  BY OneOrderMoves
<1>2. credits' = [credits EXCEPT ![o] = credited] /\ credits[o] = 0
  <2>1. credits' = [credits EXCEPT ![o] = credited]
    BY OneOrderMoves
  <2>2. credits[o] = 0
    OBVIOUS
  <2> QED
    BY <2>1, <2>2
<1>3. before = after => custody' = custody
  BY <1>1
<1>4. credited = 0 => credits' = credits
  BY <1>2
<1> HIDE DEF custody, credits
<1>5. CASE before = "customer" /\ after = "escrow" /\ credited = 0
  <2>1. Abstract!Pay(o)
    BY <1>1, <1>4, <1>5 DEF Abstract!Pay, Abstract!Move, custody, credits
  <2> QED
    BY <2>1 DEF Abstract!Next
<1>6. CASE before = "escrow" /\ after = "earned" /\ credited = 1
  <2>1. Abstract!Deliver(o)
    BY <1>1, <1>2, <1>6 DEF Abstract!Deliver, Abstract!Move, Abstract!Credit, custody, credits
  <2> QED
    BY <2>1 DEF Abstract!Next
<1>7. CASE before = "escrow" /\ after = "returning" /\ credited \in {0, 1}
  <2>1. Abstract!Return(o)
    BY <1>1, <1>2, <1>4, <1>7
    DEF Abstract!Return, Abstract!Move, Abstract!Credit, custody, credits
  <2> QED
    BY <2>1 DEF Abstract!Next
<1>8. CASE before = "escrow" /\ after = "escrow" /\ credited = 1
  <2>1. Abstract!Compensate(o)
    BY <1>1, <1>2, <1>3, <1>8 DEF Abstract!Compensate, Abstract!Credit, custody, credits
  <2> QED
    BY <2>1 DEF Abstract!Next
<1>9. CASE before = after /\ credited = 0
  BY <1>3, <1>4, <1>9 DEF Abstract!vars, custody, credits
<1> QED
  BY <1>5, <1>6, <1>7, <1>8, <1>9

(* The payment is booked, or fails, before anything else moves. *)
LEMMA PaymentMovesMoney ==
    ASSUME TypeOK, IndInv, CustodyInv, NEW w \in Workers,
           InitiateMomoWrite(w) \/ WebhookFailedWrite(w) \/ OnPaymentSucceededWrite(w)
    PROVE  CustodyInv' /\ [Abstract!Next]_Abstract!vars
<1>1. PICK o \in Orders : o = req[w].o
  BY RunningType DEF InitiateMomoWrite, WebhookFailedWrite, OnPaymentSucceededWrite
<1>2. \A k \in LedgerKind : ledger[o][k] \in {0, 1, 2}
  BY <1>1, LedgerCounts DEF Count, Many
<1>3. CASE InitiateMomoWrite(w) \/ WebhookFailedWrite(w)
  <2>1. ~Booked(o)
    BY <1>1, <1>3 DEF InitiateMomoWrite, WebhookFailedWrite, IndInv, CallInv, MoneyInv, Running,
       Funded
  <2>2. /\ UNCHANGED <<status, ledger>>
        /\ pay'[o] \in {"PROCESSING", "FAILED"} /\ \A x \in Orders \ {o} : pay'[x] = pay[x]
    BY <1>1, <1>3 DEF InitiateMomoWrite, WebhookFailedWrite, history, TypeOK
  <2>3. CustodyInv'
    BY <1>1, <2>2 DEF CustodyInv, Booked
  <2>4. ledger[o]["delivery"] = 0 /\ ledger[o]["adjustment"] = 0 /\ CustodyOf(o) = "customer"
    BY <1>1, <2>1, WhereItIs
  <2>5. CustodyOf(o)' = "customer"
    <3>1. ledger[o]["payment"] = 0
      BY <1>1, <1>2, <2>1 DEF Booked, IndInv, MoneyInv, LedgerKind
    <3> QED
      BY <2>2, <2>4, <3>1 DEF CustodyOf, HasFinanceSnapshot
  <2>6. ledger'[o]["delivery"] + ledger'[o]["adjustment"] = 0
    BY <2>2, <2>4
  <2> QED
    BY <1>1, <2>2, <2>3, <2>4, <2>5, <2>6, AbstractStep
<1>4. CASE OnPaymentSucceededWrite(w)
  <2>1. CASE pay[o] \notin {"PENDING", "PROCESSING"}
    BY <1>1, <1>4, <2>1, MoneyStays DEF OnPaymentSucceededWrite, row, history
  <2>2. CASE pay[o] \in {"PENDING", "PROCESSING"}
    <3>1. ~Booked(o)
      BY <1>1, <2>2 DEF IndInv, MoneyInv, Funded
    <3>2. /\ status' = [status EXCEPT ![o] = "CONFIRMED"]
          /\ pay' = [pay EXCEPT ![o] = "PAID"]
          /\ Records(o, "payment")
      BY <1>1, <1>4, <2>2 DEF OnPaymentSucceededWrite
    <3>3. ledger[o]["delivery"] = 0 /\ ledger[o]["adjustment"] = 0 /\ CustodyOf(o) = "customer"
      BY <1>1, <3>1, WhereItIs
    <3>4. ledger[o]["payment"] = 0
      BY <1>1, <1>2, <3>1 DEF Booked, IndInv, MoneyInv, LedgerKind
    <3>5. /\ \A x \in Orders \ {o}, k \in LedgerKind : ledger'[x][k] = ledger[x][k]
          /\ ledger'[o]["payment"] = 1 /\ ledger'[o]["delivery"] = 0 /\ ledger'[o]["adjustment"] = 0
      BY <1>1, <3>2, <3>3, <3>4, RecordsEffect DEF LedgerKind, Bump, Many
    <3>6. /\ pay'[o] = "PAID" /\ status'[o] = "CONFIRMED"
          /\ \A x \in Orders \ {o} : pay'[x] = pay[x] /\ status'[x] = status[x]
      BY <1>1, <3>2 DEF TypeOK
    <3>7. CustodyInv'
      BY <1>1, <3>5, <3>6 DEF CustodyInv, Booked, LedgerKind
    <3>8. CustodyOf(o)' = "escrow"
      BY <3>5, <3>6 DEF CustodyOf, HasFinanceSnapshot
    <3>9. ledger'[o]["delivery"] + ledger'[o]["adjustment"] = 0
      BY <3>5
    <3> QED
      BY <1>1, <3>3, <3>5, <3>6, <3>7, <3>8, <3>9, AbstractStep
  <2> QED
    BY <2>1, <2>2
<1> QED
  BY <1>3, <1>4

(* The order ends, by a delivery or without one: what is released,         *)
(* returned or credited was in escrow and had not been.                    *)
LEMMA EndMovesMoney ==
    ASSUME TypeOK, IndInv, CustodyInv, NEW o \in Orders, Booked(o), status[o] \in Underway,
           NEW s \in Status, status' = [status EXCEPT ![o] = s],
           \A x \in Orders \ {o} :
              pay'[x] = pay[x] /\ \A k \in LedgerKind : ledger'[x][k] = ledger[x][k],
           ledger'[o]["payment"] = 1,
           \/ /\ s = "DELIVERED" /\ pay'[o] = pay[o]
              /\ ledger'[o]["delivery"] = 1 /\ ledger'[o]["adjustment"] = 0
           \/ /\ s = "CANCELLED" /\ pay'[o] \in {pay[o], "REFUND_PENDING"}
              /\ ledger'[o]["delivery"] = 0 /\ ledger'[o]["adjustment"] \in {0, 1}
           \/ /\ s = "EXPIRED" /\ pay'[o] \in {pay[o], "REFUNDED"}
              /\ ledger'[o]["delivery"] = 0 /\ ledger'[o]["adjustment"] = 0
    PROVE  CustodyInv' /\ [Abstract!Next]_Abstract!vars
<1>1. /\ ledger[o]["delivery"] = 0 /\ ledger[o]["adjustment"] = 0 /\ CustodyOf(o) = "escrow"
  BY WhereItIs
<1>2. pay[o] \notin {"REFUND_PENDING", "REFUNDED"}
  BY DEF CustodyInv, Underway
<1>3. status'[o] = s /\ \A x \in Orders \ {o} : status'[x] = status[x]
  BY DEF TypeOK
<1>4. CustodyInv'
  BY <1>2, <1>3 DEF CustodyInv, Booked, LedgerKind
<1> DEFINE credited == ledger'[o]["delivery"] + ledger'[o]["adjustment"]
<1>5. CASE s = "DELIVERED"
  <2>1. CustodyOf(o)' = "earned" /\ credited = 1
    BY <1>5 DEF CustodyOf
  <2> HIDE DEF credited
  <2>2. [Abstract!Next]_Abstract!vars
    BY <1>1, <2>1, AbstractStep DEF credited
  <2> QED
    BY <1>4, <2>2
<1>6. CASE s \in {"CANCELLED", "EXPIRED"}
  <2>1. CustodyOf(o)' \in {"escrow", "returning"} /\ credited \in {0, 1}
    BY <1>6 DEF CustodyOf, HasFinanceSnapshot
  <2> HIDE DEF credited
  <2>2. [Abstract!Next]_Abstract!vars
    BY <1>1, <2>1, AbstractStep DEF credited
  <2> QED
    BY <1>4, <2>2
<1> QED
  BY <1>4, <1>5, <1>6

(* A handler that goes on moves the money as OrderCustody says. *)
LEMMA ContinueMovesMoney ==
    ASSUME TypeOK, IndInv, SnapshotInv, CustodyInv, NEW w \in Workers, Continue(w)
    PROVE  CustodyInv' /\ [Abstract!Next]_Abstract!vars
<1> DEFINE o == req[w].o
<1>0. \A op : Running(w, op) => o \in Orders
  BY RunningType
<1>1. CASE InitiateMomoWrite(w) \/ WebhookFailedWrite(w) \/ OnPaymentSucceededWrite(w)
  BY <1>1, PaymentMovesMoney
<1>2. CASE InitiateMomoFail(w) \/ PromotePreOrderWrite(w) \/ PromotionSweepWrite(w)
             \/ DispatchQuery(w) \/ DispatchClaim(w) \/ DispatchMiss(w) \/ ExpireForNoRiderRead(w)
  <2>1. UNCHANGED <<status, pay, ledger>>
    BY <1>2 DEF InitiateMomoFail, PromotePreOrderWrite, PromotionSweepWrite, PromoteWrite,
       DispatchQuery, DispatchClaim, DispatchMiss, ExpireForNoRiderRead, row, history
  <2> QED
    BY <2>1, MoneyStays
<1>3. CASE AcceptOrderWrite(w) \/ RefuseOrderWrite(w) \/ CancelOrderWrite(w)
             \/ ExpireVendorDecisionWrite(w) \/ MarkOrderReadyWrite(w) \/ SetItemPreparedWrite(w)
             \/ MarkPickedUpWrite(w)
  <2>1. o \in Orders
    BY <1>0, <1>3 DEF AcceptOrderWrite, RefuseOrderWrite, CancelOrderWrite,
       ExpireVendorDecisionWrite, RefuseWrite, MarkOrderReadyWrite, SetItemPreparedWrite,
       MarkPickedUpWrite
  <2>2. UNCHANGED <<pay, ledger>>
    BY <1>3 DEF AcceptOrderWrite, RefuseOrderWrite, CancelOrderWrite,
       ExpireVendorDecisionWrite, RefuseWrite, MarkOrderReadyWrite, SetItemPreparedWrite,
       MarkPickedUpWrite, history
  <2>3. status[o] \in Underway \/ UNCHANGED status
    <3>1. CASE SetItemPreparedWrite(w)
      BY <2>1, <3>1 DEF SetItemPreparedWrite, Running, SnapshotInv, Underway, InKitchen, Status
    <3>2. CASE MarkPickedUpWrite(w)
      BY <2>1, <3>2 DEF MarkPickedUpWrite, Running, SnapshotInv, Underway, Pickupable, Status
    <3> QED
      BY <1>3, <3>1, <3>2 DEF AcceptOrderWrite, RefuseOrderWrite, CancelOrderWrite,
         ExpireVendorDecisionWrite, RefuseWrite, MarkOrderReadyWrite, Underway, InKitchen,
         Decidable, Status
  <2>4. \A x \in Orders \ {o} : status'[x] = status[x]
    BY <1>3, <2>1 DEF AcceptOrderWrite, RefuseOrderWrite, CancelOrderWrite,
       ExpireVendorDecisionWrite, RefuseWrite, MarkOrderReadyWrite, SetItemPreparedWrite,
       MarkPickedUpWrite, TypeOK
  <2> HIDE DEF o
  <2>5. CASE UNCHANGED status
    BY <2>2, <2>5, MoneyStays
  <2>6. CASE status[o] \in Underway
    BY <2>1, <2>2, <2>4, <2>6, StatusMoves
  <2> QED
    BY <2>3, <2>5, <2>6
<1>4. CASE VendorCancelPreOrderWrite(w)
  <2>1. o \in Orders /\ Booked(o)
    BY <1>4, RunningBooked DEF VendorCancelPreOrderWrite
  <2>2. CASE UNCHANGED <<status, pay, ledger>>
    BY <2>2, MoneyStays
  <2>3. CASE /\ status[o] \in InKitchen
             /\ status' = [status EXCEPT ![o] = "CANCELLED"]
             /\ pay' = [pay EXCEPT ![o] = "REFUND_PENDING"]
             /\ Records(o, "penalty")
    <3> HIDE DEF o
    <3>1. status[o] \in Underway
      BY <2>3 DEF Underway, InKitchen, Status
    <3>2. ledger[o]["delivery"] = 0 /\ ledger[o]["adjustment"] = 0
      BY <2>1, <3>1, WhereItIs
    <3>3. /\ \A x \in Orders \ {o}, k \in LedgerKind : ledger'[x][k] = ledger[x][k]
          /\ ledger'[o]["payment"] = 1 /\ ledger'[o]["delivery"] = 0 /\ ledger'[o]["adjustment"] = 0
      BY <2>1, <2>3, <3>2, RecordsEffect DEF LedgerKind, Booked
    <3>4. pay'[o] = "REFUND_PENDING" /\ \A x \in Orders \ {o} : pay'[x] = pay[x]
      BY <2>1, <2>3 DEF TypeOK
    <3> QED
      BY <2>1, <2>3, <3>1, <3>3, <3>4, EndMovesMoney DEF Status
  <2> QED
    BY <1>4, <2>2, <2>3 DEF VendorCancelPreOrderWrite, history
<1>5. CASE ExpireForNoRiderWrite(w)
  <2>1. o \in Orders /\ Booked(o)
    BY <1>5, RunningBooked DEF ExpireForNoRiderWrite
  <2>2. status[o] \in Underway
    BY <1>5, <2>1 DEF ExpireForNoRiderWrite, Running, SnapshotInv, Pickupable, Underway, Status
  <2>3. /\ status' = [status EXCEPT ![o] = "EXPIRED"]
        /\ pay' = [pay EXCEPT ![o] = "REFUNDED"] \/ UNCHANGED pay
        /\ UNCHANGED ledger
    BY <1>5 DEF ExpireForNoRiderWrite
  <2> HIDE DEF o
  <2>4. ledger'[o]["delivery"] = 0 /\ ledger'[o]["adjustment"] = 0 /\ ledger'[o]["payment"] = 1
    BY <2>1, <2>2, <2>3, WhereItIs DEF Booked
  <2>5. pay'[o] \in {pay[o], "REFUNDED"} /\ \A x \in Orders \ {o} : pay'[x] = pay[x]
    BY <2>1, <2>3 DEF TypeOK
  <2>6. \A x \in Orders \ {o}, k \in LedgerKind : ledger'[x][k] = ledger[x][k]
    BY <2>3
  <2> QED
    BY <2>1, <2>2, <2>3, <2>4, <2>5, <2>6, EndMovesMoney DEF Status
<1>6. CASE MarkDeliveredWrite(w)
  <2>1. o \in Orders /\ Booked(o)
    BY <1>6, RunningBooked DEF MarkDeliveredWrite
  <2>2. UNCHANGED pay
    BY <1>6 DEF MarkDeliveredWrite
  <2>3. CASE UNCHANGED <<status, ledger>>
    BY <2>2, <2>3, MoneyStays
  <2>4. CASE /\ status[o] = "PICKED_UP"
             /\ status' = [status EXCEPT ![o] = "DELIVERED"]
             /\ Records(o, "delivery")
    <3> HIDE DEF o
    <3>1. status[o] \in Underway
      BY <2>4 DEF Underway, Status
    <3>2. ledger[o]["delivery"] = 0 /\ ledger[o]["adjustment"] = 0
      BY <2>1, <3>1, WhereItIs
    <3>3. /\ \A x \in Orders \ {o}, k \in LedgerKind : ledger'[x][k] = ledger[x][k]
          /\ ledger'[o]["payment"] = 1 /\ ledger'[o]["delivery"] = 1 /\ ledger'[o]["adjustment"] = 0
      BY <2>1, <2>4, <3>2, RecordsEffect DEF LedgerKind, Booked, Bump, Many
    <3> QED
      BY <2>1, <2>2, <2>4, <3>1, <3>3, EndMovesMoney DEF Status
  <2> QED
    BY <1>6, <2>3, <2>4 DEF MarkDeliveredWrite
<1>7. CASE ResolveRiderFraudWrite(w)
  <2>1. o \in Orders /\ Booked(o)
    BY <1>7, RunningBooked DEF ResolveRiderFraudWrite
  <2>2. CASE UNCHANGED <<status, pay, ledger>>
    BY <2>2, MoneyStays
  <2>3. CASE /\ status[o] = "PICKED_UP"
             /\ status' = [status EXCEPT ![o] = "CANCELLED"]
             /\ UNCHANGED pay \/ pay' = [pay EXCEPT ![o] = "REFUND_PENDING"]
             /\ UNCHANGED ledger \/ Records(o, "adjustment")
    <3> HIDE DEF o
    <3>1. status[o] \in Underway
      BY <2>3 DEF Underway, Status
    <3>2. ledger[o]["delivery"] = 0 /\ ledger[o]["adjustment"] = 0
      BY <2>1, <3>1, WhereItIs
    <3>3. /\ \A x \in Orders \ {o}, k \in LedgerKind : ledger'[x][k] = ledger[x][k]
          /\ ledger'[o]["payment"] = 1 /\ ledger'[o]["delivery"] = 0
          /\ ledger'[o]["adjustment"] \in {0, 1}
      <4>1. CASE UNCHANGED ledger
        BY <2>1, <3>2, <4>1 DEF Booked
      <4>2. CASE Records(o, "adjustment")
        BY <2>1, <3>2, <4>2, RecordsEffect DEF LedgerKind, Booked, Bump, Many
      <4> QED
        BY <2>3, <4>1, <4>2
    <3>4. pay'[o] \in {pay[o], "REFUND_PENDING"} /\ \A x \in Orders \ {o} : pay'[x] = pay[x]
      BY <2>1, <2>3 DEF TypeOK
    <3> QED
      BY <2>1, <2>3, <3>1, <3>3, <3>4, EndMovesMoney DEF Status
  <2> QED
    BY <1>7, <2>2, <2>3 DEF ResolveRiderFraudWrite
<1> QED
  BY <1>1, <1>2, <1>3, <1>4, <1>5, <1>6, <1>7 DEF Continue

(* At first nothing is paid, released or read. *)
LEMMA InitCustody == Init => SnapshotInv /\ CustodyInv /\ Abstract!Init
<1> SUFFICES ASSUME Init PROVE SnapshotInv /\ CustodyInv /\ Abstract!Init
  OBVIOUS
<1>1. SnapshotInv /\ CustodyInv
  BY DEF Init, SnapshotInv, CustodyInv, LedgerKind
<1>2. \A o \in Orders : /\ CustodyOf(o) = "customer"
                        /\ ledger[o]["delivery"] + ledger[o]["adjustment"] = 0
  BY DEF Init, CustodyOf, HasFinanceSnapshot, LedgerKind
<1> QED
  BY <1>1, <1>2 DEF Abstract!Init

(* Every step of the order pipeline is one of OrderCustody, or none. *)
LEMMA StepCustody ==
    ASSUME TypeOK, IndInv, SnapshotInv, CustodyInv, \A v, w \in Workers : v = w, [Next]_vars
    PROVE  SnapshotInv' /\ CustodyInv' /\ [Abstract!Next]_Abstract!vars
<1>1. ASSUME NEW w \in Workers, Continue(w)
      PROVE  SnapshotInv' /\ CustodyInv' /\ [Abstract!Next]_Abstract!vars
  BY <1>1, ContinueKeepsSnapshot, ContinueMovesMoney
<1>2. ASSUME NEW w \in Workers, NEW o \in Orders, ClientRead(w, o) \/ SystemRead(w, o)
      PROVE  SnapshotInv' /\ CustodyInv' /\ [Abstract!Next]_Abstract!vars
  BY <1>2, ReadKeepsSnapshot, ReadsOnly, MoneyStays
<1>3. ASSUME NEW r \in Riders, SuspendRider(r) \/ UnsuspendRider(r)
      PROVE  SnapshotInv' /\ CustodyInv' /\ [Abstract!Next]_Abstract!vars
  <2>1. UNCHANGED <<status, pay, ledger, req>>
    BY <1>3 DEF SuspendRider, UnsuspendRider, history
  <2> QED
    BY <2>1, MoneyStays DEF SnapshotInv
<1>4. CASE Crash
  <2>1. UNCHANGED <<status, pay, ledger>> /\ \A w \in Workers : req'[w] = Idle
    BY <1>4 DEF Crash, row, history
  <2> QED
    BY <2>1, MoneyStays DEF SnapshotInv
<1>5. CASE UNCHANGED vars
  <2>1. UNCHANGED <<status, pay, ledger, req>>
    BY <1>5 DEF vars, row, history
  <2> QED
    BY <2>1, MoneyStays DEF SnapshotInv
<1> QED
  BY <1>1, <1>2, <1>3, <1>4, <1>5 DEF Next

(* When handlers do not overlap, the order pipeline implements             *)
(* OrderCustody: the consumer's money goes from escrow to the delivery or  *)
(* back, once, and the vendor is credited once, whatever the order, the    *)
(* retries, the redeliveries and the restarts (ImplementsOrderCustody).    *)
(* That handlers do overlap is why DeliveredOverwritten and                *)
(* CancelledReopened can happen.                                           *)
THEOREM OneWorkerKeepsCustody ==
    ASSUME ~EarlyAccept, \A v, w \in Workers : v = w
    PROVE  Spec => ImplementsOrderCustody
<1>1. TypeOK /\ IndInv /\ SnapshotInv /\ CustodyInv /\ [Next]_vars
        => SnapshotInv' /\ CustodyInv' /\ [Abstract!Next]_Abstract!vars
  BY StepCustody
<1> QED
  BY <1>1, InitCustody, TypeCorrect, Inductive, PTL
  DEF Spec, ImplementsOrderCustody, Abstract!Spec
=============================================================================
