------------------------------- MODULE MCMoney -------------------------------
(***************************************************************************)
(* The modules about money that moves through Campay, on small instances:  *)
(* a consumer's payment, the circuit breaker around every call, a refund,  *)
(* a payout row, and the rider cron that makes such rows.  They share no   *)
(* state, so one of them moves and the others stand still.                 *)
(***************************************************************************)
EXTENDS MomoPayments, CircuitBreaker, Refunds, PayoutTransfers, Cashouts

VARIABLE part

Parts == {"collect", "circuit", "refund", "payout", "cashout"}
allVars == <<part, momoVars, circuitVars, vars, payoutVars, cashoutVars>>

(* Two deliveries of different worth. *)
MCLedgers == {<<2, 3>>}

MoneyInit ==
    /\ part \in Parts
    /\ MomoInit /\ CircuitInit /\ Init /\ PayoutInit /\ CashoutInit
    /\ part # "payout" => ~enabled

(* Campay's references are interchangeable, so they are issued in order.   *)
InOrder(issued, refs) == \A t, u \in refs : issued[t] # "none" /\ u < t => issued[u] # "none"
Issued == InOrder(campay, Transfers) /\ InOrder(withdrawal, Withdrawals)

(* One disjunct for each part. *)
MoneyNext ==
    /\ UNCHANGED part
    /\ \/ /\ part = "collect" /\ MomoNext
          /\ UNCHANGED <<circuitVars, vars, payoutVars, cashoutVars>>
       \/ /\ part = "circuit" /\ CircuitNext
          /\ UNCHANGED <<momoVars, vars, payoutVars, cashoutVars>>
       \/ /\ part = "refund" /\ Next
          /\ UNCHANGED <<momoVars, circuitVars, payoutVars, cashoutVars>>
       \/ /\ part = "payout" /\ PayoutNext
          /\ UNCHANGED <<momoVars, circuitVars, vars, cashoutVars>>
       \/ /\ part = "cashout" /\ CashoutNext
          /\ UNCHANGED <<momoVars, circuitVars, vars, payoutVars>>

(* The fairness of each module, for the part that moves. *)
MoneySpec ==
    /\ MoneyInit /\ [][MoneyNext /\ Issued']_allVars
    /\ \A a \in Attempts :
         /\ WF_momoVars(part = "collect" /\ Handler(a))
         /\ WF_momoVars(part = "collect" /\ PayWebhookFirst(a) /\ collect[a] \in {"paid", "refused"})
    /\ \A c \in Calls :
         /\ WF_circuitVars(part = "circuit" /\ Wrap(c))
         /\ WF_circuitVars(part = "circuit" /\ (OnSuccess(c) \/ OnFailure(c)))
    /\ WF_circuitVars(part = "circuit" /\ CoolDown)
    /\ \A s \in Sweepers : WF_vars(part = "refund" /\ Sweep(s))
    /\ \A t \in Transfers : WF_vars(part = "refund" /\ Webhook(t))
    /\ WF_vars(part = "refund" /\ HalfHourPasses)
    /\ \A w \in Workers : WF_payoutVars(part = "payout" /\ PayoutSweep(w))
    /\ \A t \in Withdrawals : WF_payoutVars(part = "payout" /\ PayoutWebhook(t))
    /\ WF_payoutVars(part = "payout" /\ PayoutAges)
    /\ WF_cashoutVars(part = "cashout" /\ \E h \in Handlers : RiderCronStart(h))
    /\ \A h \in Handlers : WF_cashoutVars(part = "cashout" /\ CashoutGoes(h))

(* Every variable keeps to its values. *)
MoneyTypeOK == MomoTypeOK /\ CircuitTypeOK /\ TypeOK /\ PayoutTypeOK /\ CashoutTypeOK

(* "Surfaces failed and stuck money movements": a refund is, sooner or     *)
(* later, done or on the escalation list (RefundSettlesOrSurfaces).        *)
RefundSurfaces == part = "refund" => RefundSettlesOrSurfaces
=============================================================================
