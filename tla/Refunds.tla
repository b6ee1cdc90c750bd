------------------------------- MODULE Refunds -------------------------------
(***************************************************************************)
(* One order's refund, from REFUND_PENDING on: RefundProcessorService, the *)
(* Campay refund webhook, the escalation list and the two ledger pairs,    *)
(* with sweeps that overlap, a Campay whose answer or callback is late or  *)
(* never comes, and a process that may restart.                            *)
(*                                                                         *)
(* A transfer t is one /withdraw/ that Campay accepted, and the reference  *)
(* it issued for it.  Everything is keyed by the order or by the reference *)
(* so one order is enough.  Such an order was PAID, hence has the          *)
(* payerPhone that initiateMomo stored: the processor's branch for a       *)
(* missing phone, which only notes a reason, is not reachable from here.   *)
(***************************************************************************)
EXTENDS Naturals

CONSTANTS
    Sweepers,        \* sweeps that may overlap: cron ticks, replicas
    Transfers,       \* the references Campay can issue
    None,            \* no reference
    MaxFaults,       \* failures of any kind (model bound)
    RefundsEnabled,  \* CAMPAY_REFUNDS_ENABLED
    MaxCrashes       \* process restarts (model bound)

ASSUME NoneAssumption == None \notin Transfers
ASSUME SwitchesAssumption ==
    /\ RefundsEnabled \in BOOLEAN
    /\ {MaxFaults, MaxCrashes} \subseteq Nat

VARIABLES
    pay,          \* Order.paymentStatus
    initiatedAt,  \* Order.refundInitiatedAt: how long ago, if at all
    campayRef,    \* Order.refundCampayRef
    sweep,        \* where each sweep is with this order, and its answer
    campay,       \* what Campay knows of each transfer
    dedup,        \* the references with a (REFUND, reference) row
    hook,         \* where the webhook that inserted the row is
    released,     \* "release escrow" ledger pairs
    settled,      \* "settle the refund" ledger pairs
    faults,       \* failures so far
    lost,         \* those of them that lost an answer, or a write after it
    crashes       \* restarts so far

order  == <<pay, initiatedAt, campayRef>>
ledger == <<released, settled>>
mishap == <<faults, lost, crashes>>
vars   == <<order, sweep, campay, dedup, hook, ledger, mishap>>

(* Unset, or set less or more than STALE_IN_FLIGHT_MINUTES ago. *)
Age == {"null", "recent", "old"}

SweepStep == {"idle", "selected", "locked", "answered", "threw"}
Withdraw  == {"none", "sent", "settled", "rejected"}
HookStep  == {"none", "first", "settling", "resetting", "over"}

TypeOK ==
    /\ pay \in {"REFUND_PENDING", "REFUNDED"}
    /\ initiatedAt \in Age
    /\ campayRef \in Transfers \cup {None}
    /\ sweep \in [Sweepers -> [at : SweepStep, t : Transfers \cup {None}]]
    /\ \A s \in Sweepers : sweep[s].at = "answered" => sweep[s].t \in Transfers
    /\ campay \in [Transfers -> Withdraw]
    /\ dedup \subseteq Transfers
    /\ hook \in [Transfers -> HookStep]
    /\ released \in Nat
    /\ settled \in Nat
    /\ faults \in 0..MaxFaults
    /\ lost \in 0..faults
    /\ crashes \in 0..MaxCrashes

(* A transfer that pays, or still may. *)
Live(t) == campay[t] \in {"sent", "settled"}

AtRest == [at |-> "idle", t |-> None]

Init ==
    /\ pay = "REFUND_PENDING"
    /\ initiatedAt = "null" /\ campayRef = None
    /\ sweep = [s \in Sweepers |-> AtRest]
    /\ campay = [t \in Transfers |-> "none"]
    /\ dedup = {}
    /\ hook = [t \in Transfers |-> "none"]
    /\ released = 0 /\ settled = 0
    /\ faults = 0 /\ lost = 0 /\ crashes = 0

(* A failure, one that also loses what the code needs to know, and none.   *)
Fails == faults < MaxFaults /\ faults' = faults + 1 /\ UNCHANGED lost
Loses == faults < MaxFaults /\ faults' = faults + 1 /\ lost' = lost + 1
Works == UNCHANGED <<faults, lost>>

Goes(s, step, t) == sweep' = [sweep EXCEPT ![s] = [at |-> step, t |-> t]]

-----------------------------------------------------------------------------
(* RefundProcessorService *)

(* sweepPendingRefunds: the order is among the candidates.  With refunds   *)
(* switched off tryRefund returns at once.                                 *)
SelectPending(s) ==
    /\ RefundsEnabled
    /\ sweep[s].at = "idle"
    /\ pay = "REFUND_PENDING" /\ initiatedAt = "null"
    /\ Goes(s, "selected", None)
    /\ UNCHANGED <<order, campay, dedup, hook, ledger, mishap>>

(* Mutant: the row is claimed by its id alone. *)
LockRefund_ById(s) ==
    /\ sweep[s].at = "selected"
    /\ Goes(s, "locked", None)
    /\ initiatedAt' = "recent"
    /\ UNCHANGED <<pay, campayRef, campay, dedup, hook, ledger, mishap>>

(* tryRefund's status-guarded lock. *)
LockRefund(s) ==
    /\ sweep[s].at = "selected"
    /\ IF pay = "REFUND_PENDING" /\ initiatedAt = "null"
       THEN Goes(s, "locked", None) /\ initiatedAt' = "recent"
       ELSE Goes(s, "idle", None) /\ UNCHANGED initiatedAt
    /\ UNCHANGED <<pay, campayRef, campay, dedup, hook, ledger, mishap>>

(* initiateRefund reached Campay, which takes the transfer on.  The answer *)
(* gets back, or does not.                                                 *)
CampayAccepts(s) ==
    /\ sweep[s].at = "locked"
    /\ \E t \in Transfers :
           /\ campay[t] = "none"
           /\ campay' = [campay EXCEPT ![t] = "sent"]
           /\ \/ Goes(s, "answered", t) /\ Works
              \/ Goes(s, "threw", None) /\ Loses
    /\ UNCHANGED <<order, dedup, hook, ledger, crashes>>

(* It did not: an open circuit, an HTTP error, a FAILED answer. *)
CampayRefuses(s) ==
    /\ sweep[s].at = "locked"
    /\ Fails
    /\ Goes(s, "threw", None)
    /\ UNCHANGED <<order, campay, dedup, hook, ledger, crashes>>

(* Mutant: the reference is stored without the ledger pair. *)
StoreReference_NoLedger(s) ==
    /\ sweep[s].at = "answered"
    /\ Goes(s, "idle", None)
    /\ campayRef' = sweep[s].t
    /\ UNCHANGED <<pay, initiatedAt, campay, dedup, hook, ledger, mishap>>

(* Mutant: the answer's reference is not stored. *)
StoreReference_NotStored(s) ==
    /\ sweep[s].at = "answered"
    /\ Goes(s, "idle", None)
    /\ released' = released + 1
    /\ UNCHANGED <<order, campay, dedup, hook, settled, mishap>>

(* The transaction: the reference and the release-escrow pair. *)
StoreReference(s) ==
    /\ sweep[s].at = "answered"
    /\ Goes(s, "idle", None)
    /\ campayRef' = sweep[s].t
    /\ released' = released + 1
    /\ UNCHANGED <<pay, initiatedAt, campay, dedup, hook, settled, mishap>>

(* The transaction rolled back. *)
StoreFails(s) ==
    /\ sweep[s].at = "answered"
    /\ Loses
    /\ Goes(s, "threw", None)
    /\ UNCHANGED <<order, campay, dedup, hook, ledger, crashes>>

(* The catch block: order.update by id drops the lock.  Its own failure is *)
(* swallowed, and leaves the lock in place.                                *)
ResetLock(s) ==
    /\ sweep[s].at = "threw"
    /\ Goes(s, "idle", None)
    /\ \/ initiatedAt' = "null" /\ Works
       \/ UNCHANGED initiatedAt /\ Loses
    /\ UNCHANGED <<pay, campayRef, campay, dedup, hook, ledger, crashes>>

-----------------------------------------------------------------------------
(* Campay, and FinanceService.handleRefundWebhook *)

(* The transfer reaches the customer, or fails for good. *)
CampaySettles(t) ==
    /\ campay[t] = "sent"
    /\ \/ campay' = [campay EXCEPT ![t] = "settled"] /\ Works
       \/ campay' = [campay EXCEPT ![t] = "rejected"] /\ Fails
    /\ UNCHANGED <<order, sweep, dedup, hook, ledger, crashes>>

(* A webhook with a final status inserts the dedup row; another one of the *)
(* same reference ends there, and one that is not final does nothing.      *)
WebhookFirst(t) ==
    /\ campay[t] \in {"settled", "rejected"}
    /\ t \notin dedup
    /\ dedup' = dedup \cup {t}
    /\ hook' = [hook EXCEPT ![t] = "first"]
    /\ UNCHANGED <<order, sweep, campay, ledger, mishap>>

(* Mutant: the order is found through external_reference. *)
FindOrder_ByOrderId(t) ==
    /\ hook[t] = "first"
    /\ hook' = [hook EXCEPT ![t] =
                 IF pay # "REFUND_PENDING" THEN "over"
                 ELSE IF campay[t] = "settled" THEN "settling" ELSE "resetting"]
    /\ UNCHANGED <<order, sweep, campay, dedup, ledger, mishap>>

(* The order with this refundCampayRef, if it is still REFUND_PENDING. *)
FindOrder(t) ==
    /\ hook[t] = "first"
    /\ hook' = [hook EXCEPT ![t] =
                 IF campayRef # t \/ pay # "REFUND_PENDING" THEN "over"
                 ELSE IF campay[t] = "settled" THEN "settling" ELSE "resetting"]
    /\ UNCHANGED <<order, sweep, campay, dedup, ledger, mishap>>

(* Succeeded: guarded flip and settle pair in one transaction. *)
Settle(t) ==
    /\ hook[t] = "settling"
    /\ hook' = [hook EXCEPT ![t] = "over"]
    /\ IF pay = "REFUND_PENDING"
       THEN pay' = "REFUNDED" /\ settled' = settled + 1
       ELSE UNCHANGED <<pay, settled>>
    /\ UNCHANGED <<initiatedAt, campayRef, sweep, campay, dedup, released,
                   mishap>>

(* Failed: order.update by id makes the row a candidate again. *)
ResetRefund(t) ==
    /\ hook[t] = "resetting"
    /\ hook' = [hook EXCEPT ![t] = "over"]
    /\ campayRef' = None
    /\ initiatedAt' = "null"
    /\ UNCHANGED <<pay, sweep, campay, dedup, ledger, mishap>>

-----------------------------------------------------------------------------
(* STALE_IN_FLIGHT_MINUTES go by after the row was locked. *)
HalfHourPasses ==
    /\ initiatedAt = "recent"
    /\ initiatedAt' = "old"
    /\ UNCHANGED <<pay, campayRef, sweep, campay, dedup, hook, ledger,
                   mishap>>

(* A restart ends the sweeps and the webhooks in flight. *)
Crash ==
    /\ crashes < MaxCrashes
    /\ crashes' = crashes + 1
    /\ sweep' = [s \in Sweepers |-> AtRest]
    /\ hook' = [t \in Transfers |-> IF hook[t] = "none" THEN "none" ELSE "over"]
    /\ UNCHANGED <<order, campay, dedup, ledger, faults, lost>>

Sweep(s) ==
    \/ SelectPending(s) \/ LockRefund(s) \/ CampayAccepts(s) \/ CampayRefuses(s)
    \/ StoreReference(s) \/ StoreFails(s) \/ ResetLock(s)

Webhook(t) == FindOrder(t) \/ Settle(t) \/ ResetRefund(t)

Next ==
    \/ \E s \in Sweepers : Sweep(s)
    \/ \E t \in Transfers : CampaySettles(t) \/ WebhookFirst(t) \/ Webhook(t)
    \/ HalfHourPasses
    \/ Crash

Spec == Init /\ [][Next]_vars

(* The cron fires every five minutes and node finishes what it started.    *)
(* Nothing is asked of Campay: it may never settle and never call back.    *)
Fairness ==
    /\ \A s \in Sweepers : WF_vars(Sweep(s))
    /\ \A t \in Transfers : WF_vars(Webhook(t))
    /\ WF_vars(HalfHourPasses)

FairSpec == Spec /\ Fairness

(* listEscalations, for orders. *)
Escalated ==
    /\ pay = "REFUND_PENDING"
    /\ campayRef # None
    /\ initiatedAt = "old"

-----------------------------------------------------------------------------
(* An order is REFUNDED, and its settle pair written, for one transfer     *)
(* that did reach the customer; REFUND_PAYABLE is never settled before it  *)
(* is owed.                                                                *)
RefundIsBacked ==
    /\ settled <= released
    /\ settled = (IF pay = "REFUNDED" THEN 1 ELSE 0)
    /\ pay = "REFUNDED" => campayRef # None /\ campay[campayRef] = "settled"

(* Overlapping sweeps, bounced transfers, early webhooks and restarts do   *)
(* not send the customer the money twice: Campay holds two live transfers  *)
(* for the order only after an answer was lost.                            *)
OneRefund ==
    lost = 0 => \A t, u \in Transfers : Live(t) /\ Live(u) => t = u

(* "Refund settled - liability cleared": once the order is REFUNDED, what  *)
(* REFUND_PAYABLE was credited with has been debited, unless a transfer    *)
(* bounced after its escrow was released.                                  *)
LiabilityCleared ==
    pay = "REFUNDED" /\ (\A t \in Transfers : campay[t] # "rejected")
        => released = settled

(* "Surfaces failed and stuck money movements": a refund is always, later, *)
(* either done or on the escalation list, whatever Campay does, as long as *)
(* no restart and no lost answer leaves it locked without a reference.     *)
RefundSettlesOrSurfaces ==
    []<>(pay = "REFUNDED" \/ Escalated \/ lost > 0 \/ crashes > 0)

(* "The status guard prevents double-fire", without exception. *)
NeverFiredTwice ==
    \A t, u \in Transfers : Live(t) /\ Live(u) => t = u

-----------------------------------------------------------------------------
(* Why: the parts of the inductive invariant. *)

Holds(s) == sweep[s].at \in {"locked", "answered", "threw"}

(* refundInitiatedAt is a lock: one sweep at most is past it, and no       *)
(* reference is stored then.                                               *)
LockInv ==
    /\ \A s \in Sweepers : Holds(s) =>
           /\ initiatedAt # "null" /\ campayRef = None /\ pay = "REFUND_PENDING"
           /\ \A r \in Sweepers : Holds(r) => r = s
    /\ campayRef # None => initiatedAt # "null" /\ released >= 1

(* A webhook past its lookup is about the reference that is stored.        *)
HookInv ==
    \A t \in Transfers :
        /\ hook[t] = "first" => campay[t] \in {"settled", "rejected"}
        /\ hook[t] = "settling" => campayRef = t /\ campay[t] = "settled"
        /\ hook[t] = "resetting" => campayRef = t /\ campay[t] = "rejected"

BackedInv == LockInv /\ HookInv /\ RefundIsBacked

(* Until a transfer bounces, the release pair is written with the stored   *)
(* reference and with nothing else.                                        *)
ReleaseInv ==
    (\A t \in Transfers : campay[t] # "rejected")
        => released = (IF campayRef = None THEN 0 ELSE 1)

(* A live transfer is under the lock, and known to whoever holds it: what  *)
(* a lost answer breaks.                                                   *)
OnceInv ==
    /\ NeverFiredTwice
    /\ \A t \in Transfers : Live(t) =>
           /\ initiatedAt # "null"
           /\ campayRef # None => campayRef = t
           /\ \A s \in Sweepers : Holds(s) =>
                  sweep[s].at = "answered" /\ sweep[s].t = t
=============================================================================
