--------------------------- MODULE PayoutTransfers ---------------------------
(***************************************************************************)
(* One payout row on its way to a vendor or a rider: PayoutTransferWorker, *)
(* the Campay transfer webhook, the admin's retry and manual-mark-paid     *)
(* endpoints and the escalation list.  Vendor and rider payouts run the    *)
(* same code over two tables, so one row stands for either.                *)
(*                                                                         *)
(* A transfer t is one /withdraw/ that Campay took on, by the worker or by *)
(* an admin in the Campay UI, and its reference.  The worker's look at the *)
(* platform balance only makes it leave the row for a later sweep.         *)
(***************************************************************************)
EXTENDS Naturals

CONSTANTS
    Workers,          \* sweeps that may overlap: cron ticks, replicas
    Withdrawals,      \* the references Campay can issue
    NoReference,      \* no reference
    Modes,            \* the values CAMPAY_TRANSFERS_ENABLED may have
    MaxWorkerCrashes  \* process restarts (model bound)

ASSUME ReferenceAssumption == NoReference \notin Withdrawals
ASSUME ModesAssumption ==
    /\ Modes \subseteq BOOLEAN
    /\ MaxWorkerCrashes \in Nat

VARIABLES
    enabled,        \* env.campay.transfersEnabled, fixed until the next restart
    status,         \* VendorPayout.status, RiderPayout.status
    payoutRef,      \* its campayRef
    sentAt,         \* its sentAt: how long ago, if at all
    work,           \* where each sweep is with this row, and its answer
    withdrawal,     \* what Campay knows of each transfer
    payoutDedup,    \* the references with a (TRANSFER, reference) row
    payoutHook,     \* where the webhook that inserted the row is
    payoutLost,     \* lost answers of Campay, and lost writes after them
    workerRestarts  \* restarts so far

row == <<status, payoutRef, sentAt>>
payoutMishap == <<payoutLost, workerRestarts>>
payoutVars   == <<enabled, row, work, withdrawal, payoutDedup, payoutHook, payoutMishap>>

(* Unset, or set less or more than STALE_IN_FLIGHT_MINUTES ago. *)
PayoutAge == {"null", "recent", "old"}

WorkStep == {"idle", "selected", "locked", "answered", "threw"}
WithdrawalStep == {"none", "sent", "settled", "rejected"}
PayoutHookStep == {"none", "first", "flipping", "over"}

PayoutTypeOK ==
    /\ enabled \in Modes
    /\ status \in {"PENDING", "IN_FLIGHT", "PAID", "FAILED"}
    /\ payoutRef \in Withdrawals \cup {NoReference}
    /\ sentAt \in PayoutAge
    /\ work \in [Workers -> [at : WorkStep, t : Withdrawals \cup {NoReference}]]
    /\ \A w \in Workers : work[w].at = "answered" => work[w].t \in Withdrawals
    /\ withdrawal \in [Withdrawals -> WithdrawalStep]
    /\ payoutDedup \subseteq Withdrawals
    /\ payoutHook \in [Withdrawals -> PayoutHookStep]
    /\ payoutLost \in Nat
    /\ workerRestarts \in 0..MaxWorkerCrashes

(* A transfer that pays, or still may. *)
Pays(t) == withdrawal[t] \in {"sent", "settled"}

WorkAtRest == [at |-> "idle", t |-> NoReference]

PayoutInit ==
    /\ enabled \in Modes
    /\ status = "PENDING" /\ payoutRef = NoReference /\ sentAt = "null"
    /\ work = [w \in Workers |-> WorkAtRest]
    /\ withdrawal = [t \in Withdrawals |-> "none"]
    /\ payoutDedup = {}
    /\ payoutHook = [t \in Withdrawals |-> "none"]
    /\ payoutLost = 0 /\ workerRestarts = 0

WorkGoes(w, step, t) == work' = [work EXCEPT ![w] = [at |-> step, t |-> t]]

-----------------------------------------------------------------------------
(* PayoutTransferWorker *)

(* sweepPendingTransfers: the row is PENDING and due, the balance covers   *)
(* it.  In manual mode tryTransfer returns at once.                        *)
SelectPayout(w) ==
    /\ enabled
    /\ work[w].at = "idle"
    /\ status = "PENDING"
    /\ WorkGoes(w, "selected", NoReference)
    /\ UNCHANGED <<enabled, row, withdrawal, payoutDedup, payoutHook, payoutMishap>>

(* Mutant: the row is claimed by its id alone. *)
LockRow_ById(w) ==
    /\ work[w].at = "selected"
    /\ WorkGoes(w, "locked", NoReference)
    /\ status' = "IN_FLIGHT" /\ sentAt' = "recent"
    /\ UNCHANGED <<enabled, payoutRef, withdrawal, payoutDedup, payoutHook, payoutMishap>>

(* lockRow: the guarded PENDING -> IN_FLIGHT, with sentAt. *)
LockRow(w) ==
    /\ work[w].at = "selected"
    /\ IF status = "PENDING"
       THEN WorkGoes(w, "locked", NoReference) /\ status' = "IN_FLIGHT" /\ sentAt' = "recent"
       ELSE WorkGoes(w, "idle", NoReference) /\ UNCHANGED <<status, sentAt>>
    /\ UNCHANGED <<enabled, payoutRef, withdrawal, payoutDedup, payoutHook, payoutMishap>>

(* initiateTransfer reached Campay; the answer gets back, or does not. *)
PayoutAccepted(w) ==
    /\ work[w].at = "locked"
    /\ \E t \in Withdrawals :
           /\ withdrawal[t] = "none"
           /\ withdrawal' = [withdrawal EXCEPT ![t] = "sent"]
           /\ \/ WorkGoes(w, "answered", t) /\ UNCHANGED payoutLost
              \/ WorkGoes(w, "threw", NoReference) /\ payoutLost' = payoutLost + 1
    /\ UNCHANGED <<enabled, row, payoutDedup, payoutHook, workerRestarts>>

(* It did not: an open circuit, an HTTP error, a FAILED answer. *)
PayoutRefused(w) ==
    /\ work[w].at = "locked"
    /\ WorkGoes(w, "threw", NoReference)
    /\ UNCHANGED <<enabled, row, withdrawal, payoutDedup, payoutHook, payoutMishap>>

(* Mutant: an accepted transfer counts as done. *)
OnReference_MarksPaid(w) ==
    /\ work[w].at = "answered"
    /\ WorkGoes(w, "idle", NoReference)
    /\ status' = "PAID" /\ payoutRef' = work[w].t
    /\ UNCHANGED <<enabled, sentAt, withdrawal, payoutDedup, payoutHook, payoutMishap>>

(* onReference: update by id. *)
OnReference(w) ==
    /\ work[w].at = "answered"
    /\ WorkGoes(w, "idle", NoReference)
    /\ payoutRef' = work[w].t
    /\ UNCHANGED <<enabled, status, sentAt, withdrawal, payoutDedup, payoutHook, payoutMishap>>

(* onReference's own update threw, inside the same try. *)
OnReferenceFails(w) ==
    /\ work[w].at = "answered"
    /\ WorkGoes(w, "threw", NoReference)
    /\ payoutLost' = payoutLost + 1
    /\ UNCHANGED <<enabled, row, withdrawal, payoutDedup, payoutHook, workerRestarts>>

(* onFail: update by id, whatever the row has become.  Its own failure is  *)
(* swallowed, and leaves the row IN_FLIGHT.                                *)
OnFail(w) ==
    /\ work[w].at = "threw"
    /\ WorkGoes(w, "idle", NoReference)
    /\ \/ status' = "FAILED" /\ UNCHANGED payoutLost
       \/ UNCHANGED status /\ payoutLost' = payoutLost + 1
    /\ UNCHANGED <<enabled, payoutRef, sentAt, withdrawal, payoutDedup, payoutHook, workerRestarts>>

-----------------------------------------------------------------------------
(* Campay, and FinanceService.handleTransferWebhook *)

PayoutSettles(t) ==
    /\ withdrawal[t] = "sent"
    /\ \E end \in {"settled", "rejected"} : withdrawal' = [withdrawal EXCEPT ![t] = end]
    /\ UNCHANGED <<enabled, row, work, payoutDedup, payoutHook, payoutMishap>>

(* Mutant: whatever is not a success counts as final. *)
PayoutWebhookFirst_NotFinal(t) ==
    /\ withdrawal[t] # "none"
    /\ t \notin payoutDedup
    /\ payoutDedup' = payoutDedup \cup {t}
    /\ payoutHook' = [payoutHook EXCEPT ![t] = "first"]
    /\ UNCHANGED <<enabled, row, work, withdrawal, payoutMishap>>

(* Only a webhook with a final status reaches the dedup insert. *)
PayoutWebhookFirst(t) ==
    /\ withdrawal[t] \in {"settled", "rejected"}
    /\ t \notin payoutDedup
    /\ payoutDedup' = payoutDedup \cup {t}
    /\ payoutHook' = [payoutHook EXCEPT ![t] = "first"]
    /\ UNCHANGED <<enabled, row, work, withdrawal, payoutMishap>>

(* The row with this campayRef, if it is IN_FLIGHT. *)
FindPayout(t) ==
    /\ payoutHook[t] = "first"
    /\ payoutHook' = [payoutHook EXCEPT ![t] =
                 IF payoutRef = t /\ status = "IN_FLIGHT" THEN "flipping" ELSE "over"]
    /\ UNCHANGED <<enabled, row, work, withdrawal, payoutDedup, payoutMishap>>

(* The guarded flip to PAID or FAILED. *)
FlipPayout(t) ==
    /\ payoutHook[t] = "flipping"
    /\ payoutHook' = [payoutHook EXCEPT ![t] = "over"]
    /\ status' = (IF status # "IN_FLIGHT" THEN status
                  ELSE IF withdrawal[t] = "settled" THEN "PAID" ELSE "FAILED")
    /\ UNCHANGED <<enabled, payoutRef, sentAt, work, withdrawal, payoutDedup, payoutMishap>>

-----------------------------------------------------------------------------
(* The admin *)

(* Mutant: any row that is no longer on its way can be retried. *)
RetryPayout_Settled ==
    /\ status \in {"FAILED", "PAID"}
    /\ status' = "PENDING" /\ payoutRef' = NoReference /\ sentAt' = "null"
    /\ UNCHANGED <<enabled, work, withdrawal, payoutDedup, payoutHook, payoutMishap>>

(* retryVendorPayout, retryRiderPayout. *)
RetryPayout ==
    /\ status = "FAILED"
    /\ status' = "PENDING" /\ payoutRef' = NoReference /\ sentAt' = "null"
    /\ UNCHANGED <<enabled, work, withdrawal, payoutDedup, payoutHook, payoutMishap>>

(* manualMarkVendorPayoutPaid, manualMarkRiderPayoutPaid: the update. *)
MarksPaid(t) ==
    /\ status \in {"PENDING", "IN_FLIGHT", "FAILED"}
    /\ status' = "PAID" /\ payoutRef' = t
    /\ UNCHANGED <<enabled, sentAt, work, payoutDedup, payoutHook, payoutMishap>>

(* manualMarkPaid after the founder fired the transfer in the Campay    *)
(* UI: for a row the worker leaves alone, FAILED or in manual mode.        *)
ManualTransfer ==
    /\ status = "FAILED" \/ (status = "PENDING" /\ ~enabled)
    /\ \E t \in Withdrawals :
           withdrawal[t] = "none" /\ withdrawal' = [withdrawal EXCEPT ![t] = "settled"] /\ MarksPaid(t)

(* manualMarkPaid after the Campay UI shows that a transfer settled. *)
ManualMarkPaid ==
    \E t \in Withdrawals : withdrawal[t] = "settled" /\ MarksPaid(t) /\ UNCHANGED withdrawal

-----------------------------------------------------------------------------
PayoutAges ==
    /\ sentAt = "recent"
    /\ sentAt' = "old"
    /\ UNCHANGED <<enabled, status, payoutRef, work, withdrawal, payoutDedup, payoutHook, payoutMishap>>

(* A restart ends the sweeps and the webhooks in flight, and may come with *)
(* another setting.                                                        *)
WorkerRestart ==
    /\ workerRestarts < MaxWorkerCrashes
    /\ workerRestarts' = workerRestarts + 1
    /\ work' = [w \in Workers |-> WorkAtRest]
    /\ payoutHook' = [t \in Withdrawals |-> IF payoutHook[t] = "none" THEN "none" ELSE "over"]
    /\ enabled' \in Modes
    /\ UNCHANGED <<row, withdrawal, payoutDedup, payoutLost>>

PayoutSweep(w) ==
    \/ SelectPayout(w) \/ LockRow(w) \/ PayoutAccepted(w) \/ PayoutRefused(w)
    \/ OnReference(w) \/ OnReferenceFails(w) \/ OnFail(w)

PayoutWebhook(t) == FindPayout(t) \/ FlipPayout(t)

PayoutNext ==
    \/ \E w \in Workers : PayoutSweep(w)
    \/ \E t \in Withdrawals : PayoutSettles(t) \/ PayoutWebhookFirst(t) \/ PayoutWebhook(t)
    \/ RetryPayout \/ ManualTransfer \/ ManualMarkPaid
    \/ PayoutAges
    \/ WorkerRestart

PayoutSpec == PayoutInit /\ [][PayoutNext]_payoutVars

(* The cron fires and node finishes what it started; Campay and the admin  *)
(* need not do anything.                                                   *)
PayoutFairness ==
    /\ \A w \in Workers : WF_payoutVars(PayoutSweep(w))
    /\ \A t \in Withdrawals : WF_payoutVars(PayoutWebhook(t))
    /\ WF_payoutVars(PayoutAges)

PayoutFairSpec == PayoutSpec /\ PayoutFairness

(* Mutant: only failures are listed. *)
PayoutEscalated_FailedOnly == status = "FAILED"

(* listEscalations, for payouts. *)
PayoutEscalated == status = "FAILED" \/ (status = "IN_FLIGHT" /\ sentAt = "old")

-----------------------------------------------------------------------------
(* "FAILED: Campay rejected": a row the admin may retry has no transfer    *)
(* that pays it, until an answer is lost.                                  *)
FailedIsUnpaid ==
    payoutLost = 0 /\ status = "FAILED" => \A t \in Withdrawals : ~Pays(t)

(* "PAID: confirmed paid by Campay", whatever was lost. *)
PaidIsConfirmed == status = "PAID" => \E t \in Withdrawals : withdrawal[t] = "settled"

OnePays == \A t, u \in Withdrawals : Pays(t) /\ Pays(u) => t = u

(* The vendor is paid once, however sweeps, webhooks, the admin and        *)
(* restarts interleave: two transfers are on their way or done only after  *)
(* an answer was lost.                                                     *)
PaidOnce == payoutLost = 0 => OnePays

(* "Payout is already PAID": nothing takes PAID away again, until an       *)
(* answer is lost.                                                         *)
PaidIsTerminal == [][payoutLost = 0 /\ status = "PAID" => status' = "PAID"]_payoutVars

(* "Surfaces failed and stuck money movements": whatever Campay does,      *)
(* whatever is lost, and after any restart, a payout is later PAID, or on  *)
(* the escalation list, or the founder pays by hand.                       *)
PayoutPaidOrSurfaces == []<>(status = "PAID" \/ PayoutEscalated \/ ~enabled)

-----------------------------------------------------------------------------
(* Why: the parts of the inductive invariant, with no answer lost. *)

WorkHolds(w) == work[w].at \in {"locked", "answered", "threw"}

(* IN_FLIGHT is a lock: one sweep at most is past it, and no reference is  *)
(* stored then.  An admin can confirm the row under a sweep that has its   *)
(* answer, never under one that has none.                                  *)
PayoutLockInv ==
    /\ \A w \in Workers : WorkHolds(w) =>
           /\ \/ status = "IN_FLIGHT" /\ payoutRef = NoReference
              \/ status = "PAID" /\ work[w].at = "answered"
           /\ \A v \in Workers : WorkHolds(v) => v = w
    /\ status = "PENDING" => payoutRef = NoReference

(* A live transfer is under the lock, and known to whoever holds it. *)
PaysInv ==
    \A t \in Withdrawals : Pays(t) =>
        /\ status \in {"IN_FLIGHT", "PAID"}
        /\ status = "IN_FLIGHT" => payoutRef \in {NoReference, t}
        /\ \A w \in Workers : WorkHolds(w) => work[w].at = "answered" /\ work[w].t = t

(* A webhook past its lookup is about the reference that is stored. *)
PayoutHookInv ==
    \A t \in Withdrawals :
        /\ payoutHook[t] \in {"first", "flipping"} => withdrawal[t] \in {"settled", "rejected"}
        /\ payoutHook[t] = "flipping" =>
               status = "PAID" \/ (status = "IN_FLIGHT" /\ payoutRef = t)

SentInv == PayoutLockInv /\ PaysInv /\ PayoutHookInv /\ OnePays
=============================================================================
