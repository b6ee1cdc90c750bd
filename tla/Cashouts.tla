------------------------------- MODULE Cashouts -------------------------------
(***************************************************************************)
(* What the platform owes one payee and how it becomes payout rows: the    *)
(* balance FinanceService derives from the ledger, the weekly vendor cron, *)
(* the daily rider cron, and the cashout requests of an INFORMAL vendor    *)
(* with the admin's decision.  What then happens to a payout row is module *)
(* PayoutTransfers; here it only changes status.                           *)
(*                                                                         *)
(* A handler reads, awaits and writes, so each is a few steps of h, and    *)
(* several overlap: cron replicas, admins, the vendor's own taps.  `now`   *)
(* counts what happened; everything in the past is at or before it.        *)
(***************************************************************************)
EXTENDS Integers, Sequences, FiniteSets, FiniteSetsExt

CONSTANTS
    Ledgers,      \* what may be booked for the payee: orders, and penalties below 0
    MaxPayouts,   \* payout rows (a model bound)
    MaxRequests,  \* cashout requests (a model bound)
    MaxHandlers,  \* calls and cron ticks in progress at once (a model bound)
    Kinds,        \* the kinds of payee to consider
    MinPayout     \* MIN_VENDOR_PAYOUT_XAF, MIN_RIDER_PAYOUT_XAF, MIN_CASHOUT_XAF

ASSUME MoneyAssumption ==
    /\ Ledgers \subseteq Seq(Int \ {0})
    /\ MinPayout \in Nat \ {0}
ASSUME BoundAssumption ==
    /\ {MaxPayouts, MaxRequests, MaxHandlers} \subseteq Nat
    /\ Kinds \subseteq {"INFORMAL", "FORMAL", "RIDER"}

VARIABLES
    kind,      \* INFORMAL vendor, SEMI_FORMAL or RESTAURANT vendor, or rider
    amount,    \* the leg on VENDOR_PAYABLE / RIDER_PAYABLE, its sign turned
    bookedAt,  \* createdAt of the ledger legs of each entry, 0 if none
    tag,       \* Order.payoutId
    payout,    \* the VendorPayout / RiderPayout rows
    request,   \* the VendorCashoutRequest rows
    hs,        \* where each handler is and what it has read
    now,
    stale,     \* 1 once a handler saw two cutoffs: one in its balance, one later
    late,      \* 1 once a sweep counted an entry booked after it began, or a
               \* penalty fell between an approval's balance and its period's end
    overlap    \* 1 once two calls were about one request, or two made one

world  == <<kind, amount, bookedAt>>
rows   == <<tag, payout, request>>
ghosts == <<stale, late, overlap>>
cashoutVars   == <<world, rows, hs, now, ghosts>>

(* Ids in the order of creation; no payout and no request is 0. *)
Payouts == 1..MaxPayouts
Requests == 1..MaxRequests
Handlers == 1..MaxHandlers
NoRow == 0

Entries == DOMAIN amount
Orders == {e \in Entries : amount[e] > 0}

HandlerStep == {"idle", "balance", "disputes", "commit", "reject", "create"}
(* PENDING or FAILED; IN_FLIGHT or PAID. *)
PayoutStatus == {"none", "unsent", "sent"}
RequestStatus == {"none", "PENDING_APPROVAL", "APPROVED", "REJECTED"}

CashoutTypeOK ==
    /\ kind \in Kinds /\ amount \in Ledgers
    /\ bookedAt \in [Entries -> Nat]
    /\ tag \in [Orders -> Payouts \cup {NoRow}]
    /\ payout \in [Payouts -> [status : PayoutStatus, start : Nat, end : Nat, at : Nat, net : Int]]
    /\ request \in [Requests -> [status : RequestStatus, payout : Payouts \cup {NoRow}]]
    /\ hs \in [Handlers -> [at : HandlerStep, req : Requests \cup {NoRow},
                            start : Nat, end : Nat, bal : Int]]
    /\ now \in Nat
    /\ stale \in {0, 1} /\ late \in {0, 1} /\ overlap \in {0, 1}

CashoutAtRest == [at |-> "idle", req |-> NoRow, start |-> 0, end |-> 0, bal |-> 0]

CashoutInit ==
    /\ kind \in Kinds /\ amount \in Ledgers
    /\ bookedAt = [e \in Entries |-> 0]
    /\ tag = [o \in Orders |-> NoRow]
    /\ payout = [p \in Payouts |-> [status |-> "none", start |-> 0, end |-> 0, at |-> 0, net |-> 0]]
    /\ request = [r \in Requests |-> [status |-> "none", payout |-> NoRow]]
    /\ hs = [h \in Handlers |-> CashoutAtRest]
    /\ now = 1
    /\ stale = 0 /\ late = 0 /\ overlap = 0

-----------------------------------------------------------------------------
(* FinanceService.getVendorBalance, getRiderBalance *)

Rows == {p \in Payouts : payout[p].status # "none"}
LeftForCampay == {p \in Rows : payout[p].status = "sent"}

(* periodEnd of the last payout PAID or IN_FLIGHT; 0, before everything,   *)
(* stands for "no prior payout" and for createdAt of the payee.            *)
Cutoff == Max({0} \cup {payout[p].end : p \in LeftForCampay})

(* val[1] + ... + val[n] *)
SumOf(val, n) ==
    LET sum[i \in 0..n] == IF i = 0 THEN 0 ELSE sum[i - 1] + val[i] IN sum[n]

SumBooked(S) == SumOf([e \in Entries |-> IF e \in S THEN amount[e] ELSE 0], Len(amount))
SumPaid(S) == SumOf([p \in Payouts |-> IF p \in S THEN payout[p].net ELSE 0], MaxPayouts)

(* Mutant: the debits of payouts are left out of the sum. *)
Balance_CreditsOnly == SumBooked({e \in Entries : bookedAt[e] > Cutoff})

(* The payee's legs after the cutoff: what was booked, less the debits     *)
(* that payouts made, each dated when its row was written.                 *)
Balance ==
    LET cutoff == Cutoff IN
    SumBooked({e \in Entries : bookedAt[e] > cutoff})
    - SumPaid({p \in Rows : payout[p].at > cutoff})

-----------------------------------------------------------------------------
Is(h, step) == hs[h].at = step

(* A new call or tick is the first handler at rest: which one is no matter. *)
Begins(h) == Is(h, "idle") /\ \A g \in 1..(h - 1) : ~Is(g, "idle")

Stops(h) == hs' = [hs EXCEPT ![h] = CashoutAtRest]
IsPending(r) == request[r].status = "PENDING_APPROVAL"

(* Another call is at work on request r, or on making one. *)
Overlaps(r) ==
    overlap' = IF \E g \in Handlers : IF r = NoRow THEN Is(g, "create") ELSE hs[g].req = r
               THEN 1 ELSE overlap

SweepStart(h) ==
    /\ Begins(h)
    /\ hs' = [hs EXCEPT ![h] = [CashoutAtRest EXCEPT !.at = "balance", !.end = now]]
    /\ UNCHANGED <<world, rows, now, ghosts>>

(* scheduleWeeklyVendorPayouts and scheduleDailyRiderPayouts take the payee *)
(* up, with the sweep's own start as the period's end; INFORMAL vendors    *)
(* are left to their requests.                                             *)
VendorCronStart(h) == kind = "FORMAL" /\ SweepStart(h)
RiderCronStart(h) == kind = "RIDER" /\ SweepStart(h)

(* approveCashoutRequest: the request, if it is pending. *)
ApproveStart(h, r) ==
    /\ Begins(h) /\ IsPending(r)
    /\ hs' = [hs EXCEPT ![h] = [CashoutAtRest EXCEPT !.at = "balance", !.req = r]]
    /\ Overlaps(r)
    /\ UNCHANGED <<world, rows, now, stale, late>>

(* Mutant: the minimum is compared the wrong way round. *)
ReadBalance_Above(h) ==
    /\ Is(h, "balance")
    /\ IF Balance >= MinPayout THEN Stops(h)
       ELSE hs' = [hs EXCEPT ![h].at = "disputes", ![h].bal = Balance, ![h].start = Cutoff]
    /\ UNCHANGED <<world, rows, now, ghosts>>

(* Both stop at a balance that is not positive or below the minimum.  (An   *)
(* approval notes in `end`, which it sets later, when it read.)            *)
ReadBalance(h) ==
    /\ Is(h, "balance")
    /\ IF Balance < MinPayout THEN Stops(h) /\ UNCHANGED late
       ELSE /\ hs' = [hs EXCEPT ![h].at = "disputes", ![h].bal = Balance, ![h].start = Cutoff,
                               ![h].end = IF hs[h].req = NoRow THEN hs[h].end ELSE now]
            /\ late' = IF hs[h].req = NoRow /\ (\E e \in Entries : bookedAt[e] > hs[h].end)
                       THEN 1 ELSE late
    /\ UNCHANGED <<world, rows, now, stale, overlap>>

PenaltyAfter(t) == \E e \in Entries : amount[e] < 0 /\ bookedAt[e] > t

(* No payout to a vendor while a refund is queued, as it may be whenever    *)
(* one looks; then the last payout again, for periodStart.  An approval    *)
(* ends its period here.                                                   *)
ReadPeriod(h) ==
    /\ Is(h, "disputes")
    /\ \/ kind # "RIDER" /\ Stops(h) /\ UNCHANGED <<stale, late>>
       \/ /\ hs' = [hs EXCEPT ![h].at = "commit", ![h].start = Cutoff,
                                ![h].end = IF hs[h].req = NoRow THEN hs[h].end ELSE now]
          /\ stale' = IF Cutoff = hs[h].start THEN stale ELSE 1
          /\ late' = IF hs[h].req # NoRow /\ PenaltyAfter(hs[h].end) THEN 1 ELSE late
    /\ UNCHANGED <<world, rows, now, overlap>>

(* Mutant: no unique (payee, periodStart). *)
StartIsTaken_Never(s) == FALSE

(* @@unique([vendorId, periodStart]), which the crons also look up. *)
StartIsTaken(s) == \E p \in Rows : payout[p].start = s

(* Mutant: lt instead of lte. *)
Listed_Open(o, start, end) == tag[o] = NoRow /\ start < bookedAt[o] /\ bookedAt[o] < end

(* The orders of the period that no payout lists yet. *)
Listed(o, start, end) == tag[o] = NoRow /\ start < bookedAt[o] /\ bookedAt[o] <= end

(* The transaction: the row, its pair of ledger legs, the orders of the    *)
(* period, and the request by its id.                                      *)
CommitPayout(h) ==
    LET me == hs[h] IN
    /\ Is(h, "commit")
    /\ IF StartIsTaken(me.start)
       THEN UNCHANGED <<rows, now>>
       ELSE \E p \in Payouts :
              /\ p = Cardinality(Rows) + 1
              /\ payout' = [payout EXCEPT ![p] =
                     [status |-> "unsent", start |-> me.start, end |-> me.end,
                      at |-> now + 1, net |-> me.bal]]
              /\ now' = now + 1
              /\ tag' = [o \in Orders |->
                     IF Listed(o, me.start, me.end) THEN p ELSE tag[o]]
              /\ request' = IF me.req = NoRow THEN request
                     ELSE [request EXCEPT ![me.req] = [status |-> "APPROVED", payout |-> p]]
    /\ Stops(h)
    /\ UNCHANGED <<world, ghosts>>

(* Mutant: any request can be rejected. *)
RejectStart_Unchecked(h, r) ==
    /\ Begins(h) /\ request[r].status # "none"
    /\ hs' = [hs EXCEPT ![h] = [CashoutAtRest EXCEPT !.at = "reject", !.req = r]]
    /\ Overlaps(r)
    /\ UNCHANGED <<world, rows, now, stale, late>>

(* rejectCashoutRequest: the check, then an update by id. *)
RejectStart(h, r) ==
    /\ Begins(h) /\ IsPending(r)
    /\ hs' = [hs EXCEPT ![h] = [CashoutAtRest EXCEPT !.at = "reject", !.req = r]]
    /\ Overlaps(r)
    /\ UNCHANGED <<world, rows, now, stale, late>>

(* Mutant: a status the column does not have. *)
Reject_Label(h) ==
    /\ Is(h, "reject")
    /\ request' = [request EXCEPT ![hs[h].req].status = "REFUSED"]
    /\ Stops(h)
    /\ UNCHANGED <<world, tag, payout, now, ghosts>>

Reject(h) ==
    /\ Is(h, "reject")
    /\ request' = [request EXCEPT ![hs[h].req].status = "REJECTED"]
    /\ Stops(h)
    /\ UNCHANGED <<world, tag, payout, now, ghosts>>

(* Mutant: the vendor's pending request is not looked for. *)
RequestStart_Unchecked(h) ==
    /\ Begins(h) /\ kind = "INFORMAL"
    /\ hs' = [hs EXCEPT ![h] = [CashoutAtRest EXCEPT !.at = "create"]]
    /\ Overlaps(NoRow)
    /\ UNCHANGED <<world, rows, now, stale, late>>

(* requestVendorCashout: INFORMAL, ACTIVE, none pending. *)
RequestStart(h) ==
    /\ Begins(h) /\ kind = "INFORMAL"
    /\ \A r \in Requests : ~IsPending(r)
    /\ hs' = [hs EXCEPT ![h] = [CashoutAtRest EXCEPT !.at = "create"]]
    /\ Overlaps(NoRow)
    /\ UNCHANGED <<world, rows, now, stale, late>>

(* ... and a positive balance. *)
CreateRequest(h) ==
    /\ Is(h, "create")
    /\ IF Balance <= 0 THEN UNCHANGED request
       ELSE \E r \in Requests :
              /\ request[r].status = "none" /\ \A q \in 1..(r - 1) : request[q].status # "none"
              /\ request' = [request EXCEPT ![r].status = "PENDING_APPROVAL"]
    /\ Stops(h)
    /\ UNCHANGED <<world, tag, payout, now, ghosts>>

-----------------------------------------------------------------------------
(* Around them *)

(* A delivery books the share, a refusal books the penalty. *)
Book(e) ==
    /\ bookedAt[e] = 0
    /\ amount[e] < 0 => kind # "RIDER"
    /\ now' = now + 1
    /\ bookedAt' = [bookedAt EXCEPT ![e] = now + 1]
    /\ UNCHANGED <<kind, amount, rows, hs, ghosts>>

(* The worker, the webhook and the admin, as in PayoutTransfers: the row   *)
(* leaves for Campay, and comes back when the transfer failed.             *)
PayoutMoves(p) ==
    /\ payout[p].status # "none"
    /\ payout' = [payout EXCEPT ![p].status = IF @ = "sent" THEN "unsent" ELSE "sent"]
    /\ UNCHANGED <<world, tag, request, hs, now, ghosts>>

PayoutIsMade(h) == ReadBalance(h) \/ ReadPeriod(h) \/ CommitPayout(h)

(* tryScheduleVendorPayout, tryScheduleRiderPayout and the approval are    *)
(* three copies of these steps.                                            *)
VendorSchedules(h) == kind = "FORMAL" /\ PayoutIsMade(h)
RiderSchedules(h) == kind = "RIDER" /\ PayoutIsMade(h)
Approves(h) == kind = "INFORMAL" /\ PayoutIsMade(h)

CashoutGoes(h) ==
    \/ VendorSchedules(h) \/ RiderSchedules(h) \/ Approves(h)
    \/ Reject(h) \/ CreateRequest(h)

CashoutNext ==
    \/ \E h \in Handlers :
           \/ VendorCronStart(h) \/ RiderCronStart(h) \/ RequestStart(h) \/ CashoutGoes(h)
           \/ \E r \in Requests : ApproveStart(h, r) \/ RejectStart(h, r)
    \/ \E e \in Entries : Book(e)
    \/ \E p \in Payouts : PayoutMoves(p)

CashoutSpec == CashoutInit /\ [][CashoutNext]_cashoutVars

(* The crons keep firing, and node finishes what it started. *)
CashoutFairness ==
    /\ WF_cashoutVars(\E h \in Handlers : VendorCronStart(h) \/ RiderCronStart(h))
    /\ \A h \in Handlers : WF_cashoutVars(CashoutGoes(h))

CashoutFairSpec == CashoutSpec /\ CashoutFairness

-----------------------------------------------------------------------------
(* What is shown. *)

(* listCashoutRequests, asked for those that are pending. *)
PendingList == {r \in Requests : IsPending(r)}

(* getVendorSelfView: the balance, whether a date of payment is shown, and *)
(* the request that locks an INFORMAL vendor's button.                     *)
VendorSelfView ==
    [balanceXAF |-> Balance,
     estimated  |-> kind # "INFORMAL" /\ Balance > 0,
     pendingCashoutRequestId |->
         IF kind = "INFORMAL" /\ PendingList # {} THEN Min(PendingList) ELSE NoRow]

(* getRiderSelfView *)
RiderSelfView == [balanceXAF |-> Balance, estimated |-> Balance > 0]

-----------------------------------------------------------------------------
Booked == {e \in Entries : bookedAt[e] > 0}
Earned == SumBooked(Booked \cap Orders)
PaidOut == SumPaid(Rows)
Owed == SumBooked(Booked) - PaidOut

(* "Must not double-pay": all payout rows together never exceed what the   *)
(* deliveries earned, however crons, admins and transfers overlap, until   *)
(* a payout leaves for Campay between a handler's two readings of it.      *)
PaidAtMostEarned == stale = 0 => PaidOut <= Earned

(* "Mon solde": the balance shown is never more than what is owed. *)
NeverOverstated ==
    stale = 0 /\ late = 0 =>
        (IF kind = "RIDER" THEN RiderSelfView ELSE VendorSelfView).balanceXAF <= Owed

(* "This request has already been resolved": what was decided stays, and   *)
(* only an approval made a payout, until two admins overlap.               *)
RejectedIsUnpaid ==
    overlap = 0 => \A r \in Requests :
        /\ request[r].payout # NoRow <=> request[r].status = "APPROVED"
        /\ \A q \in Requests : request[r].payout = request[q].payout
              => q = r \/ request[r].payout = NoRow

(* "Only one PENDING_APPROVAL request can exist at a time, so a truthy     *)
(* result means the CTA should be locked": the vendor's view names all     *)
(* that the admin's list holds, until two taps overlap.                    *)
OnePending ==
    overlap = 0 => PendingList \subseteq {VendorSelfView.pendingCashoutRequestId}

(* The periods leave no gap: an order older than the cutoff, which no      *)
(* later balance counts, is listed under a payout.                         *)
NoOrderFallsBetween == \A o \in Orders : bookedAt[o] \in 1..Cutoff => tag[o] # NoRow

(* What the cashout rows promise together. *)
CashoutsSafe ==
    /\ PaidAtMostEarned /\ NeverOverstated /\ NoOrderFallsBetween
    /\ RejectedIsUnpaid /\ OnePending

(* What a rider has earned ends in a payout row.  (A vendor also waits for *)
(* its refunds.)                                                           *)
EarnedIsScheduled ==
    kind = "RIDER" /\ RiderSelfView.estimated /\ Owed >= MinPayout ~> Rows # {}

(* "positive = platform owes vendor, negative = vendor owes platform". *)
NegativeIsDebt == Balance < 0 => Owed < 0
=============================================================================
