----------------------------- MODULE PayoutFloat -----------------------------
(***************************************************************************)
(* PayoutTransferWorker.sweepPendingTransfers over several payout rows and *)
(* one Campay float.  A sweep reads the balance once and counts down from  *)
(* it; other replicas' sweeps, refunds and admins spend from the same      *)
(* float.  The balance's 60 s cache is never hit: the sweep, every five    *)
(* minutes, is the only reader.  Without transfersEnabled nothing moves.   *)
(* Module PayoutTransfers follows one row through all of this in detail.   *)
(***************************************************************************)
EXTENDS Integers, FiniteSets, FiniteSetsExt

CONSTANTS
    Sweeps,      \* sweeps in progress at once
    VendorRows,  \* payout rows of vendors, taken in the order of their numbers
    RiderRows,   \* ... and of riders
    NetXAF,      \* what each row pays
    MaxFloat,    \* the platform's balance is at most this (a model bound)
    MaxUnseen    \* what may leave the float unseen by one sweep (a model bound)

FloatRows == VendorRows \cup RiderRows
ASSUME FloatAssumption ==
    /\ FloatRows \subseteq Nat /\ VendorRows \cap RiderRows = {}
    /\ NetXAF \in [FloatRows -> Nat \ {0}]
    /\ MaxFloat \in Nat /\ MaxUnseen \in Nat

VARIABLES
    float,      \* the balance at Campay
    due,        \* the status of each row
    fsweep,     \* where each sweep is, the rows it has left, its remaining balance
    spent,      \* for each sweep, what has left the float unseen since its reading
    bounced     \* 1 once Campay refused a transfer for want of float with nothing unseen

floatVars == <<float, due, fsweep, spent, bounced>>

FloatStep == {"idle", "vendors", "vendor", "riders", "rider", "transfer"}
Resting == [at |-> "idle", back |-> "idle", todo |-> {}, row |-> 0, left |-> 0]

FloatTypeOK ==
    /\ float \in 0..MaxFloat
    /\ due \in [FloatRows -> {"PENDING", "IN_FLIGHT", "FAILED"}]
    /\ fsweep \in [Sweeps -> [at : FloatStep, back : FloatStep, todo : SUBSET FloatRows,
                              row : FloatRows \cup {0}, left : Int]]
    /\ spent \in [Sweeps -> 0..MaxUnseen]
    /\ bounced \in {0, 1}

FloatInit ==
    /\ float \in 0..MaxFloat
    /\ due = [r \in FloatRows |-> "PENDING"]
    /\ fsweep = [s \in Sweeps |-> Resting]
    /\ spent = [s \in Sweeps |-> 0]
    /\ bounced = 0

-----------------------------------------------------------------------------
AtStep(s, step) == fsweep[s].at = step

(* xaf leaves the float; every sweep under way but those in S has not seen *)
(* it.                                                                     *)
Leaves(xaf, S) ==
    /\ float' = float - xaf
    /\ spent' = [s \in Sweeps |-> IF s \in S \/ AtStep(s, "idle") THEN spent[s]
                                                                 ELSE spent[s] + xaf]
    /\ \A s \in Sweeps : spent'[s] <= MaxUnseen

(* getBalance; a failure skips the sweep. *)
GetBalance(s) ==
    /\ AtStep(s, "idle")
    /\ fsweep' = [fsweep EXCEPT ![s].at = "vendors", ![s].left = float]
    /\ UNCHANGED <<float, due, spent, bounced>>

PendingOf(rows) == {r \in rows : due[r] = "PENDING"}

(* One query for the vendors' rows and, after those, one for the riders'. *)
TakeRows(s) ==
    /\ \/ /\ AtStep(s, "vendors")
          /\ fsweep' = [fsweep EXCEPT ![s].at = "vendor", ![s].todo = PendingOf(VendorRows)]
       \/ /\ AtStep(s, "riders")
          /\ fsweep' = [fsweep EXCEPT ![s].at = "rider", ![s].todo = PendingOf(RiderRows)]
    /\ UNCHANGED <<float, due, spent, bounced>>

(* Mutant: a row is taken up although it is more than what is left.        *)
TakeRow_Unchecked(s) ==
    LET r == Min(fsweep[s].todo) IN
    /\ fsweep[s].at \in {"vendor", "rider"} /\ fsweep[s].todo # {}
    /\ \/ /\ due[r] = "PENDING"
          /\ due' = [due EXCEPT ![r] = "IN_FLIGHT"]
          /\ fsweep' = [fsweep EXCEPT ![s].at = "transfer", ![s].back = fsweep[s].at,
                                      ![s].row = r, ![s].todo = @ \ {r}]
       \/ /\ due[r] # "PENDING"
          /\ fsweep' = [fsweep EXCEPT ![s].todo = @ \ {r}]
          /\ UNCHANGED due
    /\ UNCHANGED <<float, spent, bounced>>

(* A row beyond the remaining balance is passed over, one that another     *)
(* sweep has locked is race_lost.                                          *)
TakeRow(s) ==
    LET r == Min(fsweep[s].todo) IN
    /\ fsweep[s].at \in {"vendor", "rider"} /\ fsweep[s].todo # {}
    /\ \/ /\ NetXAF[r] <= fsweep[s].left /\ due[r] = "PENDING"
          /\ due' = [due EXCEPT ![r] = "IN_FLIGHT"]
          /\ fsweep' = [fsweep EXCEPT ![s].at = "transfer", ![s].back = fsweep[s].at,
                                      ![s].row = r, ![s].todo = @ \ {r}]
       \/ /\ NetXAF[r] > fsweep[s].left \/ due[r] # "PENDING"
          /\ fsweep' = [fsweep EXCEPT ![s].todo = @ \ {r}]
          /\ UNCHANGED due
    /\ UNCHANGED <<float, spent, bounced>>

(* Mutant: the transfer is not deducted. *)
Initiated_NotCounted(s) ==
    LET r == fsweep[s].row IN
    /\ AtStep(s, "transfer") /\ NetXAF[r] <= float
    /\ Leaves(NetXAF[r], {s})
    /\ fsweep' = [fsweep EXCEPT ![s].at = fsweep[s].back, ![s].back = "idle", ![s].row = 0]
    /\ UNCHANGED <<due, bounced>>

(* 'initiated': Campay took it, and the sweep counts it. *)
Initiated(s) ==
    LET r == fsweep[s].row IN
    /\ AtStep(s, "transfer") /\ NetXAF[r] <= float
    /\ Leaves(NetXAF[r], {s})
    /\ fsweep' = [fsweep EXCEPT ![s].at = fsweep[s].back, ![s].back = "idle",
                                ![s].row = 0, ![s].left = @ - NetXAF[r]]
    /\ UNCHANGED <<due, bounced>>

(* 'failed': Campay refused it, or took it and the answer was lost.        *)
Failed(s) ==
    LET r == fsweep[s].row IN
    /\ AtStep(s, "transfer")
    /\ due' = [due EXCEPT ![r] = "FAILED"]
    /\ fsweep' = [fsweep EXCEPT ![s].at = fsweep[s].back, ![s].back = "idle", ![s].row = 0]
    /\ \/ NetXAF[r] <= float /\ Leaves(NetXAF[r], {}) /\ UNCHANGED bounced
       \/ NetXAF[r] <= float /\ UNCHANGED <<float, spent, bounced>>
       \/ /\ NetXAF[r] > float
          /\ bounced' = IF spent[s] = 0 THEN 1 ELSE bounced
          /\ UNCHANGED <<float, spent>>

RowsDone(s) ==
    /\ fsweep[s].at \in {"vendor", "rider"} /\ fsweep[s].todo = {}
    /\ \/ AtStep(s, "vendor") /\ fsweep' = [fsweep EXCEPT ![s].at = "riders"] /\ UNCHANGED spent
       \/ /\ AtStep(s, "rider") /\ fsweep' = [fsweep EXCEPT ![s] = Resting]
          /\ spent' = [spent EXCEPT ![s] = 0]
    /\ UNCHANGED <<float, due, bounced>>

(* RefundProcessor, and the founder in the Campay UI. *)
OthersSpend ==
    /\ float > 0 /\ Leaves(1, {})
    /\ UNCHANGED <<due, fsweep, bounced>>

CollectArrives ==
    /\ float < MaxFloat /\ float' = float + 1
    /\ UNCHANGED <<due, fsweep, spent, bounced>>

FloatRetry ==
    /\ \E r \in FloatRows : due[r] = "FAILED" /\ due' = [due EXCEPT ![r] = "PENDING"]
    /\ UNCHANGED <<float, fsweep, spent, bounced>>

FloatSweep(s) ==
    GetBalance(s) \/ TakeRows(s) \/ TakeRow(s) \/ Initiated(s) \/ Failed(s) \/ RowsDone(s)

FloatNext ==
    \/ \E s \in Sweeps : FloatSweep(s)
    \/ OthersSpend \/ CollectArrives \/ FloatRetry

FloatSpec == FloatInit /\ [][FloatNext]_floatVars

-----------------------------------------------------------------------------
(* "We don't overcommit within the same tick": what a sweep believes is    *)
(* left is there, but for what left the float unseen since its reading.    *)
FloatIsCounted ==
    \A s \in Sweeps : ~AtStep(s, "idle") => fsweep[s].left <= float + spent[s]

(* No transfer bounces for want of float unless money left unseen: through *)
(* another replica's sweep, a refund, or a transfer whose answer was lost. *)
NoNeedlessBounce == bounced = 0

FloatSafe == FloatIsCounted /\ NoNeedlessBounce
=============================================================================
