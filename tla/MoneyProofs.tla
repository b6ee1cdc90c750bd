----------------------------- MODULE MoneyProofs -----------------------------
(***************************************************************************)
(* The money that moves through Campay.  An order is booked once, for the  *)
(* collect that was paid, and stays PAID, until a call outlasts the lock;  *)
(* one prompt is open at a time until a call does, loses its answer, or    *)
(* dies with the process; a refund and a payout are made once until an     *)
(* answer of Campay is lost, and booked only for a transfer that was made; *)
(* and the circuit breaker goes by the failure count alone.  For any       *)
(* number of attempts, calls, sweeps, references, failures and restarts.   *)
(***************************************************************************)
EXTENDS MCMoney, CashoutProofs, FiniteSetTheorems, TLAPS

-----------------------------------------------------------------------------
(* A consumer's payment *)

(* Types, of what the invariants are about *)

MomoTyped ==
    /\ payStatus \in {"PENDING", "PROCESSING", "PAID", "FAILED"}
    /\ orderStatus \in {"PENDING", "CONFIRMED", "CANCELLED"}
    /\ reference \in Attempts \cup {NoAttempt}
    /\ lock \in Attempts \cup {NoAttempt}
    /\ payCall \in [Attempts -> CallStep]
    /\ collect \in [Attempts -> Collect]
    /\ payHook \in [Attempts -> [at : PayHookStep, st : HookStatus]]
    /\ bookings \in Nat
    /\ payCrashes \in Nat

(* An order nobody has tried to pay is well typed. *)
LEMMA InitMomo == MomoInit => MomoTyped
  BY DEF MomoInit, MomoTyped, CallStep, Collect, PayHookStep, HookStatus

(* Every step keeps the types. *)
LEMMA StepMomo == MomoTyped /\ [MomoNext]_momoVars => MomoTyped'
<1> SUFFICES ASSUME MomoTyped, [MomoNext]_momoVars PROVE MomoTyped'
  OBVIOUS
<1> USE DEF MomoTyped, CallStep, Collect, PayHookStep, HookStatus, payRow, trouble
<1>1. ASSUME NEW a \in Attempts, CheckOrder(a) \/ PayerAnswers(a) PROVE MomoTyped'
  BY <1>1 DEF CheckOrder, PayerAnswers
<1>2. ASSUME NEW a \in Attempts, PayWebhookFirst(a) PROVE MomoTyped'
  BY <1>2 DEF PayWebhookFirst, Reported
<1>3. ASSUME NEW a \in Attempts,
             AcquirePayLock(a) \/ CampayPrompts(a) \/ StoreCollect(a) \/ CollectFails(a)
      PROVE  MomoTyped'
  BY <1>3 DEF AcquirePayLock, CampayPrompts, StoreCollect, CollectFails
<1>4. ASSUME NEW a \in Attempts,
             FindCollect(a) \/ MarkFailed(a) \/ ReadPaidOrder(a) \/ BookPayment(a)
      PROVE  MomoTyped'
  BY <1>4 DEF FindCollect, MarkFailed, ReadPaidOrder, BookPayment
<1>5. CASE PayLockExpires
  BY <1>5 DEF PayLockExpires
<1>6. CASE CancelOrder
  BY <1>6 DEF CancelOrder
<1>7. CASE PaymentRestart
  BY <1>7 DEF PaymentRestart
<1>8. CASE UNCHANGED momoVars
  BY <1>8 DEF momoVars
<1> QED
  BY <1>1, <1>2, <1>3, <1>4, <1>5, <1>6, <1>7, <1>8 DEF MomoNext, Handler

-----------------------------------------------------------------------------
(* The row stands for its collect *)

(* No step takes back that a call was slower than the lock. *)
LEMMA MishapsStay == [MomoNext]_momoVars => mishaps \subseteq mishaps'
<1> SUFFICES ASSUME [MomoNext]_momoVars PROVE mishaps \subseteq mishaps'
  OBVIOUS
<1> USE DEF Happens, trouble
<1>1. ASSUME NEW a \in Attempts, CheckOrder(a) \/ PayerAnswers(a) \/ PayWebhookFirst(a)
      PROVE  mishaps \subseteq mishaps'
  BY <1>1 DEF CheckOrder, PayerAnswers, PayWebhookFirst
<1>2. ASSUME NEW a \in Attempts, Handler(a) PROVE mishaps \subseteq mishaps'
  BY <1>2 DEF Handler, AcquirePayLock, CampayPrompts, StoreCollect, CollectFails, FindCollect,
              MarkFailed, ReadPaidOrder, BookPayment
<1>3. CASE PayLockExpires \/ CancelOrder \/ PaymentRestart
  BY <1>3 DEF PayLockExpires, CancelOrder, PaymentRestart
<1>4. CASE UNCHANGED momoVars
  BY <1>4 DEF momoVars
<1> QED
  BY <1>1, <1>2, <1>3, <1>4 DEF MomoNext

(* Nothing is locked, stored or booked at first. *)
LEMMA InitMomoInv == MomoInit => MomoInv
  BY NoAttemptAssumption DEF MomoInit, MomoInv, PayLockInv, PayRowInv, PayHookInv

(* An initiateMomo call starts, and ends, only where the row is free. *)
LEMMA CallMomoInv ==
    ASSUME MomoTyped, PayLockInv, PayRowInv, PayHookInv, NEW a \in Attempts,
           CheckOrder(a) \/ AcquirePayLock(a) \/ CampayPrompts(a) \/ StoreCollect(a)
             \/ CollectFails(a) \/ PayerAnswers(a)
    PROVE  (PayLockInv /\ PayRowInv /\ PayHookInv)'
<1> USE NoAttemptAssumption
    DEF MomoTyped, PayLockInv, PayRowInv, PayHookInv, payRow, trouble, CallStep, Collect
<1>1. CASE CheckOrder(a)
  BY <1>1 DEF CheckOrder
<1>2. CASE AcquirePayLock(a)
  BY <1>2 DEF AcquirePayLock
<1>3. CASE CampayPrompts(a)
  BY <1>3 DEF CampayPrompts
<1>4. CASE StoreCollect(a)
  BY <1>4 DEF StoreCollect
<1>5. CASE CollectFails(a)
  BY <1>5 DEF CollectFails
<1>6. CASE PayerAnswers(a)
  BY <1>6 DEF PayerAnswers
<1> QED
  BY <1>1, <1>2, <1>3, <1>4, <1>5, <1>6

(* A webhook writes the row only for the collect the row stands for. *)
LEMMA HookMomoInv ==
    ASSUME MomoTyped, PayLockInv, PayRowInv, PayHookInv, NEW a \in Attempts,
           PayWebhookFirst(a) \/ FindCollect(a) \/ MarkFailed(a) \/ ReadPaidOrder(a)
             \/ BookPayment(a)
    PROVE  (PayLockInv /\ PayRowInv /\ PayHookInv)'
<1> USE NoAttemptAssumption
    DEF MomoTyped, PayLockInv, PayRowInv, PayHookInv, payRow, trouble, PayHookStep, HookStatus
<1>1. CASE PayWebhookFirst(a)
  BY <1>1 DEF PayWebhookFirst, Reported
<1>2. CASE FindCollect(a)
  BY <1>2 DEF FindCollect
<1>3. CASE MarkFailed(a)
  BY <1>3 DEF MarkFailed
<1>4. CASE ReadPaidOrder(a)
  BY <1>4 DEF ReadPaidOrder
<1>5. CASE BookPayment(a)
  BY <1>5 DEF BookPayment
<1> QED
  BY <1>1, <1>2, <1>3, <1>4, <1>5

(* Every step keeps the invariant, or is the slow call. *)
LEMMA StepMomoInv == MomoTyped /\ MomoInv /\ [MomoNext]_momoVars => MomoInv'
<1> SUFFICES ASSUME MomoTyped, [MomoNext]_momoVars, "slowCall" \notin mishaps',
                    PayLockInv, PayRowInv, PayHookInv
             PROVE  (PayLockInv /\ PayRowInv /\ PayHookInv)'
  BY MishapsStay DEF MomoInv
<1> USE DEF MomoTyped, PayLockInv, PayRowInv, PayHookInv, payRow, trouble
<1>1. ASSUME NEW a \in Attempts,
            CheckOrder(a) \/ Handler(a) \/ PayerAnswers(a) \/ PayWebhookFirst(a)
      PROVE  (PayLockInv /\ PayRowInv /\ PayHookInv)'
  <2> USE <1>1 DEF Handler
  <2>1. CASE CheckOrder(a) \/ AcquirePayLock(a) \/ CampayPrompts(a) \/ StoreCollect(a)
               \/ CollectFails(a) \/ PayerAnswers(a)
    BY <2>1, CallMomoInv
  <2>2. CASE PayWebhookFirst(a) \/ FindCollect(a) \/ MarkFailed(a) \/ ReadPaidOrder(a)
               \/ BookPayment(a)
    BY <2>2, HookMomoInv
  <2> QED
    BY <2>1, <2>2
<1>2. CASE PayLockExpires
  <2>1. \A a \in Attempts : payCall[a] \notin {"checked", "calling"}
    BY <1>2 DEF PayLockExpires, Happens
  <2> QED
    BY <1>2, <2>1 DEF PayLockExpires
<1>3. CASE CancelOrder
  BY <1>3 DEF CancelOrder
<1>4. CASE PaymentRestart
  BY <1>4 DEF PaymentRestart
<1>5. CASE UNCHANGED momoVars
  BY <1>5 DEF momoVars
<1> QED
  BY <1>1, <1>2, <1>3, <1>4, <1>5 DEF MomoNext

(* Until a call outlasts the lock, the row stands for its collect. *)
LEMMA MomoInvAlways == MomoSpec => [](MomoTyped /\ MomoInv)
  BY InitMomo, StepMomo, InitMomoInv, StepMomoInv, PTL DEF MomoSpec

(* What the webhook books is the collect the consumer paid, and it books   *)
(* it once: initiateMomo, handleWebhook and onPaymentSucceeded together.   *)
THEOREM BookedAsPaidAlways == MomoSpec => []BookedAsPaid
<1>1. ASSUME MomoTyped, MomoInv PROVE BookedAsPaid
  <2> DEFINE Paid == {a \in Attempts : collect[a] = "paid"}
  <2>1. CASE "slowCall" \in mishaps
    BY <2>1 DEF BookedAsPaid
  <2>2. CASE PayRowInv
    <3>1. payStatus = "PAID" => reference \in Paid /\ reference # NoAttempt
      BY <1>1, <2>2 DEF PayRowInv, MomoTyped
    <3>2. IsFiniteSet(Paid) /\ Cardinality(Paid) \in Nat
      BY AttemptsAssumption, FS_Subset, FS_CardinalityType
    <3>3. payStatus = "PAID" => Cardinality(Paid) # 0
      BY <3>1, <3>2, FS_EmptySet
    <3>4. bookings <= Cardinality(Paid) /\ bookings <= 1
      BY <2>2, <3>2, <3>3 DEF PayRowInv
    <3> QED
      BY <2>2, <3>1, <3>4 DEF BookedAsPaid, PayRowInv
  <2> QED
    BY <1>1, <2>1, <2>2 DEF MomoInv
<1> QED
  BY MomoInvAlways, <1>1, PTL

(* No late answer of initiateCollect and no failed attempt's webhook takes *)
(* PAID away.                                                              *)
THEOREM PaidStaysAlways == MomoSpec => PaidStays
<1>1. ASSUME MomoTyped, MomoInv, [MomoNext]_momoVars, payStatus = "PAID", "slowCall" \notin mishaps
      PROVE  payStatus' = "PAID"
  <2> USE <1>1 DEF MomoInv, PayLockInv, PayRowInv, PayHookInv, payRow
  <2>1. ASSUME NEW a \in Attempts, StoreCollect(a) PROVE payStatus' = "PAID"
    BY <2>1 DEF StoreCollect
  <2>2. ASSUME NEW a \in Attempts, MarkFailed(a) PROVE payStatus' = "PAID"
    BY <2>2 DEF MarkFailed
  <2>3. ASSUME NEW a \in Attempts, BookPayment(a) PROVE payStatus' = "PAID"
    BY <2>3 DEF BookPayment
  <2>4. ASSUME NEW a \in Attempts,
               \/ CheckOrder(a) \/ PayerAnswers(a) \/ PayWebhookFirst(a) \/ AcquirePayLock(a)
               \/ CampayPrompts(a) \/ CollectFails(a) \/ FindCollect(a) \/ ReadPaidOrder(a)
        PROVE  payStatus' = "PAID"
    BY <2>4 DEF CheckOrder, PayerAnswers, PayWebhookFirst, AcquirePayLock, CampayPrompts,
                CollectFails, FindCollect, ReadPaidOrder
  <2>5. CASE PayLockExpires \/ CancelOrder \/ PaymentRestart
    BY <2>5 DEF PayLockExpires, CancelOrder, PaymentRestart
  <2>6. CASE UNCHANGED momoVars
    BY <2>6 DEF momoVars
  <2> QED
    BY <2>1, <2>2, <2>3, <2>4, <2>5, <2>6 DEF MomoNext, Handler
<1>2. MomoTyped /\ MomoInv /\ [MomoNext]_momoVars
        => [payStatus = "PAID" => payStatus' = "PAID" \/ "slowCall" \in mishaps]_momoVars
  BY <1>1
<1> QED
  BY MomoInvAlways, <1>2, PTL DEF PaidStays, MomoSpec

-----------------------------------------------------------------------------
(* One prompt at a time *)

(* No prompt is open at first. *)
LEMMA InitPrompt == MomoInit => PromptInv
  BY DEF MomoInit, PromptInv

(* A prompt opens only for the call at Campay, and the row takes another   *)
(* reference only when the collect it stood for was refused.               *)
LEMMA StepPrompt == MomoTyped /\ MomoInv /\ PromptInv /\ [MomoNext]_momoVars => PromptInv'
<1> SUFFICES ASSUME MomoTyped, MomoInv, PromptInv, [MomoNext]_momoVars,
                    mishaps' \cap {"slowCall", "lostAnswer"} = {}, ~(payCrashes' > 0),
                    NEW b \in Attempts, collect'[b] \in {"prompted", "paid"}
             PROVE  payCall'[b] = "calling" \/ reference' = b
  BY DEF PromptInv
<1>1. mishaps \cap {"slowCall", "lostAnswer"} = {}
  BY MishapsStay
<1>2. PayLockInv /\ PayRowInv /\ PayHookInv
  BY <1>1 DEF MomoInv
<1>3. CASE PaymentRestart
  BY <1>3 DEF PaymentRestart, MomoTyped
<1>4. CASE ~PaymentRestart
  <2>1. ~(payCrashes > 0)
    <3>1. ASSUME NEW a \in Attempts,
                CheckOrder(a) \/ Handler(a) \/ PayerAnswers(a) \/ PayWebhookFirst(a)
          PROVE  payCrashes' = payCrashes
      BY <3>1
         DEF Handler, CheckOrder, AcquirePayLock, CampayPrompts, StoreCollect, CollectFails,
                  FindCollect, MarkFailed, ReadPaidOrder, BookPayment, PayerAnswers,
                  PayWebhookFirst, trouble
    <3>2. CASE PayLockExpires \/ CancelOrder
      BY <3>2 DEF PayLockExpires, CancelOrder, trouble
    <3>3. CASE UNCHANGED momoVars
      BY <3>3 DEF momoVars, trouble
    <3> QED
      BY <1>4, <3>1, <3>2, <3>3 DEF MomoNext
  <2>2. collect[b] \in {"prompted", "paid"} => payCall[b] = "calling" \/ reference = b
    BY <1>1, <2>1 DEF PromptInv
  <2> USE <1>2, <2>2 DEF MomoTyped, payRow, trouble, Collect, CallStep
  <2>3. ASSUME NEW a \in Attempts, StoreCollect(a)
        PROVE  payCall'[b] = "calling" \/ reference' = b
    BY <2>3, NoAttemptAssumption DEF StoreCollect, PayLockInv, PayRowInv
  <2>4. ASSUME NEW a \in Attempts, CollectFails(a)
        PROVE  payCall'[b] = "calling" \/ reference' = b
    BY <2>4 DEF CollectFails, Happens
  <2>5. ASSUME NEW a \in Attempts, BookPayment(a)
        PROVE  payCall'[b] = "calling" \/ reference' = b
    BY <2>5 DEF BookPayment, PayHookInv
  <2>6. ASSUME NEW a \in Attempts, CampayPrompts(a) \/ PayerAnswers(a)
        PROVE  payCall'[b] = "calling" \/ reference' = b
    BY <2>6 DEF CampayPrompts, PayerAnswers
  <2>7. ASSUME NEW a \in Attempts, CheckOrder(a) \/ AcquirePayLock(a)
        PROVE  payCall'[b] = "calling" \/ reference' = b
    BY <2>7 DEF CheckOrder, AcquirePayLock
  <2>8. ASSUME NEW a \in Attempts,
               PayWebhookFirst(a) \/ FindCollect(a) \/ MarkFailed(a) \/ ReadPaidOrder(a)
        PROVE  payCall'[b] = "calling" \/ reference' = b
    BY <2>8 DEF PayWebhookFirst, FindCollect, MarkFailed, ReadPaidOrder
  <2>9. CASE PayLockExpires \/ CancelOrder
    BY <2>9 DEF PayLockExpires, CancelOrder
  <2>10. CASE UNCHANGED momoVars
    BY <2>10 DEF momoVars
  <2> QED
    BY <1>4, <2>3, <2>4, <2>5, <2>6, <2>7, <2>8, <2>9, <2>10 DEF MomoNext, Handler
<1> QED
  BY <1>3, <1>4

(* The consumer is prompted, or has paid, for one collect of the order at  *)
(* a time: the pay:order lock and the status check of initiateMomo.        *)
THEOREM OnePromptAtATimeAlways == MomoSpec => []OnePromptAtATime
<1>1. MomoSpec => []PromptInv
  BY MomoInvAlways, InitPrompt, StepPrompt, PTL DEF MomoSpec
<1>2. ASSUME MomoTyped, MomoInv, PromptInv PROVE OnePromptAtATime
  <2> SUFFICES ASSUME mishaps \cap {"slowCall", "lostAnswer"} = {}, ~(payCrashes > 0),
                      NEW a \in Attempts, NEW b \in Attempts,
                      collect[a] \in {"prompted", "paid"}, collect[b] \in {"prompted", "paid"}
               PROVE  a = b
    BY DEF OnePromptAtATime
  <2>1. payCall[a] = "calling" \/ reference = a
    BY <1>2 DEF PromptInv
  <2>2. payCall[b] = "calling" \/ reference = b
    BY <1>2 DEF PromptInv
  <2> QED
    BY <1>2, <2>1, <2>2, NoAttemptAssumption DEF MomoInv, PayLockInv, PayRowInv
<1> QED
  BY MomoInvAlways, <1>1, <1>2, PTL

-----------------------------------------------------------------------------
(* The rest of a payment's types *)

(* Webhooks that have booked, or never will. *)
HooksOver == {a \in Attempts : payHook[a].at = "over"}

(* A webhook books on its way to its end, and no reference has a second    *)
(* one; so the bookings of any number of webhooks are bounded, whatever    *)
(* goes wrong.                                                             *)
BookingsInv ==
    /\ payDedup \subseteq Attempts
    /\ \A a \in Attempts : payHook[a].at # "none" => a \in payDedup
    /\ bookings <= Cardinality(HooksOver)

(* The webhooks that are over are as many as a set of attempts. *)
LEMMA HooksOverFinite ==
    IsFiniteSet(HooksOver) /\ Cardinality(HooksOver) \in Nat
      /\ Cardinality(HooksOver) <= Cardinality(Attempts)
  BY AttemptsAssumption, FS_Subset, FS_CardinalityType, Zenon DEF HooksOver

(* When one more is over, they are one more; when none leaves, no fewer. *)
LEMMA HooksOverGrow ==
    ASSUME HooksOver \subseteq HooksOver'
    PROVE  /\ Cardinality(HooksOver) \in Nat /\ Cardinality(HooksOver') \in Nat
           /\ Cardinality(HooksOver) <= Cardinality(HooksOver')
           /\ \A a \in Attempts : a \in HooksOver' /\ a \notin HooksOver
                => Cardinality(HooksOver) + 1 <= Cardinality(HooksOver')
<1>1. IsFiniteSet(HooksOver') /\ Cardinality(HooksOver') \in Nat
  BY AttemptsAssumption, FS_Subset, FS_CardinalityType, Zenon DEF HooksOver
<1>2. IsFiniteSet(HooksOver) /\ Cardinality(HooksOver) \in Nat
  BY HooksOverFinite
<1>3. Cardinality(HooksOver) <= Cardinality(HooksOver')
  BY <1>1, FS_Subset, Zenon
<1>4. ASSUME NEW a \in Attempts, a \in HooksOver', a \notin HooksOver
      PROVE  Cardinality(HooksOver) + 1 <= Cardinality(HooksOver')
  <2> DEFINE One == HooksOver \cup {a}
  <2>1. Cardinality(One) = Cardinality(HooksOver) + 1
    BY <1>2, <1>4, FS_AddElement
  <2>2. One \subseteq HooksOver'
    BY <1>4
  <2>3. Cardinality(One) <= Cardinality(HooksOver')
    BY <1>1, <2>2, FS_Subset, Zenon
  <2> QED
    BY <2>1, <2>3
<1> QED
  BY <1>1, <1>2, <1>3, <1>4

(* Nothing is booked at first. *)
LEMMA InitBookings == MomoInit => BookingsInv
<1> SUFFICES ASSUME MomoInit PROVE BookingsInv
  OBVIOUS
<1>1. bookings <= Cardinality(HooksOver)
  BY HooksOverFinite DEF MomoInit
<1> QED
  BY <1>1 DEF MomoInit, BookingsInv

(* Every step keeps the bookings to the webhooks that are over. *)
LEMMA StepBookings == MomoTyped /\ BookingsInv /\ [MomoNext]_momoVars => BookingsInv'
<1> SUFFICES ASSUME MomoTyped, BookingsInv, [MomoNext]_momoVars PROVE BookingsInv'
  OBVIOUS
<1> USE DEF MomoTyped, PayHookStep, HookStatus, payRow, trouble
<1>0. Cardinality(HooksOver) \in Nat
  BY HooksOverFinite
<1>1. ASSUME NEW a \in Attempts, PayWebhookFirst(a) PROVE BookingsInv'
  <2>1. /\ payDedup' \subseteq Attempts
        /\ \A b \in Attempts : payHook'[b].at # "none" => b \in payDedup'
        /\ bookings' = bookings
    BY <1>1 DEF PayWebhookFirst, BookingsInv
  <2>2. payHook[a].at = "none"
    BY <1>1 DEF PayWebhookFirst, BookingsInv
  <2>3. HooksOver \subseteq HooksOver'
    BY <1>1, <2>2 DEF PayWebhookFirst, HooksOver
  <2> QED
    BY <1>0, <2>1, <2>3, HooksOverGrow DEF BookingsInv
<1>2. ASSUME NEW a \in Attempts, BookPayment(a) PROVE BookingsInv'
  <2>1. /\ payDedup' \subseteq Attempts
        /\ \A b \in Attempts : payHook'[b].at # "none" => b \in payDedup'
        /\ bookings' <= bookings + 1
        /\ bookings' \in Nat
    BY <1>2 DEF BookPayment, BookingsInv
  <2>2. HooksOver \subseteq HooksOver' /\ a \in HooksOver' /\ a \notin HooksOver
    BY <1>2 DEF BookPayment, HooksOver
  <2>3. Cardinality(HooksOver) + 1 <= Cardinality(HooksOver')
    BY <2>2, HooksOverGrow
  <2> QED
    BY <1>0, <2>1, <2>3, HooksOverGrow, <2>2 DEF BookingsInv, MomoTyped
<1>3. ASSUME HooksOver \subseteq HooksOver', UNCHANGED <<payDedup, bookings>>,
             \A b \in Attempts : payHook[b].at = "none" => payHook'[b].at = "none"
      PROVE  BookingsInv'
  BY <1>0, <1>3, HooksOverGrow DEF BookingsInv
<1>4. ASSUME NEW a \in Attempts,
             CheckOrder(a) \/ PayerAnswers(a) \/ AcquirePayLock(a) \/ CampayPrompts(a)
               \/ StoreCollect(a) \/ CollectFails(a)
      PROVE  BookingsInv'
  <2>1. UNCHANGED <<payDedup, bookings, payHook>>
    BY <1>4
       DEF CheckOrder, PayerAnswers, AcquirePayLock, CampayPrompts, StoreCollect, CollectFails
  <2> QED
    BY <1>3, <2>1 DEF HooksOver
<1>5. ASSUME NEW a \in Attempts, FindCollect(a) \/ MarkFailed(a) \/ ReadPaidOrder(a)
      PROVE  BookingsInv'
  <2>1. /\ UNCHANGED <<payDedup, bookings>>
        /\ \A b \in Attempts : payHook[b].at = "none" => payHook'[b].at = "none"
        /\ HooksOver \subseteq HooksOver'
    BY <1>5 DEF FindCollect, MarkFailed, ReadPaidOrder, HooksOver
  <2> QED
    BY <1>3, <2>1
<1>6. CASE PayLockExpires \/ CancelOrder
  <2>1. UNCHANGED <<payDedup, bookings, payHook>>
    BY <1>6 DEF PayLockExpires, CancelOrder
  <2> QED
    BY <1>3, <2>1 DEF HooksOver
<1>7. CASE PaymentRestart
  <2>1. /\ UNCHANGED <<payDedup, bookings>>
        /\ \A b \in Attempts : payHook[b].at = "none" => payHook'[b].at = "none"
        /\ HooksOver \subseteq HooksOver'
    BY <1>7 DEF PaymentRestart, HooksOver
  <2> QED
    BY <1>3, <2>1
<1>8. CASE UNCHANGED momoVars
  <2>1. UNCHANGED <<payDedup, bookings, payHook>>
    BY <1>8 DEF momoVars
  <2> QED
    BY <1>3, <2>1 DEF HooksOver
<1> QED
  BY <1>1, <1>2, <1>4, <1>5, <1>6, <1>7, <1>8 DEF MomoNext, Handler

(* What went wrong is one of the known ways, and the process restarts no   *)
(* more often than it may.                                                 *)
TroubleInv == mishaps \subseteq Mishap /\ payCrashes \in 0..MaxPayCrashes

(* Every step keeps to both. *)
LEMMA StepTrouble == TroubleInv /\ [MomoNext]_momoVars => TroubleInv'
<1> SUFFICES ASSUME TroubleInv, [MomoNext]_momoVars PROVE TroubleInv'
  OBVIOUS
<1> USE PayCrashesAssumption DEF TroubleInv, Mishap, Happens, trouble
<1>1. ASSUME NEW a \in Attempts, CheckOrder(a) \/ PayerAnswers(a) \/ PayWebhookFirst(a)
      PROVE  TroubleInv'
  BY <1>1 DEF CheckOrder, PayerAnswers, PayWebhookFirst
<1>2. ASSUME NEW a \in Attempts, Handler(a) PROVE TroubleInv'
  BY <1>2 DEF Handler, AcquirePayLock, CampayPrompts, StoreCollect, CollectFails, FindCollect,
              MarkFailed, ReadPaidOrder, BookPayment
<1>3. CASE PayLockExpires \/ CancelOrder \/ PaymentRestart
  BY <1>3 DEF PayLockExpires, CancelOrder, PaymentRestart
<1>4. CASE UNCHANGED momoVars
  BY <1>4 DEF momoVars
<1> QED
  BY <1>1, <1>2, <1>3, <1>4 DEF MomoNext

(* Every variable of a payment keeps to its values: the order is booked no *)
(* more often than the consumer tried to pay it, even if every call        *)
(* outlasts its lock.                                                      *)
THEOREM MomoIsTyped == MomoSpec => []MomoTypeOK
<1>1. MomoInit => TroubleInv
  BY PayCrashesAssumption DEF MomoInit, TroubleInv
<1>2. MomoTyped /\ BookingsInv /\ TroubleInv => MomoTypeOK
  <2> SUFFICES ASSUME MomoTyped, BookingsInv, TroubleInv PROVE MomoTypeOK
    OBVIOUS
  <2>1. Cardinality(Attempts) \in Nat
    BY AttemptsAssumption, FS_CardinalityType
  <2>2. bookings \in 0..Cardinality(Attempts)
    BY <2>1, HooksOverFinite DEF MomoTyped, BookingsInv
  <2> QED
    BY <2>2 DEF MomoTyped, BookingsInv, TroubleInv, MomoTypeOK
<1> QED
  BY InitMomo, StepMomo, InitBookings, StepBookings, <1>1, StepTrouble, <1>2, PTL DEF MomoSpec

-----------------------------------------------------------------------------
(* The circuit breaker *)

(* The failure count is a number below the cap, and the circuit CLOSED     *)
(* exactly below the threshold: together inductive as they stand.  Neither *)
(* the cool-down nor the calls in flight play a part.                      *)
CircuitInv == failures \in 0..MaxFailures /\ ClosedBelowThreshold

(* A fresh process starts CLOSED with no failure. *)
LEMMA InitCircuit == CircuitInit => CircuitInv
  BY ThresholdAssumption, CapAssumption
  DEF CircuitInit, CircuitInv, ClosedBelowThreshold

(* wrap, onSuccess, onFailure and the passing of time keep both. *)
LEMMA StepCircuit == CircuitInv /\ [CircuitNext]_circuitVars => CircuitInv'
<1> USE ThresholdAssumption, CapAssumption
<1> SUFFICES ASSUME CircuitInv, [CircuitNext]_circuitVars PROVE CircuitInv'
  OBVIOUS
<1>1. ASSUME NEW c \in Calls, Wrap(c) PROVE CircuitInv'
  BY <1>1 DEF CircuitInv, ClosedBelowThreshold, Wrap
<1>2. ASSUME NEW c \in Calls, OnSuccess(c) PROVE CircuitInv'
  BY <1>2 DEF CircuitInv, ClosedBelowThreshold, OnSuccess
<1>3. ASSUME NEW c \in Calls, OnFailure(c) PROVE CircuitInv'
  BY <1>3 DEF CircuitInv, ClosedBelowThreshold, OnFailure, Opens
<1>4. CASE CoolDown
  BY <1>4 DEF CircuitInv, ClosedBelowThreshold, CoolDown
<1>5. CASE UNCHANGED circuitVars
  BY <1>5 DEF CircuitInv, ClosedBelowThreshold, circuitVars
<1> QED
  BY <1>1, <1>2, <1>3, <1>4, <1>5 DEF CircuitNext, Failure

(* However many calls overlap, and whatever THRESHOLD_FAILURES is, the     *)
(* circuit is CLOSED exactly while the failures since the last success     *)
(* stay below it.                                                          *)
THEOREM ClosedIsBelowThreshold == CircuitSpec => []ClosedBelowThreshold
<1>1. CircuitInv => ClosedBelowThreshold
  BY DEF CircuitInv
<1> QED
  BY InitCircuit, StepCircuit, <1>1, PTL DEF CircuitSpec

(* Every variable of the circuit breaker keeps to its values. *)
THEOREM CircuitIsTyped == CircuitSpec => []CircuitTypeOK
<1>0. 0 \in 0..MaxFailures
  BY CapAssumption
<1> USE <1>0, CapAssumption DEF CircuitTypeOK
<1>1. CircuitInit => CircuitTypeOK
  BY DEF CircuitInit
<1>2. CircuitTypeOK /\ [CircuitNext]_circuitVars => CircuitTypeOK'
  <2> SUFFICES ASSUME CircuitTypeOK, [CircuitNext]_circuitVars PROVE CircuitTypeOK'
    OBVIOUS
  <2>1. ASSUME NEW c \in Calls, Wrap(c) PROVE CircuitTypeOK'
    BY <2>1 DEF Wrap
  <2>2. ASSUME NEW c \in Calls, OnSuccess(c) PROVE CircuitTypeOK'
    BY <2>2 DEF OnSuccess
  <2>3. ASSUME NEW c \in Calls, OnFailure(c) PROVE CircuitTypeOK'
    <3>1. failures' \in 0..MaxFailures
      BY <2>3 DEF OnFailure
    <3>2. state' \in {"CLOSED", "OPEN", "HALF_OPEN"} /\ cooled' \in BOOLEAN
      BY <2>3, Zenon DEF OnFailure, Opens
    <3>3. call' \in [Calls -> {"idle", "trial", "through"}]
      BY <2>3 DEF OnFailure
    <3> QED
      BY <3>1, <3>2, <3>3
  <2>4. CASE CoolDown
    BY <2>4 DEF CoolDown
  <2>5. CASE UNCHANGED circuitVars
    BY <2>5 DEF circuitVars
  <2> QED
    BY <2>1, <2>2, <2>3, <2>4, <2>5 DEF CircuitNext, Failure
<1> QED
  BY <1>1, <1>2, PTL DEF CircuitSpec

-----------------------------------------------------------------------------
(* A refund *)

(* Types *)

(* A REFUND_PENDING order no sweep has touched is well typed. *)
LEMMA InitType == Init => TypeOK
  BY NoneAssumption, SwitchesAssumption
  DEF Init, TypeOK, AtRest, Age, SweepStep, Withdraw, HookStep

(* Every step of the processor keeps the types. *)
LEMMA SweepType ==
    ASSUME TypeOK, NEW s \in Sweepers, Sweep(s)
    PROVE  TypeOK'
<1> USE SwitchesAssumption DEF TypeOK, Goes, mishap, Age, SweepStep, Withdraw, HookStep
<1>1. CASE SelectPending(s)
  BY <1>1 DEF SelectPending, order, ledger
<1>2. CASE LockRefund(s)
  BY <1>2 DEF LockRefund, ledger
<1>3. CASE CampayAccepts(s)
  BY <1>3 DEF CampayAccepts, Fails, Loses, Works, order, ledger
<1>4. CASE CampayRefuses(s)
  BY <1>4 DEF CampayRefuses, Fails, Loses, Works, order, ledger
<1>5. CASE StoreReference(s)
  BY <1>5 DEF StoreReference
<1>6. CASE StoreFails(s)
  BY <1>6 DEF StoreFails, Fails, Loses, Works, order, ledger
<1>7. CASE ResetLock(s)
  BY <1>7 DEF ResetLock, Loses, Works, ledger
<1> QED
  BY <1>1, <1>2, <1>3, <1>4, <1>5, <1>6, <1>7 DEF Sweep

(* So does every step of Campay and of its webhooks. *)
LEMMA TransferType ==
    ASSUME TypeOK, NEW t \in Transfers,
           CampaySettles(t) \/ WebhookFirst(t) \/ Webhook(t)
    PROVE  TypeOK'
<1> USE SwitchesAssumption DEF TypeOK, mishap, Age, SweepStep, Withdraw, HookStep
<1>1. CASE CampaySettles(t)
  BY <1>1 DEF CampaySettles, Fails, Loses, Works, order, ledger
<1>2. CASE WebhookFirst(t)
  BY <1>2 DEF WebhookFirst, order, ledger
<1>3. CASE FindOrder(t)
  BY <1>3 DEF FindOrder, order, ledger
<1>4. CASE Settle(t)
  BY <1>4 DEF Settle
<1>5. CASE ResetRefund(t)
  BY <1>5 DEF ResetRefund, ledger
<1> QED
  BY <1>1, <1>2, <1>3, <1>4, <1>5 DEF Webhook

(* And every step of the system. *)
LEMMA StepType == TypeOK /\ [Next]_vars => TypeOK'
<1> SUFFICES ASSUME TypeOK, [Next]_vars PROVE TypeOK'
  OBVIOUS
<1>1. ASSUME NEW s \in Sweepers, Sweep(s) PROVE TypeOK'
  BY <1>1, SweepType
<1>2. ASSUME NEW t \in Transfers, CampaySettles(t) \/ WebhookFirst(t) \/ Webhook(t)
      PROVE  TypeOK'
  BY <1>2, TransferType
<1>3. CASE HalfHourPasses
  BY <1>3 DEF HalfHourPasses, TypeOK, Age, ledger, mishap
<1>4. CASE Crash
  BY <1>4, SwitchesAssumption
  DEF Crash, TypeOK, AtRest, SweepStep, HookStep, order, ledger
<1>5. CASE UNCHANGED vars
  BY <1>5 DEF vars, order, ledger, mishap, TypeOK
<1> QED
  BY <1>1, <1>2, <1>3, <1>4, <1>5 DEF Next

(* The refund columns, the sweeps, Campay's records and the webhooks keep  *)
(* the types TypeOK gives them.                                            *)
THEOREM TypeCorrect == Spec => []TypeOK
  BY InitType, StepType, PTL DEF Spec

-----------------------------------------------------------------------------
(* The books *)

(* Nothing is locked, looked up or booked at first. *)
LEMMA InitBacked == Init => BackedInv
  BY DEF Init, BackedInv, LockInv, HookInv, RefundIsBacked, Holds, AtRest

(* A sweep keeps the lock exclusive and the books backed: only LockRefund  *)
(* makes a holder, under the guard, and only the holder stores a reference *)
(* or drops the lock.                                                      *)
LEMMA SweepBacked ==
    ASSUME TypeOK, BackedInv, NEW s \in Sweepers, Sweep(s)
    PROVE  BackedInv'
<1> USE NoneAssumption
    DEF TypeOK, BackedInv, LockInv, HookInv, RefundIsBacked, Holds, Goes
<1>1. CASE SelectPending(s)
  BY <1>1 DEF SelectPending, order, ledger
<1>2. CASE LockRefund(s)
  BY <1>2 DEF LockRefund, ledger
<1>3. CASE CampayAccepts(s)
  BY <1>3 DEF CampayAccepts, order, ledger
<1>4. CASE CampayRefuses(s)
  BY <1>4 DEF CampayRefuses, order, ledger
<1>5. CASE StoreReference(s)
  BY <1>5 DEF StoreReference
<1>6. CASE StoreFails(s)
  BY <1>6 DEF StoreFails, order, ledger
<1>7. CASE ResetLock(s)
  BY <1>7 DEF ResetLock, ledger
<1> QED
  BY <1>1, <1>2, <1>3, <1>4, <1>5, <1>6, <1>7 DEF Sweep

(* A webhook acts on the reference that is stored, so that what it books   *)
(* or takes back is that transfer.                                         *)
LEMMA TransferBacked ==
    ASSUME TypeOK, BackedInv, NEW t \in Transfers,
           CampaySettles(t) \/ WebhookFirst(t) \/ Webhook(t)
    PROVE  BackedInv'
<1> USE NoneAssumption
    DEF TypeOK, BackedInv, LockInv, HookInv, RefundIsBacked, Holds
<1>1. CASE CampaySettles(t)
  BY <1>1 DEF CampaySettles, order, ledger
<1>2. CASE WebhookFirst(t)
  BY <1>2 DEF WebhookFirst, order, ledger
<1>3. CASE FindOrder(t)
  BY <1>3 DEF FindOrder, order, ledger
<1>4. CASE Settle(t)
  BY <1>4 DEF Settle
<1>5. CASE ResetRefund(t)
  BY <1>5 DEF ResetRefund, ledger
<1> QED
  BY <1>1, <1>2, <1>3, <1>4, <1>5 DEF Webhook

(* Every step keeps the books backed; a crash only lets go of sweeps and   *)
(* webhooks.                                                               *)
LEMMA StepBacked == TypeOK /\ BackedInv /\ [Next]_vars => BackedInv'
<1> SUFFICES ASSUME TypeOK, BackedInv, [Next]_vars PROVE BackedInv'
  OBVIOUS
<1>1. ASSUME NEW s \in Sweepers, Sweep(s) PROVE BackedInv'
  BY <1>1, SweepBacked
<1>2. ASSUME NEW t \in Transfers, CampaySettles(t) \/ WebhookFirst(t) \/ Webhook(t)
      PROVE  BackedInv'
  BY <1>2, TransferBacked
<1> USE DEF BackedInv, LockInv, HookInv, RefundIsBacked, Holds
<1>3. CASE HalfHourPasses
  BY <1>3 DEF HalfHourPasses, ledger
<1>4. CASE Crash
  BY <1>4 DEF Crash, AtRest, order, ledger
<1>5. CASE UNCHANGED vars
  BY <1>5 DEF vars, order, ledger
<1> QED
  BY <1>1, <1>2, <1>3, <1>4, <1>5 DEF Next

(* Whatever is lost or fails, and however often the process restarts: an   *)
(* order is REFUNDED, with one settle pair after a release pair, only for  *)
(* a transfer that did reach the customer.                                 *)
THEOREM BooksAreBacked == Spec => []RefundIsBacked
<1>1. BackedInv => RefundIsBacked
  BY DEF BackedInv
<1> QED
  BY InitType, StepType, InitBacked, StepBacked, <1>1, PTL DEF Spec

(* Every step writes a release pair with the reference it stores; only a   *)
(* bounced transfer lets a reference go.                                   *)
LEMMA StepRelease == TypeOK /\ BackedInv /\ ReleaseInv /\ [Next]_vars => ReleaseInv'
<1> SUFFICES ASSUME TypeOK, BackedInv, ReleaseInv, [Next]_vars PROVE ReleaseInv'
  OBVIOUS
<1> USE NoneAssumption
    DEF TypeOK, BackedInv, LockInv, HookInv, ReleaseInv, Holds, Goes, order, ledger
<1>1. ASSUME NEW s \in Sweepers, Sweep(s) PROVE ReleaseInv'
  <2>1. CASE CampayAccepts(s)
    BY <2>1 DEF CampayAccepts
  <2>2. CASE StoreReference(s)
    BY <2>2 DEF StoreReference
  <2> QED
    BY <1>1, <2>1, <2>2
    DEF Sweep, SelectPending, LockRefund, CampayRefuses, StoreFails, ResetLock
<1>2. ASSUME NEW t \in Transfers, CampaySettles(t) \/ WebhookFirst(t) \/ Webhook(t)
      PROVE  ReleaseInv'
  <2>1. CASE CampaySettles(t)
    BY <2>1 DEF CampaySettles
  <2>2. CASE ResetRefund(t)
    BY <2>2 DEF ResetRefund
  <2> QED
    BY <1>2, <2>1, <2>2 DEF WebhookFirst, Webhook, FindOrder, Settle
<1> QED
  BY <1>1, <1>2 DEF Next, HalfHourPasses, Crash, vars

(* Whatever is lost and however often the process restarts, an order that  *)
(* is REFUNDED without a bounced transfer leaves no refund liability.      *)
THEOREM RefundLeavesNoLiability == Spec => []LiabilityCleared
<1>1. Init => ReleaseInv
  BY DEF Init, ReleaseInv
<1>2. BackedInv /\ ReleaseInv => LiabilityCleared
  BY DEF BackedInv, RefundIsBacked, ReleaseInv, LiabilityCleared
<1> QED
  BY InitType, StepType, InitBacked, StepBacked, StepRelease, <1>1, <1>2, PTL
  DEF Spec

-----------------------------------------------------------------------------
(* One transfer *)

(* Campay holds no transfer for the order at first. *)
LEMMA InitOnce == Init => OnceInv
  BY DEF Init, OnceInv, NeverFiredTwice, Live, Holds, AtRest

(* With every answer stored or reported, a sweep that may send a transfer  *)
(* finds none alive.                                                       *)
LEMMA SweepOnce ==
    ASSUME TypeOK, BackedInv, OnceInv, NEW s \in Sweepers, Sweep(s), lost' = 0
    PROVE  OnceInv'
<1> USE NoneAssumption
    DEF TypeOK, BackedInv, LockInv, OnceInv, NeverFiredTwice, Live, Holds, Goes
<1>1. CASE SelectPending(s)
  BY <1>1 DEF SelectPending, order
<1>2. CASE LockRefund(s)
  BY <1>2 DEF LockRefund
<1>3. CASE CampayAccepts(s)
  BY <1>3 DEF CampayAccepts, Loses, order
<1>4. CASE CampayRefuses(s)
  BY <1>4 DEF CampayRefuses, order
<1>5. CASE StoreReference(s)
  BY <1>5 DEF StoreReference
<1>6. CASE StoreFails(s)
  BY <1>6 DEF StoreFails, Loses
<1>7. CASE ResetLock(s)
  BY <1>7 DEF ResetLock, Loses
<1> QED
  BY <1>1, <1>2, <1>3, <1>4, <1>5, <1>6, <1>7 DEF Sweep

(* A webhook drops the lock only when the stored transfer is dead. *)
LEMMA TransferOnce ==
    ASSUME TypeOK, BackedInv, OnceInv, NEW t \in Transfers,
           CampaySettles(t) \/ WebhookFirst(t) \/ Webhook(t)
    PROVE  OnceInv'
<1> USE NoneAssumption
    DEF TypeOK, BackedInv, LockInv, HookInv, OnceInv, NeverFiredTwice, Live, Holds
<1>1. CASE CampaySettles(t)
  BY <1>1 DEF CampaySettles, order
<1>2. CASE WebhookFirst(t)
  BY <1>2 DEF WebhookFirst, order
<1>3. CASE FindOrder(t)
  BY <1>3 DEF FindOrder, order
<1>4. CASE Settle(t)
  BY <1>4 DEF Settle
<1>5. CASE ResetRefund(t)
  BY <1>5 DEF ResetRefund
<1> QED
  BY <1>1, <1>2, <1>3, <1>4, <1>5 DEF Webhook

(* No step takes back that an answer was lost. *)
LEMMA RefundLostStays == TypeOK /\ [Next]_vars /\ lost # 0 => lost' # 0
<1> SUFFICES ASSUME TypeOK, [Next]_vars, lost # 0 PROVE lost' # 0
  OBVIOUS
<1> USE DEF TypeOK, mishap, Fails, Loses, Works
<1>1. ASSUME NEW s \in Sweepers, Sweep(s) PROVE lost' # 0
  BY <1>1 DEF Sweep, SelectPending, LockRefund, CampayAccepts, CampayRefuses,
              StoreReference, StoreFails, ResetLock
<1>2. ASSUME NEW t \in Transfers, CampaySettles(t) \/ WebhookFirst(t) \/ Webhook(t)
      PROVE  lost' # 0
  BY <1>2 DEF CampaySettles, WebhookFirst, Webhook, FindOrder, Settle, ResetRefund
<1> QED
  BY <1>1, <1>2 DEF Next, HalfHourPasses, Crash, vars

(* As long as no answer was lost, every step keeps to one live transfer. *)
LEMMA StepOnce ==
    TypeOK /\ BackedInv /\ (lost = 0 => OnceInv) /\ [Next]_vars => (lost = 0 => OnceInv)'
<1> SUFFICES ASSUME TypeOK, BackedInv, lost = 0 => OnceInv, [Next]_vars, lost' = 0
             PROVE  OnceInv'
  OBVIOUS
<1>0. OnceInv
  BY RefundLostStays
<1>1. ASSUME NEW s \in Sweepers, Sweep(s) PROVE OnceInv'
  BY <1>0, <1>1, SweepOnce
<1>2. ASSUME NEW t \in Transfers, CampaySettles(t) \/ WebhookFirst(t) \/ Webhook(t)
      PROVE  OnceInv'
  BY <1>0, <1>2, TransferOnce
<1> USE <1>0 DEF OnceInv, NeverFiredTwice, Live, Holds
<1>3. CASE HalfHourPasses
  BY <1>3 DEF HalfHourPasses
<1>4. CASE Crash
  BY <1>4 DEF Crash, AtRest, order
<1>5. CASE UNCHANGED vars
  BY <1>5 DEF vars, order
<1> QED
  BY <1>1, <1>2, <1>3, <1>4, <1>5 DEF Next

(* The customer is sent one refund at most until an answer of Campay is    *)
(* lost, however the sweeps overlap, transfers bounce and the process      *)
(* restarts.                                                               *)
THEOREM RefundedOnce == Spec => []OneRefund
<1>1. Init => (lost = 0 => OnceInv)
  BY InitOnce
<1>2. (lost = 0 => OnceInv) => OneRefund
  BY DEF OnceInv, NeverFiredTwice, OneRefund
<1> QED
  BY InitType, StepType, InitBacked, StepBacked, StepOnce, <1>1, <1>2, PTL DEF Spec

-----------------------------------------------------------------------------
(* A payout *)

(* Types, of what the invariants are about *)

PayoutTyped ==
    /\ payoutRef \in Withdrawals \cup {NoReference}
    /\ work \in [Workers -> [at : WorkStep, t : Withdrawals \cup {NoReference}]]
    /\ \A w \in Workers : work[w].at = "answered" => work[w].t \in Withdrawals
    /\ withdrawal \in [Withdrawals -> WithdrawalStep]
    /\ payoutHook \in [Withdrawals -> PayoutHookStep]
    /\ payoutLost \in Nat

(* A row no sweep has touched is well typed. *)
LEMMA InitPayout == PayoutInit => PayoutTyped
  BY DEF PayoutInit, PayoutTyped, WorkAtRest, WorkStep, WithdrawalStep, PayoutHookStep

(* Every step keeps the types. *)
LEMMA StepPayout == PayoutTyped /\ [PayoutNext]_payoutVars => PayoutTyped'
<1> SUFFICES ASSUME PayoutTyped, [PayoutNext]_payoutVars PROVE PayoutTyped'
  OBVIOUS
<1> USE DEF PayoutTyped, WorkGoes, WorkStep, WithdrawalStep, PayoutHookStep, payoutMishap
<1>1. ASSUME NEW w \in Workers, PayoutSweep(w) PROVE PayoutTyped'
  BY <1>1 DEF PayoutSweep, SelectPayout, LockRow, PayoutAccepted, PayoutRefused,
              OnReference, OnReferenceFails, OnFail, row
<1>2. ASSUME NEW t \in Withdrawals, PayoutSettles(t) \/ PayoutWebhookFirst(t) \/ PayoutWebhook(t)
      PROVE  PayoutTyped'
  BY <1>2 DEF PayoutSettles, PayoutWebhookFirst, PayoutWebhook, FindPayout, FlipPayout, row
<1>3. CASE RetryPayout
  BY <1>3 DEF RetryPayout
<1>4. CASE ManualTransfer
  BY <1>4 DEF ManualTransfer, MarksPaid
<1>5. CASE ManualMarkPaid
  BY <1>5 DEF ManualMarkPaid, MarksPaid
<1>6. CASE PayoutAges
  BY <1>6 DEF PayoutAges
<1>7. CASE WorkerRestart
  BY <1>7 DEF WorkerRestart, WorkAtRest, row
<1>8. CASE UNCHANGED payoutVars
  BY <1>8 DEF payoutVars, row
<1> QED
  BY <1>1, <1>2, <1>3, <1>4, <1>5, <1>6, <1>7, <1>8 DEF PayoutNext

-----------------------------------------------------------------------------
(* PAID is confirmed *)

(* Every step keeps PAID backed by a settled transfer: what settled stays  *)
(* settled, and only a webhook that reports it, or an admin who saw it,    *)
(* writes PAID.                                                            *)
LEMMA StepConfirmed == PayoutTyped /\ PaidIsConfirmed /\ [PayoutNext]_payoutVars => PaidIsConfirmed'
<1> SUFFICES ASSUME PayoutTyped, PaidIsConfirmed, [PayoutNext]_payoutVars PROVE PaidIsConfirmed'
  OBVIOUS
<1> USE DEF PayoutTyped, PaidIsConfirmed, WorkGoes
<1>1. ASSUME NEW w \in Workers, PayoutSweep(w) PROVE PaidIsConfirmed'
  BY <1>1 DEF PayoutSweep, SelectPayout, LockRow, PayoutAccepted, PayoutRefused,
              OnReference, OnReferenceFails, OnFail, row
<1>2. ASSUME NEW t \in Withdrawals, PayoutSettles(t) \/ PayoutWebhookFirst(t) \/ PayoutWebhook(t)
      PROVE  PaidIsConfirmed'
  BY <1>2 DEF PayoutSettles, PayoutWebhookFirst, PayoutWebhook, FindPayout, FlipPayout, row
<1>3. CASE RetryPayout
  BY <1>3 DEF RetryPayout
<1>4. CASE ManualTransfer
  BY <1>4 DEF ManualTransfer, MarksPaid
<1>5. CASE ManualMarkPaid
  BY <1>5 DEF ManualMarkPaid, MarksPaid
<1>6. CASE PayoutAges
  BY <1>6 DEF PayoutAges
<1>7. CASE WorkerRestart
  BY <1>7 DEF WorkerRestart, row
<1>8. CASE UNCHANGED payoutVars
  BY <1>8 DEF payoutVars, row
<1> QED
  BY <1>1, <1>2, <1>3, <1>4, <1>5, <1>6, <1>7, <1>8 DEF PayoutNext

(* Whatever is lost or fails, a payout is PAID only if some transfer of it *)
(* was settled.                                                            *)
THEOREM PaidIsAlwaysConfirmed == PayoutSpec => []PaidIsConfirmed
<1>1. PayoutInit => PaidIsConfirmed
  BY DEF PayoutInit, PaidIsConfirmed
<1> QED
  BY InitPayout, StepPayout, <1>1, StepConfirmed, PTL DEF PayoutSpec

-----------------------------------------------------------------------------
(* One transfer *)

(* Nothing is locked, sent or looked up at first. *)
LEMMA InitSent == PayoutInit => SentInv
  BY
     DEF PayoutInit, SentInv, PayoutLockInv, PaysInv, PayoutHookInv, OnePays, Pays, WorkHolds,
         WorkAtRest

(* A sweep sends only under the lock, when no transfer is alive, and gives *)
(* the row up as FAILED only when its own was refused.                     *)
LEMMA SweepSent ==
    ASSUME PayoutTyped, SentInv, NEW w \in Workers, PayoutSweep(w), payoutLost' = 0
    PROVE  SentInv'
<1> USE ReferenceAssumption
    DEF PayoutTyped, SentInv, PayoutLockInv, PaysInv, PayoutHookInv, OnePays, Pays, WorkHolds,
        WorkGoes
<1>1. CASE SelectPayout(w)
  BY <1>1 DEF SelectPayout, row
<1>2. CASE LockRow(w)
  BY <1>2 DEF LockRow
<1>3. CASE PayoutAccepted(w)
  BY <1>3 DEF PayoutAccepted, row
<1>4. CASE PayoutRefused(w)
  BY <1>4 DEF PayoutRefused, row
<1>5. CASE OnReference(w)
  BY <1>5 DEF OnReference
<1>6. CASE OnReferenceFails(w)
  BY <1>6 DEF OnReferenceFails
<1>7. CASE OnFail(w)
  BY <1>7 DEF OnFail
<1> QED
  BY <1>1, <1>2, <1>3, <1>4, <1>5, <1>6, <1>7 DEF PayoutSweep

(* A webhook fails the row only when the stored transfer is dead. *)
LEMMA TransferSent ==
    ASSUME PayoutTyped, SentInv, NEW t \in Withdrawals,
           PayoutSettles(t) \/ PayoutWebhookFirst(t) \/ PayoutWebhook(t)
    PROVE  SentInv'
<1> USE ReferenceAssumption
    DEF PayoutTyped, SentInv, PayoutLockInv, PaysInv, PayoutHookInv, OnePays, Pays, WorkHolds
<1>1. CASE PayoutSettles(t)
  BY <1>1 DEF PayoutSettles, row
<1>2. CASE PayoutWebhookFirst(t)
  BY <1>2 DEF PayoutWebhookFirst, row
<1>3. CASE FindPayout(t)
  BY <1>3 DEF FindPayout, row
<1>4. CASE FlipPayout(t)
  BY <1>4 DEF FlipPayout
<1> QED
  BY <1>1, <1>2, <1>3, <1>4 DEF PayoutWebhook

(* No step takes back that an answer was lost. *)
LEMMA PayoutLostStays == PayoutTyped /\ [PayoutNext]_payoutVars /\ payoutLost # 0 => payoutLost' # 0
<1> SUFFICES ASSUME PayoutTyped, [PayoutNext]_payoutVars, payoutLost # 0 PROVE payoutLost' # 0
  OBVIOUS
<1> USE DEF PayoutTyped, payoutMishap
<1>1. ASSUME NEW w \in Workers, PayoutSweep(w) PROVE payoutLost' # 0
  BY <1>1 DEF PayoutSweep, SelectPayout, LockRow, PayoutAccepted, PayoutRefused,
              OnReference, OnReferenceFails, OnFail
<1>2. ASSUME NEW t \in Withdrawals, PayoutSettles(t) \/ PayoutWebhookFirst(t) \/ PayoutWebhook(t)
      PROVE  payoutLost' # 0
  BY <1>2 DEF PayoutSettles, PayoutWebhookFirst, PayoutWebhook, FindPayout, FlipPayout
<1> QED
  BY <1>1, <1>2
  DEF PayoutNext, RetryPayout, ManualTransfer, ManualMarkPaid, MarksPaid, PayoutAges,
      WorkerRestart, payoutVars

(* As long as no answer was lost, every step keeps to one live transfer:   *)
(* an admin retries, or pays by hand, a row that has none.                 *)
LEMMA StepSent ==
    PayoutTyped /\ (payoutLost = 0 => SentInv) /\ [PayoutNext]_payoutVars
      => (payoutLost = 0 => SentInv)'
<1> SUFFICES ASSUME PayoutTyped, payoutLost = 0 => SentInv, [PayoutNext]_payoutVars, payoutLost' = 0
             PROVE  SentInv'
  OBVIOUS
<1>0. SentInv
  BY PayoutLostStays
<1>1. ASSUME NEW w \in Workers, PayoutSweep(w) PROVE SentInv'
  BY <1>0, <1>1, SweepSent
<1>2. ASSUME NEW t \in Withdrawals, PayoutSettles(t) \/ PayoutWebhookFirst(t) \/ PayoutWebhook(t)
      PROVE  SentInv'
  BY <1>0, <1>2, TransferSent
<1> USE <1>0, ReferenceAssumption
    DEF PayoutTyped, SentInv, PayoutLockInv, PaysInv, PayoutHookInv, OnePays, Pays, WorkHolds
<1>3. CASE RetryPayout
  BY <1>3 DEF RetryPayout
<1>4. CASE ManualTransfer
  BY <1>4 DEF ManualTransfer, MarksPaid
<1>5. CASE ManualMarkPaid
  BY <1>5 DEF ManualMarkPaid, MarksPaid
<1>6. CASE PayoutAges
  BY <1>6 DEF PayoutAges
<1>7. CASE WorkerRestart
  BY <1>7 DEF WorkerRestart, WorkAtRest, row
<1>8. CASE UNCHANGED payoutVars
  BY <1>8 DEF payoutVars, row
<1> QED
  BY <1>1, <1>2, <1>3, <1>4, <1>5, <1>6, <1>7, <1>8 DEF PayoutNext

(* Whatever SentInv implies holds until an answer is lost. *)
LEMMA SentUntilLost == PayoutSpec => [](PayoutTyped /\ (payoutLost = 0 => SentInv))
<1>1. PayoutInit => (payoutLost = 0 => SentInv)
  BY InitSent
<1> QED
  BY InitPayout, StepPayout, <1>1, StepSent, PTL DEF PayoutSpec

(* Until an answer of Campay is lost, the vendor or rider is sent one      *)
(* transfer at most, however the sweeps overlap, transfers bounce, the     *)
(* admin retries and the process restarts.                                 *)
THEOREM PayoutSentOnce == PayoutSpec => []PaidOnce
<1>1. (payoutLost = 0 => SentInv) => PaidOnce
  BY DEF SentInv, PaidOnce
<1> QED
  BY SentUntilLost, <1>1, PTL

(* Until an answer is lost, a FAILED row has no transfer that pays it:     *)
(* retrying it is safe.                                                    *)
THEOREM FailedHasNoTransfer == PayoutSpec => []FailedIsUnpaid
<1>1. (payoutLost = 0 => SentInv) => FailedIsUnpaid
  BY DEF SentInv, PaysInv, FailedIsUnpaid
<1> QED
  BY SentUntilLost, <1>1, PTL

(* Until an answer is lost, no sweep, webhook or admin takes PAID away     *)
(* again.                                                                  *)
THEOREM PaidIsForGood == PayoutSpec => PaidIsTerminal
<1>1. (payoutLost = 0 => SentInv) /\ [PayoutNext]_payoutVars
        => [payoutLost = 0 /\ status = "PAID" => status' = "PAID"]_payoutVars
  <2> SUFFICES ASSUME SentInv, [PayoutNext]_payoutVars, status = "PAID"
               PROVE  status' = "PAID"
    OBVIOUS
  <2>1. ASSUME NEW w \in Workers, PayoutSweep(w) PROVE status' = "PAID"
    BY <2>1 DEF PayoutSweep, SelectPayout, LockRow, PayoutAccepted, PayoutRefused,
                OnReference, OnReferenceFails, OnFail, row, SentInv, PayoutLockInv, WorkHolds
  <2>2. ASSUME NEW t \in Withdrawals, PayoutSettles(t) \/ PayoutWebhookFirst(t) \/ PayoutWebhook(t)
        PROVE  status' = "PAID"
    BY <2>2 DEF PayoutSettles, PayoutWebhookFirst, PayoutWebhook, FindPayout, FlipPayout, row
  <2> QED
    BY <2>1, <2>2
    DEF PayoutNext, RetryPayout, ManualTransfer, ManualMarkPaid, MarksPaid, PayoutAges,
        WorkerRestart, row, payoutVars
<1> QED
  BY SentUntilLost, <1>1, PTL DEF PayoutSpec, PaidIsTerminal

-----------------------------------------------------------------------------
(* The rest of a payout's types *)

(* What the other invariants do not depend on. *)
RestTyped ==
    /\ enabled \in Modes
    /\ status \in {"PENDING", "IN_FLIGHT", "PAID", "FAILED"}
    /\ sentAt \in PayoutAge
    /\ payoutDedup \subseteq Withdrawals
    /\ workerRestarts \in 0..MaxWorkerCrashes

(* Every step keeps it. *)
LEMMA StepRest == RestTyped /\ [PayoutNext]_payoutVars => RestTyped'
<1> SUFFICES ASSUME RestTyped, [PayoutNext]_payoutVars PROVE RestTyped'
  OBVIOUS
<1> USE ModesAssumption DEF RestTyped, PayoutAge, payoutMishap
<1>1. ASSUME NEW w \in Workers, PayoutSweep(w) PROVE RestTyped'
  BY <1>1 DEF PayoutSweep, SelectPayout, LockRow, PayoutAccepted, PayoutRefused,
              OnReference, OnReferenceFails, OnFail, row
<1>2. ASSUME NEW t \in Withdrawals, PayoutSettles(t) \/ PayoutWebhookFirst(t) \/ PayoutWebhook(t)
      PROVE  RestTyped'
  BY <1>2 DEF PayoutSettles, PayoutWebhookFirst, PayoutWebhook, FindPayout, FlipPayout, row
<1>3. CASE RetryPayout
  BY <1>3 DEF RetryPayout
<1>4. CASE ManualTransfer
  BY <1>4 DEF ManualTransfer, MarksPaid
<1>5. CASE ManualMarkPaid
  BY <1>5 DEF ManualMarkPaid, MarksPaid
<1>6. CASE PayoutAges
  BY <1>6 DEF PayoutAges
<1>7. CASE WorkerRestart
  BY <1>7 DEF WorkerRestart, row
<1>8. CASE UNCHANGED payoutVars
  BY <1>8 DEF payoutVars, row
<1> QED
  BY <1>1, <1>2, <1>3, <1>4, <1>5, <1>6, <1>7, <1>8 DEF PayoutNext

(* Every variable of a payout keeps to its values. *)
THEOREM PayoutIsTyped == PayoutSpec => []PayoutTypeOK
<1>1. PayoutInit => RestTyped
  BY ModesAssumption DEF PayoutInit, RestTyped, PayoutAge
<1>2. PayoutTyped /\ RestTyped => PayoutTypeOK
  BY DEF PayoutTyped, RestTyped, PayoutTypeOK
<1> QED
  BY InitPayout, StepPayout, <1>1, StepRest, <1>2, PTL DEF PayoutSpec

-----------------------------------------------------------------------------
(* The parts together *)

(* Whichever part of the money moves, each part goes its own way. *)
LEMMA MoneyPartsRun ==
    /\ MoneySpec => MomoSpec
    /\ MoneySpec => CircuitSpec
    /\ MoneySpec => Spec
    /\ MoneySpec => PayoutSpec
    /\ MoneySpec => CashoutSpec
<1>1. MoneyInit => MomoInit /\ CircuitInit /\ Init /\ PayoutInit /\ CashoutInit
  BY DEF MoneyInit
<1>2. [MoneyNext /\ Issued']_allVars
        => /\ [MomoNext]_momoVars
           /\ [CircuitNext]_circuitVars
           /\ [Next]_vars
           /\ [PayoutNext]_payoutVars
           /\ [CashoutNext]_cashoutVars
  BY DEF MoneyNext, allVars
<1>3. MoneySpec => MoneyInit /\ [][MoneyNext /\ Issued']_allVars
  BY PTL DEF MoneySpec
<1> QED
  BY <1>1, <1>2, <1>3, PTL DEF MomoSpec, CircuitSpec, Spec, PayoutSpec, CashoutSpec

(* Every variable of the payments, the circuit breaker, the refunds and    *)
(* the payouts keeps to its values (MoneyTypeOK).                          *)
THEOREM MoneyIsTyped == MoneySpec => []MoneyTypeOK
<1>1. MomoTypeOK /\ CircuitTypeOK /\ TypeOK /\ PayoutTypeOK /\ CashoutTypeOK => MoneyTypeOK
  BY DEF MoneyTypeOK
<1> QED
  BY MoneyPartsRun, MomoIsTyped, CircuitIsTyped, TypeCorrect, PayoutIsTyped, CashoutsAreTyped,
     <1>1, PTL
=============================================================================
