------------------------------ MODULE Ordering ------------------------------
(***************************************************************************)
(* OrderCreationService.createOrder with the coupons, prices and ledger    *)
(* legs of the order it creates.  A cart is one line; the vendor, its one  *)
(* item and the coupon are rows that others change while a call is under   *)
(* way.  Orders are numbered as their transactions commit.                 *)
(***************************************************************************)
EXTENDS Integers, FiniteSets, Sequences

CONSTANTS
    Consumers,      \* the consumers that order
    MaxPlaced,      \* orders placed (a model bound)
    MaxOrderCalls,  \* calls of createOrder in progress at once (a model bound)
    ItemPrices,     \* the prices the vendor gives the item (a model bound)
    Quantities,     \* how many of it a cart has (a model bound)
    Distances,      \* from vendor to door, in hundreds of metres
    CouponValue,    \* valueXAF of a FIXED_AMOUNT_OFF coupon
    MaxRedemptions  \* Coupon.maxRedemptions

ASSUME OrderingAssumption ==
    /\ MaxPlaced \in Nat /\ MaxOrderCalls \in Nat \ {0} /\ MaxRedemptions \in Nat
    /\ ItemPrices \subseteq Nat \ {0} /\ Quantities \subseteq 1..50 /\ Distances \subseteq Nat
    /\ CouponValue \in Nat \ {0}

VARIABLES
    open,       \* the vendor is ACTIVE and isOpen, its item sellable
    price,      \* the item's priceXAF
    coupon,     \* its type, whether it is valid now, its redemptionCount
    redeemed,   \* the consumers with a CouponRedemption row
    placed,     \* the orders committed so far
    orderCall   \* what each call of createOrder is about to do

orderingVars == <<open, price, coupon, redeemed, placed, orderCall>>

PlacedIds == 1..MaxPlaced
OrderCalls == 1..MaxOrderCalls
Nobody == "nobody"
MIN_ORDER_XAF == 1200
Rates == {6, 10, 17}     \* percent of commission, by kind of vendor

(* computeDeliveryFeeXAF: clamped, then rounded up to the next 50. *)
DeliveryFee(hm) ==
    LET raw == 250 + 10 * hm
        clamped == IF raw < 500 THEN 500 ELSE IF raw > 1500 THEN 1500 ELSE raw
    IN  50 * ((clamped + 49) \div 50)

(* CouponsService.computeDiscount *)
Discount(sub, fee) ==
    IF coupon.type = "FREE_DELIVERY" THEN fee
    ELSE IF CouponValue < sub + fee THEN CouponValue ELSE sub + fee

NoOrder == [by |-> Nobody, key |-> 0, sub |-> 0, fee |-> 0, off |-> 0, used |-> 0,
            total |-> 0, state |-> "none"]
NoCall == [at |-> "idle", by |-> Nobody, key |-> 0, uses |-> 0, sub |-> 0, fee |-> 0,
           off |-> 0]

Amount == Nat    \* XAF
OrderingTypeOK ==
    /\ open \in {0, 1} /\ price \in ItemPrices
    /\ coupon \in [type : {"FREE_DELIVERY", "FIXED_AMOUNT_OFF"}, valid : {0, 1}, count : Nat]
    /\ redeemed \subseteq Consumers
    /\ placed \in [PlacedIds -> [by : Consumers \cup {Nobody}, key : {0, 1}, sub : Amount,
         fee : Amount, off : Amount, used : {0, 1}, total : Amount,
         state : {"none", "PENDING", "PAID", "CANCELLED"}]]
    /\ orderCall \in [OrderCalls -> [at : {"idle", "read", "redeem", "commit"},
         by : Consumers \cup {Nobody}, key : {0, 1}, uses : {0, 1}, sub : Amount,
         fee : Amount, off : Amount]]

OrderingInit ==
    /\ open = 1 /\ price \in ItemPrices
    /\ coupon \in [type : {"FREE_DELIVERY", "FIXED_AMOUNT_OFF"}, valid : {1}, count : {0}]
    /\ redeemed = {}
    /\ placed = [i \in PlacedIds |-> NoOrder]
    /\ orderCall = [c \in OrderCalls |-> NoCall]

-----------------------------------------------------------------------------
shopRows == <<open, price, coupon, redeemed, placed>>
OrderGoes(c, call) == orderCall' = [orderCall EXCEPT ![c] = call]
OrderGivesUp(c) == orderCall' = [orderCall EXCEPT ![c] = NoCall] /\ UNCHANGED shopRows
PlacedNow == {i \in PlacedIds : placed[i].state # "none"}

(* A retry with the key of an order of the consumer's gets that order. *)
CreateOrder(c) ==
    /\ orderCall[c] = NoCall /\ \A d \in 1..(c - 1) : orderCall[d] # NoCall
    /\ \E u \in Consumers, k \in {0, 1} :
         /\ k = 1 => \A i \in PlacedNow : ~(placed[i].by = u /\ placed[i].key = 1)
         /\ OrderGoes(c, [NoCall EXCEPT !.at = "read", !.by = u, !.key = k])
    /\ UNCHANGED shopRows

(* Mutant: no minimum. *)
ReadCart_NoMinimum(c) ==
    /\ orderCall[c].at = "read"
    /\ \E qty \in Quantities, hm \in Distances, uses \in 0..(1 - orderCall[c].key) :
         LET sub == price * qty
             fee == DeliveryFee(hm)
         IN  IF open = 1
             THEN OrderGoes(c, [orderCall[c] EXCEPT
                      !.at = "redeem", !.sub = sub, !.fee = fee, !.uses = uses])
                  /\ UNCHANGED shopRows
             ELSE OrderGivesUp(c)

(* Vendor, items and prices as they are now: the subtotal, the fee and the *)
(* minimum.  Cart, distance and coupon are the request's (with a key it    *)
(* brings no coupon here: a model bound).                                  *)
ReadCart(c) ==
    /\ orderCall[c].at = "read"
    /\ \E qty \in Quantities, hm \in Distances, uses \in 0..(1 - orderCall[c].key) :
         LET sub == price * qty
             fee == DeliveryFee(hm)
         IN  IF open = 1 /\ sub + fee >= MIN_ORDER_XAF
             THEN OrderGoes(c, [orderCall[c] EXCEPT
                      !.at = "redeem", !.sub = sub, !.fee = fee, !.uses = uses])
                  /\ UNCHANGED shopRows
             ELSE OrderGivesUp(c)

(* paymentStatus PAID or REFUNDED, not CANCELLED. *)
HasPaidBefore(u) ==
    \E i \in PlacedNow : placed[i].by = u /\ placed[i].state = "PAID"

(* validateRow, for a firstOrderOnly coupon. *)
CouponHolds(u) ==
    coupon.valid = 1 /\ ~HasPaidBefore(u) /\ coupon.count < MaxRedemptions

(* Inside the transaction: order.create is not visible yet; the coupon is  *)
(* read and checked.  A refusal rolls the order back.                      *)
ReadCoupon(c) ==
    LET call == orderCall[c] IN
    /\ call.at = "redeem"
    /\ IF call.uses = 0 \/ CouponHolds(call.by)
       THEN OrderGoes(c, [call EXCEPT !.at = "commit",
                            !.off = call.uses * Discount(call.sub, call.fee)])
            /\ UNCHANGED shopRows
       ELSE OrderGivesUp(c)

(* The unique indexes, asked when the transaction commits. *)
KeyIsNew(call) ==
    call.key = 0 \/ \A i \in PlacedNow : ~(placed[i].by = call.by /\ placed[i].key = 1)
RedemptionIsNew(call) == call.uses = 0 \/ call.by \notin redeemed

(* The orders row, discounted when a coupon came with it. *)
OrderOf(call) ==
    [by |-> call.by, key |-> call.key, sub |-> call.sub, fee |-> call.fee,
     off |-> call.off, used |-> call.uses, total |-> call.sub + call.fee - call.off,
     state |-> "PENDING"]

Append1(call) ==
    \E i \in PlacedIds :
        /\ placed[i] = NoOrder /\ \A j \in 1..(i - 1) : placed[j] # NoOrder
        /\ placed' = [placed EXCEPT ![i] = OrderOf(call)]

(* Mutant: no unique index stands behind the key that was read. *)
CommitOrder_KeyRead(c) ==
    LET call == orderCall[c] IN
    /\ call.at = "commit"
    /\ RedemptionIsNew(call)
    /\ Append1(call)
    /\ redeemed' = IF call.uses = 1 THEN redeemed \cup {call.by} ELSE redeemed
    /\ coupon' = [coupon EXCEPT !.count = @ + call.uses]
    /\ orderCall' = [orderCall EXCEPT ![c] = NoCall]
    /\ UNCHANGED <<open, price>>

(* Order, redemption and counter, or a violated index (or the foreign key  *)
(* of a deleted item), which rolls all of it back.                         *)
CommitOrder(c) ==
    LET call == orderCall[c] IN
    /\ call.at = "commit"
    /\ KeyIsNew(call) /\ RedemptionIsNew(call)
    /\ Append1(call)
    /\ redeemed' = IF call.uses = 1 THEN redeemed \cup {call.by} ELSE redeemed
    /\ coupon' = [coupon EXCEPT !.count = @ + call.uses]
    /\ orderCall' = [orderCall EXCEPT ![c] = NoCall]
    /\ UNCHANGED <<open, price>>

(* An error, a lost connection or a restart: nothing is left of the call. *)
OrderFails(c) == orderCall[c] # NoCall /\ OrderGivesUp(c)

-----------------------------------------------------------------------------
(* The vendor opens, closes, sells out; the price changes. *)
ShopToggles == open' = 1 - open /\ UNCHANGED <<price, coupon, redeemed, placed, orderCall>>
PriceChanges ==
    /\ price' \in ItemPrices \ {price}
    /\ UNCHANGED <<open, coupon, redeemed, placed, orderCall>>

(* validUntil passes, or the row is disabled. *)
CouponEnds ==
    /\ coupon.valid = 1
    /\ coupon' = [coupon EXCEPT !.valid = 0]
    /\ UNCHANGED <<open, price, redeemed, placed, orderCall>>

-----------------------------------------------------------------------------
(* LedgerService.validate: no zero leg, and the legs sum to zero. *)
LedgerAccepts(legs) ==
    LET sum[i \in 0..Len(legs)] == IF i = 0 THEN 0 ELSE sum[i - 1] + legs[i]
    IN  sum[Len(legs)] = 0 /\ \A i \in DOMAIN legs : legs[i] # 0

(* Math.round of a share in percent *)
Percent(x, p) == (x * p + 50) \div 100

PaymentLegs(o) == <<o.total, -o.total>>

(* Mutant: the vendor is owed the subtotal. *)
DeliveryLegs_Gross(o, rate) ==
    LET commission == Percent(o.sub, rate)
        rider == Percent(o.fee, 65)
    IN  <<o.total, -o.sub, -rider, -(commission + o.fee - rider)>>

(* The snapshots of onPaymentSucceeded, as markDelivered books them. *)
DeliveryLegs(o, rate) ==
    LET commission == Percent(o.sub, rate)
        rider == Percent(o.fee, 65)
    IN  <<o.total, -(o.sub - commission), -rider, -(commission + o.fee - rider)>>

(* The penalty of vendorCancelPreOrder: 10 %, rounded down to 50. *)
Penalty(o) == 50 * ((o.total \div 10) \div 50)
PenaltyLegs(o) == <<Penalty(o), -Penalty(o)>>

OrderTurns(i, from, to) ==
    /\ placed[i].state = from
    /\ placed' = [placed EXCEPT ![i].state = to]
    /\ UNCHANGED <<open, price, coupon, redeemed, orderCall>>

(* onPaymentSucceeded, markDelivered, vendorCancelPreOrder: the order turns *)
(* only if the ledger takes the legs.                                      *)
PayPlaced(i) == LedgerAccepts(PaymentLegs(placed[i])) /\ OrderTurns(i, "PENDING", "PAID")
CancelPlaced(i) == LedgerAccepts(PenaltyLegs(placed[i])) /\ OrderTurns(i, "PAID", "CANCELLED")

OrderingNext ==
    \/ \E c \in OrderCalls :
         \/ CreateOrder(c) \/ ReadCart(c)
         \/ ReadCoupon(c) \/ CommitOrder(c) \/ OrderFails(c)
    \/ \E i \in PlacedIds : PayPlaced(i) \/ CancelPlaced(i)
    \/ ShopToggles \/ PriceChanges \/ CouponEnds

OrderingSpec == OrderingInit /\ [][OrderingNext]_orderingVars

-----------------------------------------------------------------------------
(* A retried request never makes a second order, even if both read before  *)
(* either wrote.                                                           *)
OneOrderPerKey ==
    \A i, j \in PlacedNow :
        (placed[i].key = 1 /\ placed[j].key = 1 /\ placed[i].by = placed[j].by) => i = j

(* A consumer uses a coupon once, and every use is counted.  Its cap is    *)
(* read before it is counted: calls that overlap overshoot it, by one each.*)
CouponCounted ==
    /\ \A i, j \in PlacedNow :
         (placed[i].used = 1 /\ placed[j].used = 1 /\ placed[i].by = placed[j].by) => i = j
    /\ coupon.count = Cardinality({i \in PlacedNow : placed[i].used = 1})
    /\ coupon.count <= MaxRedemptions + MaxOrderCalls - 1

(* What the consumer is asked for adds up, is never negative, and started  *)
(* from a basket over the minimum, whatever changed while it was placed.   *)
TotalsAddUp ==
    \A i \in PlacedNow :
        LET o == placed[i] IN
        /\ o.total = o.sub + o.fee - o.off /\ o.total >= 0
        /\ o.sub + o.fee >= MIN_ORDER_XAF
        /\ o.fee \in 500..1500 /\ o.fee % 50 = 0

(* An order at full price can be paid, delivered and, as a pre-order,      *)
(* cancelled: the ledger takes its legs, with no zero among them.          *)
FullPriceIsBookable ==
    \A i \in PlacedNow :
        placed[i].off = 0 =>
            /\ LedgerAccepts(PaymentLegs(placed[i]))
            /\ \A rate \in Rates : LedgerAccepts(DeliveryLegs(placed[i], rate))
            /\ LedgerAccepts(PenaltyLegs(placed[i]))

OrderingSafe == OneOrderPerKey /\ CouponCounted /\ TotalsAddUp /\ FullPriceIsBookable

(* "FREE_DELIVERY: the platform absorbs the full fee": the delivery of a   *)
(* paid order can be booked, with a coupon as without.                     *)
PaidIsDeliverable ==
    \A i \in PlacedNow :
        placed[i].state = "PAID" => \A rate \in Rates : LedgerAccepts(DeliveryLegs(placed[i], rate))
=============================================================================
