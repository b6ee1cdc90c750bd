--------------------------- MODULE OrderingProofs ----------------------------
(***************************************************************************)
(* Placing an order: what a call holds is priced before it is written, so  *)
(* the totals of an order add up and its legs can be booked; an            *)
(* idempotency key makes one order; and a coupon is used as often as it    *)
(* allows, but for the calls that overlap.  For any number of consumers,   *)
(* calls and orders, and any price and coupon.                             *)
(***************************************************************************)
EXTENDS Ordering, FiniteSetTheorems, TLAPS

-----------------------------------------------------------------------------
(* Orders *)

(* What createOrder has priced: a basket over the minimum and a fee that   *)
(* computeDeliveryFeeXAF can return.                                       *)
IsPriced(o) ==
    /\ o.sub \in Nat \ {0} /\ o.fee \in 500..1500 /\ o.fee % 50 = 0
    /\ o.sub + o.fee >= MIN_ORDER_XAF

(* What a call holds at each step. *)
CallIsPriced ==
    \A c \in OrderCalls :
      /\ orderCall[c].at # "idle" => orderCall[c].by \in Consumers
      /\ orderCall[c].at \in {"redeem", "commit"} => IsPriced(orderCall[c])
      /\ orderCall[c].at = "commit" =>
           /\ orderCall[c].off <= orderCall[c].sub + orderCall[c].fee
           /\ orderCall[c].uses = 0 => orderCall[c].off = 0

(* TotalsAddUp, with what the totals are made of. *)
OrderIsPriced ==
    \A i \in PlacedNow :
      /\ IsPriced(placed[i])
      /\ placed[i].off <= placed[i].sub + placed[i].fee
      /\ placed[i].total = placed[i].sub + placed[i].fee - placed[i].off

(* The orders that took the coupon, and the calls about to. *)
Uses == {i \in PlacedNow : placed[i].used = 1}
Counting == {c \in OrderCalls : orderCall[c].at = "commit" /\ orderCall[c].uses = 1}

(* The CouponRedemption rows are those of the orders; the uses counted and *)
(* those about to be are bounded.                                          *)
CouponIsCounted ==
    /\ redeemed = {placed[i].by : i \in Uses}
    /\ \A i, j \in Uses : placed[i].by = placed[j].by => i = j
    /\ coupon.count = Cardinality(Uses)
    /\ coupon.count + Cardinality(Counting) <= MaxRedemptions + MaxOrderCalls - 1

(* Any set of orders is finite, any set of calls as small as these are few.*)
LEMMA FewOrderCalls ==
    /\ \A S \in SUBSET PlacedIds : IsFiniteSet(S) /\ Cardinality(S) \in Nat
    /\ \A S \in SUBSET OrderCalls :
         IsFiniteSet(S) /\ Cardinality(S) \in Nat /\ Cardinality(S) <= MaxOrderCalls
<1>1. IsFiniteSet(OrderCalls) /\ Cardinality(OrderCalls) = MaxOrderCalls
  BY OrderingAssumption, FS_Interval DEF OrderCalls
<1>2. IsFiniteSet(PlacedIds)
  BY OrderingAssumption, FS_Interval DEF PlacedIds
<1> QED
  BY <1>1, <1>2, FS_Subset, FS_CardinalityType

(* computeDeliveryFeeXAF returns a multiple of 50 between 500 and 1500. *)
LEMMA FeeIsRound ==
    \A hm \in Nat : DeliveryFee(hm) \in 500..1500 /\ DeliveryFee(hm) % 50 = 0
  BY DEF DeliveryFee

(* A line of the cart costs something. *)
LEMMA LineCosts == \A a, b \in Nat \ {0} : a * b \in Nat \ {0}
<1> TAKE a, b \in Nat \ {0}
<1>1. a * b \in Nat
  OBVIOUS
<1>2. a * b # 0
  BY SMT
<1> QED
  BY <1>1, <1>2

(* computeDiscount takes off no more than there is. *)
LEMMA DiscountFits ==
    ASSUME OrderingTypeOK, NEW sub \in Nat, NEW fee \in Nat
    PROVE  Discount(sub, fee) \in Nat /\ Discount(sub, fee) <= sub + fee
  BY OrderingAssumption DEF Discount, OrderingTypeOK

(* The transaction adds one order, with what its call holds. *)
LEMMA CommitPlaces ==
    ASSUME OrderingTypeOK, NEW c \in OrderCalls, CommitOrder(c)
    PROVE  \E i \in PlacedIds :
             /\ placed[i].state = "none" /\ i \notin PlacedNow
             /\ placed' = [placed EXCEPT ![i] = OrderOf(orderCall[c])]
             /\ PlacedNow' = PlacedNow \cup {i}
             /\ \A j \in PlacedNow : placed'[j] = placed[j]
             /\ placed'[i] = OrderOf(orderCall[c])
<1>1. PICK i \in PlacedIds : placed[i] = NoOrder /\ placed' = [placed EXCEPT ![i] = OrderOf(orderCall[c])]
  BY DEF CommitOrder, Append1
<1>2. placed[i].state = "none" /\ OrderOf(orderCall[c]).state = "PENDING"
  BY <1>1 DEF NoOrder, OrderOf
<1> QED
  BY <1>1, <1>2 DEF OrderingTypeOK, PlacedNow

(* What is paid or cancelled keeps everything but its state. *)
LEMMA TurnsState ==
    ASSUME OrderingTypeOK, NEW i \in PlacedIds, PayPlaced(i) \/ CancelPlaced(i)
    PROVE  /\ placed' \in [PlacedIds -> [by : Consumers \cup {Nobody}, key : {0, 1}, sub : Nat,
                fee : Nat, off : Nat, used : {0, 1}, total : Nat,
                state : {"none", "PENDING", "PAID", "CANCELLED"}]]
           /\ PlacedNow' = PlacedNow
           /\ \A j \in PlacedIds :
                /\ placed'[j].by = placed[j].by /\ placed'[j].key = placed[j].key
                /\ placed'[j].sub = placed[j].sub /\ placed'[j].fee = placed[j].fee
                /\ placed'[j].off = placed[j].off /\ placed'[j].used = placed[j].used
                /\ placed'[j].total = placed[j].total
           /\ UNCHANGED <<open, price, coupon, redeemed, orderCall>>
  BY DEF PayPlaced, CancelPlaced, OrderTurns, OrderingTypeOK, Amount, PlacedNow

(* The values of a call. *)
CallRecord == [at : {"idle", "read", "redeem", "commit"}, by : Consumers \cup {Nobody},
               key : {0, 1}, uses : {0, 1}, sub : Nat, fee : Nat, off : Nat]

(* What a call may hold after a step. *)
CallFits(call) ==
    /\ call \in CallRecord
    /\ call.at # "idle" => call.by \in Consumers
    /\ call.at \in {"redeem", "commit"} => IsPriced(call)
    /\ call.at = "commit" =>
         /\ call.off <= call.sub + call.fee
         /\ call.uses = 0 => call.off = 0
         /\ call.uses = 1 => coupon.count < MaxRedemptions

(* A step of a call other than the transaction: it is idle again, or holds *)
(* what the step it is at needs, and no order is touched.                  *)
LEMMA CallGoesOn ==
    ASSUME OrderingTypeOK, CallIsPriced, NEW c \in OrderCalls,
           CreateOrder(c) \/ ReadCart(c) \/ ReadCoupon(c) \/ OrderFails(c)
    PROVE  \E call : /\ CallFits(call)
                     /\ orderCall' = [orderCall EXCEPT ![c] = call]
                     /\ UNCHANGED shopRows
<1> USE DEF CallFits
<1>0. /\ orderCall[c] \in CallRecord /\ coupon.count \in Nat
      /\ orderCall[c].at # "idle" => orderCall[c].by \in Consumers
      /\ orderCall[c].at \in {"redeem", "commit"} => IsPriced(orderCall[c])
  BY DEF OrderingTypeOK, Amount, CallRecord, CallIsPriced
<1>1. CASE OrderGivesUp(c)
  <2>1. CallFits(NoCall)
    BY DEF NoCall, CallRecord
  <2> QED
    BY <1>1, <2>1 DEF OrderGivesUp
<1>2. CASE CreateOrder(c)
  <2>1. PICK u \in Consumers, k \in {0, 1} :
          OrderGoes(c, [NoCall EXCEPT !.at = "read", !.by = u, !.key = k])
    BY <1>2 DEF CreateOrder
  <2> DEFINE call == [NoCall EXCEPT !.at = "read", !.by = u, !.key = k]
  <2>2. CallFits(call)
    BY DEF NoCall, CallRecord
  <2> HIDE DEF call
  <2> QED
    BY <1>2, <2>1, <2>2 DEF CreateOrder, OrderGoes, call
<1>3. CASE ReadCart(c)
  <2>1. PICK qty \in Quantities, hm \in Distances, uses \in 0..(1 - orderCall[c].key) :
          \/ /\ price * qty + DeliveryFee(hm) >= MIN_ORDER_XAF
             /\ OrderGoes(c, [orderCall[c] EXCEPT !.at = "redeem", !.sub = price * qty,
                                  !.fee = DeliveryFee(hm), !.uses = uses])
             /\ UNCHANGED shopRows
          \/ OrderGivesUp(c)
    BY <1>3 DEF ReadCart
  <2> DEFINE sub == price * qty
             fee == DeliveryFee(hm)
             r == orderCall[c]
             call == [r EXCEPT !.at = "redeem", !.sub = sub, !.fee = fee, !.uses = uses]
  <2>2. sub \in Nat \ {0} /\ fee \in 500..1500 /\ fee % 50 = 0 /\ uses \in {0, 1}
    <3>1. price \in Nat \ {0} /\ qty \in Nat \ {0} /\ hm \in Nat
      BY OrderingAssumption DEF OrderingTypeOK
    <3>2. sub \in Nat \ {0}
      BY <3>1, LineCosts
    <3>3. fee \in 500..1500 /\ fee % 50 = 0
      BY <3>1, FeeIsRound
    <3>4. uses \in {0, 1}
      BY <1>0 DEF CallRecord
    <3> QED
      BY <3>2, <3>3, <3>4
  <2> HIDE DEF sub, fee
  <2>3. CASE /\ sub + fee >= MIN_ORDER_XAF
             /\ OrderGoes(c, call) /\ UNCHANGED shopRows
    <3>1. orderCall[c].at = "read"
      BY <1>3 DEF ReadCart
    <3>2. sub \in Nat /\ fee \in Nat
      BY <2>2
    <3>3. r \in CallRecord /\ uses \in {0, 1} /\ (r.at # "idle" => r.by \in Consumers)
      BY <1>0, <2>2
    <3>4. OrderGoes(c, call) /\ r.at = "read" /\ sub + fee >= MIN_ORDER_XAF
      BY <2>3, <3>1
    <3> HIDE DEF r
    <3>7. call \in CallRecord
      BY <3>2, <3>3 DEF CallRecord
    <3>6. call.at = "redeem" /\ call.by = r.by /\ call.sub = sub /\ call.fee = fee
      BY <3>2, <3>3 DEF CallRecord
    <3> HIDE DEF call
    <3>5. CallFits(call)
      BY <2>2, <3>3, <3>4, <3>6, <3>7 DEF IsPriced
    <3> QED
      BY <2>3, <3>4, <3>5 DEF OrderGoes
  <2> QED
    BY <1>1, <2>1, <2>3 DEF sub, fee
<1>4. CASE ReadCoupon(c) /\ ~OrderGivesUp(c)
  <2> DEFINE uses == orderCall[c].uses
             d == Discount(orderCall[c].sub, orderCall[c].fee)
             off == uses * d
             call == [orderCall[c] EXCEPT !.at = "commit", !.off = off]
  <2>1. /\ orderCall[c].at = "redeem"
        /\ uses = 1 => coupon.count < MaxRedemptions
        /\ OrderGoes(c, call) /\ UNCHANGED shopRows
    BY <1>4 DEF ReadCoupon, CouponHolds
  <2>2. uses \in {0, 1} /\ d \in Nat /\ d <= orderCall[c].sub + orderCall[c].fee
    BY <1>0, DiscountFits DEF CallRecord
  <2> HIDE DEF d
  <2>3. /\ off \in Nat /\ off <= orderCall[c].sub + orderCall[c].fee
        /\ uses = 0 => off = 0
    BY <1>0, <2>2 DEF CallRecord
  <2> HIDE DEF off
  <2>4. /\ call \in CallRecord /\ call.at = "commit" /\ call.by = orderCall[c].by
        /\ call.sub = orderCall[c].sub /\ call.fee = orderCall[c].fee
        /\ call.uses = uses /\ call.off = off
    BY <1>0, <2>3 DEF CallRecord
  <2>5. OrderGoes(c, call) /\ UNCHANGED shopRows
    BY <2>1
  <2> HIDE DEF call, uses
  <2>6. CallFits(call)
    BY <1>0, <2>1, <2>2, <2>3, <2>4 DEF IsPriced
  <2> QED
    BY <2>5, <2>6 DEF OrderGoes
<1> QED
  BY <1>1, <1>2, <1>3, <1>4 DEF OrderFails

(* Every step keeps to the types, ... *)
LEMMA StepOrderingType ==
    OrderingTypeOK /\ CallIsPriced /\ [OrderingNext]_orderingVars
      => OrderingTypeOK'
<1> SUFFICES ASSUME OrderingTypeOK, CallIsPriced, [OrderingNext]_orderingVars
             PROVE  OrderingTypeOK'
  OBVIOUS
<1> USE DEF OrderingTypeOK, Amount, OrderGoes, OrderGivesUp, shopRows, NoCall, OrderTurns
<1>1. ASSUME NEW c \in OrderCalls, CreateOrder(c) PROVE OrderingTypeOK'
  BY <1>1, CallGoesOn DEF CallFits, CallRecord
<1>2. ASSUME NEW c \in OrderCalls, ReadCart(c) PROVE OrderingTypeOK'
  BY <1>2, CallGoesOn DEF CallFits, CallRecord
<1>3. ASSUME NEW c \in OrderCalls, ReadCoupon(c) PROVE OrderingTypeOK'
  BY <1>3, CallGoesOn DEF CallFits, CallRecord
<1>4. ASSUME NEW c \in OrderCalls, CommitOrder(c) PROVE OrderingTypeOK'
  <2>1. PICK i \in PlacedIds : placed' = [placed EXCEPT ![i] = OrderOf(orderCall[c])]
    BY <1>4, CommitPlaces
  <2>2. OrderOf(orderCall[c]) \in [by : Consumers \cup {Nobody}, key : {0, 1}, sub : Nat, fee : Nat,
          off : Nat, used : {0, 1}, total : Nat, state : {"none", "PENDING", "PAID", "CANCELLED"}]
    <3>1. /\ orderCall[c].off <= orderCall[c].sub + orderCall[c].fee
          /\ orderCall[c] \in CallRecord
      BY <1>4 DEF CommitOrder, CallIsPriced, CallRecord
    <3> QED
      BY <3>1 DEF OrderOf, CallRecord
  <2>3. placed' \in [PlacedIds -> [by : Consumers \cup {Nobody}, key : {0, 1}, sub : Nat, fee : Nat,
          off : Nat, used : {0, 1}, total : Nat, state : {"none", "PENDING", "PAID", "CANCELLED"}]]
    BY <2>1, <2>2
  <2>4. /\ orderCall[c].uses \in {0, 1} /\ orderCall[c].by \in Consumers
        /\ coupon' = [coupon EXCEPT !.count = @ + orderCall[c].uses]
        /\ redeemed' \in {redeemed, redeemed \cup {orderCall[c].by}}
    BY <1>4 DEF CommitOrder, CallIsPriced
  <2>5. redeemed' \subseteq Consumers
    BY <2>4
  <2>6. coupon' \in [type : {"FREE_DELIVERY", "FIXED_AMOUNT_OFF"}, valid : {0, 1}, count : Nat]
    BY <2>4
  <2> QED
    BY <1>4, <2>3, <2>5, <2>6 DEF CommitOrder
<1>5. ASSUME NEW c \in OrderCalls, OrderFails(c) PROVE OrderingTypeOK'
  BY <1>5, CallGoesOn DEF CallFits, CallRecord
<1>6. ASSUME NEW i \in PlacedIds, PayPlaced(i) PROVE OrderingTypeOK'
  BY <1>6, TurnsState
<1>7. ASSUME NEW i \in PlacedIds, CancelPlaced(i) PROVE OrderingTypeOK'
  BY <1>7, TurnsState
<1>8. CASE ShopToggles
  BY <1>8 DEF ShopToggles
<1>9. CASE PriceChanges
  BY <1>9 DEF PriceChanges
<1>10. CASE CouponEnds
  BY <1>10 DEF CouponEnds
<1>11. CASE UNCHANGED orderingVars
  BY <1>11 DEF orderingVars
<1> QED
  BY <1>1, <1>2, <1>3, <1>4, <1>5, <1>6, <1>7, <1>8, <1>9, <1>10, <1>11
  DEF OrderingNext

(* ... to what the calls hold, ... *)
LEMMA StepCallIsPriced ==
    OrderingTypeOK /\ CallIsPriced /\ [OrderingNext]_orderingVars
      => CallIsPriced'
<1> SUFFICES ASSUME OrderingTypeOK, CallIsPriced, [OrderingNext]_orderingVars
             PROVE  CallIsPriced'
  OBVIOUS
<1> USE DEF OrderingTypeOK, Amount, CallIsPriced, OrderGoes, OrderGivesUp, shopRows, NoCall,
            OrderTurns
<1>1. ASSUME NEW c \in OrderCalls, CreateOrder(c) PROVE CallIsPriced'
  BY <1>1, CallGoesOn DEF CallFits, CallRecord
<1>2. ASSUME NEW c \in OrderCalls, ReadCart(c) PROVE CallIsPriced'
  BY <1>2, CallGoesOn DEF CallFits, CallRecord
<1>3. ASSUME NEW c \in OrderCalls, ReadCoupon(c) PROVE CallIsPriced'
  BY <1>3, CallGoesOn DEF CallFits, CallRecord
<1>4. ASSUME NEW c \in OrderCalls, CommitOrder(c) PROVE CallIsPriced'
  BY <1>4 DEF CommitOrder
<1>5. ASSUME NEW c \in OrderCalls, OrderFails(c) PROVE CallIsPriced'
  BY <1>5, CallGoesOn DEF CallFits, CallRecord
<1>6. ASSUME NEW i \in PlacedIds, PayPlaced(i) PROVE CallIsPriced'
  BY <1>6 DEF PayPlaced
<1>7. ASSUME NEW i \in PlacedIds, CancelPlaced(i) PROVE CallIsPriced'
  BY <1>7 DEF CancelPlaced
<1>8. CASE ShopToggles
  BY <1>8 DEF ShopToggles
<1>9. CASE PriceChanges
  BY <1>9 DEF PriceChanges
<1>10. CASE CouponEnds
  BY <1>10 DEF CouponEnds
<1>11. CASE UNCHANGED orderingVars
  BY <1>11 DEF orderingVars
<1> HIDE DEF CallIsPriced
<1> QED
  BY <1>1, <1>2, <1>3, <1>4, <1>5, <1>6, <1>7, <1>8, <1>9, <1>10, <1>11
  DEF OrderingNext

(* ... to what the orders cost, ... *)
LEMMA StepOrderIsPriced ==
    OrderingTypeOK /\ CallIsPriced /\ OrderIsPriced /\ [OrderingNext]_orderingVars
      => OrderIsPriced'
<1> SUFFICES ASSUME OrderingTypeOK, CallIsPriced, OrderIsPriced, [OrderingNext]_orderingVars
             PROVE  OrderIsPriced'
  OBVIOUS
<1> USE DEF OrderIsPriced, PlacedNow
<1>1. ASSUME NEW c \in OrderCalls, CreateOrder(c) PROVE OrderIsPriced'
  BY <1>1, CallGoesOn DEF shopRows
<1>2. ASSUME NEW c \in OrderCalls, ReadCart(c) PROVE OrderIsPriced'
  BY <1>2, CallGoesOn DEF shopRows
<1>3. ASSUME NEW c \in OrderCalls, ReadCoupon(c) PROVE OrderIsPriced'
  BY <1>3, CallGoesOn DEF shopRows
<1>4. ASSUME NEW c \in OrderCalls, CommitOrder(c) PROVE OrderIsPriced'
  <2>1. PICK i \in PlacedIds : /\ PlacedNow' = PlacedNow \cup {i}
                               /\ \A j \in PlacedNow : placed'[j] = placed[j]
                               /\ placed'[i] = OrderOf(orderCall[c])
    BY <1>4, CommitPlaces
  <2>2. /\ IsPriced(orderCall[c])
        /\ orderCall[c].off <= orderCall[c].sub + orderCall[c].fee
    BY <1>4 DEF CommitOrder, CallIsPriced
  <2> DEFINE o == OrderOf(orderCall[c])
  <2>3. /\ o.sub = orderCall[c].sub /\ o.fee = orderCall[c].fee /\ o.off = orderCall[c].off
        /\ o.total = orderCall[c].sub + orderCall[c].fee - orderCall[c].off
    BY DEF OrderOf
  <2>5. placed'[i] = o
    BY <2>1
  <2> HIDE DEF PlacedNow, o
  <2>4. IsPriced(o) /\ o.off <= o.sub + o.fee /\ o.total = o.sub + o.fee - o.off
    BY <2>2, <2>3 DEF IsPriced
  <2> QED
    BY <2>1, <2>4, <2>5
<1>5. ASSUME NEW c \in OrderCalls, OrderFails(c) PROVE OrderIsPriced'
  BY <1>5, CallGoesOn DEF shopRows
<1>6. ASSUME NEW i \in PlacedIds, PayPlaced(i) PROVE OrderIsPriced'
  BY <1>6, TurnsState DEF IsPriced, OrderingTypeOK
<1>7. ASSUME NEW i \in PlacedIds, CancelPlaced(i) PROVE OrderIsPriced'
  BY <1>7, TurnsState DEF IsPriced, OrderingTypeOK
<1>8. CASE ShopToggles
  BY <1>8 DEF ShopToggles
<1>9. CASE PriceChanges
  BY <1>9 DEF PriceChanges
<1>10. CASE CouponEnds
  BY <1>10 DEF CouponEnds
<1>11. CASE UNCHANGED orderingVars
  BY <1>11 DEF orderingVars
<1> QED
  BY <1>1, <1>2, <1>3, <1>4, <1>5, <1>6, <1>7, <1>8, <1>9, <1>10, <1>11
  DEF OrderingNext

(* ... to one order for a key, ... *)
LEMMA StepKey ==
    OrderingTypeOK /\ CallIsPriced /\ OneOrderPerKey /\ [OrderingNext]_orderingVars
      => OneOrderPerKey'
<1> SUFFICES ASSUME OrderingTypeOK, CallIsPriced, OneOrderPerKey, [OrderingNext]_orderingVars
             PROVE  OneOrderPerKey'
  OBVIOUS
<1> USE DEF OneOrderPerKey, PlacedNow, OrderGoes, OrderGivesUp, shopRows, NoCall, OrderTurns
<1>1. ASSUME NEW c \in OrderCalls, CreateOrder(c) PROVE OneOrderPerKey'
  BY <1>1, CallGoesOn DEF shopRows
<1>2. ASSUME NEW c \in OrderCalls, ReadCart(c) PROVE OneOrderPerKey'
  BY <1>2, CallGoesOn DEF shopRows
<1>3. ASSUME NEW c \in OrderCalls, ReadCoupon(c) PROVE OneOrderPerKey'
  BY <1>3, CallGoesOn DEF shopRows
<1>4. ASSUME NEW c \in OrderCalls, CommitOrder(c) PROVE OneOrderPerKey'
  <2>1. PICK i \in PlacedIds : /\ PlacedNow' = PlacedNow \cup {i}
                               /\ \A j \in PlacedNow : placed'[j] = placed[j]
                               /\ placed'[i] = OrderOf(orderCall[c])
    BY <1>4, CommitPlaces
  <2>2. KeyIsNew(orderCall[c])
    BY <1>4 DEF CommitOrder
  <2> HIDE DEF PlacedNow
  <2> QED
    BY <2>1, <2>2 DEF OrderOf, KeyIsNew
<1>5. ASSUME NEW c \in OrderCalls, OrderFails(c) PROVE OneOrderPerKey'
  BY <1>5, CallGoesOn DEF shopRows
<1>6. ASSUME NEW i \in PlacedIds, PayPlaced(i) PROVE OneOrderPerKey'
  BY <1>6, TurnsState DEF OrderingTypeOK
<1>7. ASSUME NEW i \in PlacedIds, CancelPlaced(i) PROVE OneOrderPerKey'
  BY <1>7, TurnsState DEF OrderingTypeOK
<1>8. CASE ShopToggles
  BY <1>8 DEF ShopToggles
<1>9. CASE PriceChanges
  BY <1>9 DEF PriceChanges
<1>10. CASE CouponEnds
  BY <1>10 DEF CouponEnds
<1>11. CASE UNCHANGED orderingVars
  BY <1>11 DEF orderingVars
<1> QED
  BY <1>1, <1>2, <1>3, <1>4, <1>5, <1>6, <1>7, <1>8, <1>9, <1>10, <1>11
  DEF OrderingNext

(* (What touches no order with the coupon, nor its count.) *)
LEMMA CouponKept ==
    ASSUME OrderingTypeOK, CouponIsCounted, Uses' = Uses,
           \A i \in Uses : placed'[i].by = placed[i].by,
           redeemed' = redeemed, coupon'.count = coupon.count,
           coupon.count < MaxRedemptions \/ Counting' \subseteq Counting
    PROVE  CouponIsCounted'
<1>1. /\ IsFiniteSet(Counting) /\ Cardinality(Counting) \in Nat
      /\ Cardinality(Counting') \in Nat /\ Cardinality(Counting') <= MaxOrderCalls
  <2>1. Counting \in SUBSET OrderCalls /\ Counting' \in SUBSET OrderCalls
    BY DEF Counting
  <2> QED
    BY <2>1, FewOrderCalls
<1>2. coupon.count \in Nat
  BY DEF OrderingTypeOK
<1>3. coupon.count + Cardinality(Counting') <= MaxRedemptions + MaxOrderCalls - 1
  <2>1. CASE coupon.count < MaxRedemptions
    BY <1>1, <1>2, <2>1, OrderingAssumption
  <2>2. CASE Counting' \subseteq Counting
    <3>1. Cardinality(Counting') <= Cardinality(Counting)
      BY <1>1, <2>2, FS_Subset
    <3> QED
      BY <1>1, <1>2, <3>1, OrderingAssumption DEF CouponIsCounted
  <2> QED
    BY <2>1, <2>2
<1> QED
  BY <1>3 DEF CouponIsCounted

(* ... and to the count of the coupon. *)
LEMMA StepCoupon ==
    OrderingTypeOK /\ CallIsPriced /\ CouponIsCounted /\ [OrderingNext]_orderingVars
      => CouponIsCounted'
<1> SUFFICES ASSUME OrderingTypeOK, CallIsPriced, CouponIsCounted, [OrderingNext]_orderingVars
             PROVE  CouponIsCounted'
  OBVIOUS
<1>1. ASSUME NEW c \in OrderCalls, CreateOrder(c) PROVE CouponIsCounted'
  <2>1. PICK call : /\ CallFits(call)
                    /\ orderCall' = [orderCall EXCEPT ![c] = call]
                    /\ UNCHANGED shopRows
    BY <1>1, CallGoesOn
  <2>2. Uses' = Uses
    BY <2>1 DEF Uses, PlacedNow, shopRows
  <2>3. coupon.count < MaxRedemptions \/ Counting' \subseteq Counting
    <3>1. coupon.count < MaxRedemptions \/ ~(call.at = "commit" /\ call.uses = 1)
      BY <2>1 DEF CallFits
    <3>2. \A d \in OrderCalls : orderCall'[d] = IF d = c THEN call ELSE orderCall[d]
      BY <2>1 DEF OrderingTypeOK
    <3> QED
      BY <3>1, <3>2 DEF Counting
  <2> QED
    BY <2>1, <2>2, <2>3, CouponKept DEF shopRows
<1>2. ASSUME NEW c \in OrderCalls, ReadCart(c) PROVE CouponIsCounted'
  <2>1. PICK call : /\ CallFits(call)
                    /\ orderCall' = [orderCall EXCEPT ![c] = call]
                    /\ UNCHANGED shopRows
    BY <1>2, CallGoesOn
  <2>2. Uses' = Uses
    BY <2>1 DEF Uses, PlacedNow, shopRows
  <2>3. coupon.count < MaxRedemptions \/ Counting' \subseteq Counting
    <3>1. coupon.count < MaxRedemptions \/ ~(call.at = "commit" /\ call.uses = 1)
      BY <2>1 DEF CallFits
    <3>2. \A d \in OrderCalls : orderCall'[d] = IF d = c THEN call ELSE orderCall[d]
      BY <2>1 DEF OrderingTypeOK
    <3> QED
      BY <3>1, <3>2 DEF Counting
  <2> QED
    BY <2>1, <2>2, <2>3, CouponKept DEF shopRows
<1>3. ASSUME NEW c \in OrderCalls, ReadCoupon(c) PROVE CouponIsCounted'
  <2>1. PICK call : /\ CallFits(call)
                    /\ orderCall' = [orderCall EXCEPT ![c] = call]
                    /\ UNCHANGED shopRows
    BY <1>3, CallGoesOn
  <2>2. Uses' = Uses
    BY <2>1 DEF Uses, PlacedNow, shopRows
  <2>3. coupon.count < MaxRedemptions \/ Counting' \subseteq Counting
    <3>1. coupon.count < MaxRedemptions \/ ~(call.at = "commit" /\ call.uses = 1)
      BY <2>1 DEF CallFits
    <3>2. \A d \in OrderCalls : orderCall'[d] = IF d = c THEN call ELSE orderCall[d]
      BY <2>1 DEF OrderingTypeOK
    <3> QED
      BY <3>1, <3>2 DEF Counting
  <2> QED
    BY <2>1, <2>2, <2>3, CouponKept DEF shopRows
<1>4. ASSUME NEW c \in OrderCalls, CommitOrder(c) PROVE CouponIsCounted'
  <2>1. PICK i \in PlacedIds : /\ i \notin PlacedNow
                               /\ PlacedNow' = PlacedNow \cup {i}
                               /\ \A j \in PlacedNow : placed'[j] = placed[j]
                               /\ placed'[i] = OrderOf(orderCall[c])
    BY <1>4, CommitPlaces
  <2>2. /\ placed'[i].by = orderCall[c].by /\ placed'[i].used = orderCall[c].uses
        /\ orderCall[c].uses \in {0, 1} /\ orderCall[c].at = "commit"
        /\ RedemptionIsNew(orderCall[c])
        /\ redeemed' = IF orderCall[c].uses = 1 THEN redeemed \cup {orderCall[c].by} ELSE redeemed
        /\ coupon'.count = coupon.count + orderCall[c].uses
        /\ orderCall' = [orderCall EXCEPT ![c] = NoCall]
    BY <1>4, <2>1 DEF CommitOrder, OrderOf, OrderingTypeOK
  <2>3. Counting' = Counting \ {c}
    BY <2>2 DEF Counting, NoCall, OrderingTypeOK
  <2>4. CASE orderCall[c].uses = 0
    <3>1. Uses' = Uses
      BY <2>1, <2>2, <2>4 DEF Uses
    <3>2. coupon'.count = coupon.count /\ redeemed' = redeemed
      BY <2>2, <2>4 DEF OrderingTypeOK
    <3> QED
      BY <2>1, <2>3, <3>1, <3>2, CouponKept DEF Uses
  <2>5. CASE orderCall[c].uses = 1
    <3>1. Uses' = Uses \cup {i} /\ i \notin Uses
      BY <2>1, <2>2, <2>5 DEF Uses
    <3>2. c \in Counting
      BY <2>2, <2>5 DEF Counting
    <3>3. /\ IsFiniteSet(Counting) /\ Cardinality(Counting) \in Nat
          /\ IsFiniteSet(Uses) /\ Cardinality(Uses) \in Nat
      <4>1. Counting \in SUBSET OrderCalls /\ Uses \in SUBSET PlacedIds
        BY DEF Counting, Uses, PlacedNow
      <4> QED
        BY <4>1, FewOrderCalls
    <3>4. Cardinality(Counting') = Cardinality(Counting) - 1
      BY <2>3, <3>2, <3>3, FS_RemoveElement
    <3>5. Cardinality(Uses') = Cardinality(Uses) + 1
      BY <3>1, <3>3, FS_AddElement
    <3>6. \A j \in Uses : placed'[j] = placed[j] /\ placed[j].by \in redeemed
      BY <2>1 DEF Uses, CouponIsCounted
    <3>7. placed'[i].by \notin redeemed /\ redeemed' = redeemed \cup {placed'[i].by}
      BY <2>2, <2>5 DEF RedemptionIsNew
    <3>8. redeemed' = {placed'[j].by : j \in Uses'}
      BY <3>1, <3>6, <3>7 DEF CouponIsCounted
    <3>9. \A j, k \in Uses' : placed'[j].by = placed'[k].by => j = k
      BY <3>1, <3>6, <3>7 DEF CouponIsCounted
    <3>10. coupon'.count = coupon.count + 1 /\ coupon.count \in Nat
      BY <2>2, <2>5 DEF OrderingTypeOK
    <3>11. /\ coupon'.count = Cardinality(Uses')
           /\ coupon'.count + Cardinality(Counting') <= MaxRedemptions + MaxOrderCalls - 1
      BY <3>3, <3>4, <3>5, <3>10, OrderingAssumption DEF CouponIsCounted
    <3> QED
      BY <3>8, <3>9, <3>11 DEF CouponIsCounted
  <2> QED
    BY <2>2, <2>4, <2>5
<1>5. ASSUME NEW c \in OrderCalls, OrderFails(c) PROVE CouponIsCounted'
  <2>1. PICK call : /\ CallFits(call)
                    /\ orderCall' = [orderCall EXCEPT ![c] = call]
                    /\ UNCHANGED shopRows
    BY <1>5, CallGoesOn
  <2>2. Uses' = Uses
    BY <2>1 DEF Uses, PlacedNow, shopRows
  <2>3. coupon.count < MaxRedemptions \/ Counting' \subseteq Counting
    <3>1. coupon.count < MaxRedemptions \/ ~(call.at = "commit" /\ call.uses = 1)
      BY <2>1 DEF CallFits
    <3>2. \A d \in OrderCalls : orderCall'[d] = IF d = c THEN call ELSE orderCall[d]
      BY <2>1 DEF OrderingTypeOK
    <3> QED
      BY <3>1, <3>2 DEF Counting
  <2> QED
    BY <2>1, <2>2, <2>3, CouponKept DEF shopRows
<1>6. ASSUME NEW i \in PlacedIds, PayPlaced(i) PROVE CouponIsCounted'
  <2>1. Uses' = Uses /\ Counting' = Counting
    BY <1>6, TurnsState DEF Uses, PlacedNow, Counting
  <2> QED
    BY <1>6, <2>1, TurnsState, CouponKept DEF Uses, PlacedNow
<1>7. ASSUME NEW i \in PlacedIds, CancelPlaced(i) PROVE CouponIsCounted'
  <2>1. Uses' = Uses /\ Counting' = Counting
    BY <1>7, TurnsState DEF Uses, PlacedNow, Counting
  <2> QED
    BY <1>7, <2>1, TurnsState, CouponKept DEF Uses, PlacedNow
<1>8. CASE ShopToggles
  <2>1. Uses' = Uses /\ Counting' = Counting
    BY <1>8 DEF ShopToggles, Uses, PlacedNow, Counting
  <2> QED
    BY <1>8, <2>1, CouponKept DEF ShopToggles, OrderingTypeOK
<1>9. CASE PriceChanges
  <2>1. Uses' = Uses /\ Counting' = Counting
    BY <1>9 DEF PriceChanges, Uses, PlacedNow, Counting
  <2> QED
    BY <1>9, <2>1, CouponKept DEF PriceChanges, OrderingTypeOK
<1>10. CASE CouponEnds
  <2>1. Uses' = Uses /\ Counting' = Counting
    BY <1>10 DEF CouponEnds, Uses, PlacedNow, Counting
  <2> QED
    BY <1>10, <2>1, CouponKept DEF CouponEnds, OrderingTypeOK
<1>11. CASE UNCHANGED orderingVars
  <2>1. Uses' = Uses /\ Counting' = Counting
    BY <1>11 DEF orderingVars, Uses, PlacedNow, Counting
  <2> QED
    BY <1>11, <2>1, CouponKept DEF orderingVars
<1> QED
  BY <1>1, <1>2, <1>3, <1>4, <1>5, <1>6, <1>7, <1>8, <1>9, <1>10, <1>11
  DEF OrderingNext

(* At first nothing is ordered. *)
LEMMA InitOrdering ==
    OrderingInit => /\ OrderingTypeOK /\ CallIsPriced /\ OrderIsPriced
                    /\ OneOrderPerKey /\ CouponIsCounted
<1> SUFFICES ASSUME OrderingInit
             PROVE  /\ OrderingTypeOK /\ CallIsPriced /\ OrderIsPriced
                    /\ OneOrderPerKey /\ CouponIsCounted
  OBVIOUS
<1>1. OrderingTypeOK /\ CallIsPriced
  BY DEF OrderingInit, OrderingTypeOK, Amount, CallIsPriced, NoOrder, NoCall
<1>2. PlacedNow = {} /\ Counting = {}
  BY DEF OrderingInit, PlacedNow, Counting, NoOrder, NoCall
<1>3. OrderIsPriced /\ OneOrderPerKey
  BY <1>2 DEF OrderIsPriced, OneOrderPerKey
<1>4. CouponIsCounted
  <2>1. Uses = {}
    BY <1>2 DEF Uses
  <2> QED
    BY <1>2, <2>1, FS_EmptySet, OrderingAssumption DEF CouponIsCounted, OrderingInit
<1> QED
  BY <1>1, <1>3, <1>4

(* The running sums of the legs, as LedgerAccepts takes them. *)
RunningSum(legs) ==
    CHOOSE sum : sum = [i \in 0..Len(legs) |-> IF i = 0 THEN 0 ELSE sum[i - 1] + legs[i]]

(* ... which say whether the ledger takes them. *)
LEMMA RunningSumIs ==
    ASSUME NEW legs, NEW f,
           f = [i \in 0..Len(legs) |-> IF i = 0 THEN 0 ELSE f[i - 1] + legs[i]]
    PROVE  /\ RunningSum(legs) = [i \in 0..Len(legs) |->
                IF i = 0 THEN 0 ELSE RunningSum(legs)[i - 1] + legs[i]]
           /\ LedgerAccepts(legs) <=>
                RunningSum(legs)[Len(legs)] = 0 /\ \A i \in DOMAIN legs : legs[i] # 0
<1>1. RunningSum(legs) = [i \in 0..Len(legs) |->
        IF i = 0 THEN 0 ELSE RunningSum(legs)[i - 1] + legs[i]]
  BY DEF RunningSum
<1>2. LedgerAccepts(legs) <=>
        RunningSum(legs)[Len(legs)] = 0 /\ \A i \in DOMAIN legs : legs[i] # 0
  BY DEF LedgerAccepts, RunningSum
<1> QED
  BY <1>1, <1>2

(* Four legs, none of them zero, that sum to zero, are accepted. *)
LEMMA FourLegs ==
    ASSUME NEW a \in Int \ {0}, NEW b \in Int \ {0}, NEW c \in Int \ {0}, NEW d \in Int \ {0},
           a + b + c + d = 0
    PROVE  LedgerAccepts(<<a, b, c, d>>)
<1> DEFINE legs == <<a, b, c, d>>
           s == RunningSum(legs)
           f == [i \in 0..4 |-> IF i = 0 THEN 0 ELSE IF i = 1 THEN a ELSE IF i = 2 THEN a + b
                                ELSE IF i = 3 THEN a + b + c ELSE a + b + c + d]
<1>1. /\ Len(legs) = 4 /\ DOMAIN legs = 1..4
      /\ legs[1] = a /\ legs[2] = b /\ legs[3] = c /\ legs[4] = d
  OBVIOUS
<1> HIDE DEF legs
<1>2. \A i \in 0..4 : f[i] = IF i = 0 THEN 0 ELSE f[i - 1] + legs[i]
  BY <1>1
<1>3. f = [i \in 0..4 |-> f[i]]
  OBVIOUS
<1> HIDE DEF f
<1>4. [i \in 0..4 |-> f[i]] = [i \in 0..4 |-> IF i = 0 THEN 0 ELSE f[i - 1] + legs[i]]
  BY <1>2
<1>5. 0..4 = 0..Len(legs)
  BY <1>1
<1>6. f = [i \in 0..Len(legs) |-> IF i = 0 THEN 0 ELSE f[i - 1] + legs[i]]
  BY <1>3, <1>4, <1>5
<1>7. /\ s = [i \in 0..Len(legs) |-> IF i = 0 THEN 0 ELSE s[i - 1] + legs[i]]
      /\ LedgerAccepts(legs) <=> s[Len(legs)] = 0 /\ \A i \in DOMAIN legs : legs[i] # 0
  BY <1>6, RunningSumIs
<1> HIDE DEF s
<1>8. s[0] = 0 /\ s[1] = s[0] + a /\ s[2] = s[1] + b /\ s[3] = s[2] + c /\ s[4] = s[3] + d
  <2>1. s = [i \in 0..4 |-> IF i = 0 THEN 0 ELSE s[i - 1] + legs[i]]
    BY <1>5, <1>7
  <2> QED
    BY <1>1, <2>1
<1>9. s[Len(legs)] = 0 /\ \A i \in DOMAIN legs : legs[i] # 0
  BY <1>1, <1>8
<1> QED
  BY <1>7, <1>9 DEF legs

(* So are two. *)
LEMMA TwoLegs ==
    ASSUME NEW a \in Int \ {0}
    PROVE  LedgerAccepts(<<a, -a>>)
<1> DEFINE legs == <<a, -a>>
           s == RunningSum(legs)
           f == [i \in 0..2 |-> IF i = 0 THEN 0 ELSE IF i = 1 THEN a ELSE 0]
<1>1. Len(legs) = 2 /\ DOMAIN legs = 1..2 /\ legs[1] = a /\ legs[2] = -a
  OBVIOUS
<1> HIDE DEF legs
<1>2. \A i \in 0..2 : f[i] = IF i = 0 THEN 0 ELSE f[i - 1] + legs[i]
  BY <1>1
<1>3. f = [i \in 0..2 |-> f[i]]
  OBVIOUS
<1> HIDE DEF f
<1>4. [i \in 0..2 |-> f[i]] = [i \in 0..2 |-> IF i = 0 THEN 0 ELSE f[i - 1] + legs[i]]
  BY <1>2
<1>5. 0..2 = 0..Len(legs)
  BY <1>1
<1>6. f = [i \in 0..Len(legs) |-> IF i = 0 THEN 0 ELSE f[i - 1] + legs[i]]
  BY <1>3, <1>4, <1>5
<1>7. /\ s = [i \in 0..Len(legs) |-> IF i = 0 THEN 0 ELSE s[i - 1] + legs[i]]
      /\ LedgerAccepts(legs) <=> s[Len(legs)] = 0 /\ \A i \in DOMAIN legs : legs[i] # 0
  BY <1>6, RunningSumIs
<1> HIDE DEF s
<1>8. s[0] = 0 /\ s[1] = s[0] + a /\ s[2] = s[1] + (-a)
  <2>1. s = [i \in 0..2 |-> IF i = 0 THEN 0 ELSE s[i - 1] + legs[i]]
    BY <1>5, <1>7
  <2> QED
    BY <1>1, <2>1
<1>9. s[Len(legs)] = 0 /\ \A i \in DOMAIN legs : legs[i] # 0
  BY <1>1, <1>8
<1> QED
  BY <1>7, <1>9 DEF legs

(* The legs of an order at full price: what it takes to deliver it and to  *)
(* cancel it is shared out without a rest and without an empty share.      *)
LEMMA FullPriceLegs ==
    ASSUME NEW o, IsPriced(o), o.off = 0, o.total = o.sub + o.fee
    PROVE  /\ LedgerAccepts(PaymentLegs(o))
           /\ \A rate \in Rates : LedgerAccepts(DeliveryLegs(o, rate))
           /\ LedgerAccepts(PenaltyLegs(o))
<1> USE DEF IsPriced, MIN_ORDER_XAF
<1>1. LedgerAccepts(PaymentLegs(o))
  BY TwoLegs DEF PaymentLegs
<1>2. ASSUME NEW rate \in Rates PROVE LedgerAccepts(DeliveryLegs(o, rate))
  <2> DEFINE sub == o.sub
             fee == o.fee
             commission == Percent(sub, rate)
             rider == Percent(fee, 65)
  <2>1. rate \in {6, 10, 17} /\ sub \in Nat \ {0} /\ fee \in 500..1500
    BY DEF Rates
  <2> HIDE DEF sub, fee
  <2>2. commission \in Nat /\ commission < sub
    BY <2>1 DEF Percent
  <2>3. rider \in Nat \ {0} /\ rider < fee
    BY <2>1 DEF Percent
  <2> HIDE DEF commission, rider
  <2>4. LedgerAccepts(<<sub + fee, -(sub - commission), -rider, -(commission + fee - rider)>>)
    <3>1. /\ sub + fee \in Int \ {0} /\ -(sub - commission) \in Int \ {0}
          /\ -rider \in Int \ {0} /\ -(commission + fee - rider) \in Int \ {0}
          /\ (sub + fee) + (-(sub - commission)) + (-rider) + (-(commission + fee - rider)) = 0
      BY <2>1, <2>2, <2>3
    <3> QED
      BY <3>1, FourLegs
  <2> QED
    BY <2>4 DEF DeliveryLegs, commission, rider, sub, fee
<1>3. LedgerAccepts(PenaltyLegs(o))
  <2>1. Penalty(o) \in Int \ {0}
    <3> DEFINE t == o.total
    <3>1. t \in Nat /\ t >= 1200
      OBVIOUS
    <3> HIDE DEF t
    <3>2. (t \div 10) \in Nat /\ (t \div 10) >= 120
      BY <3>1
    <3> DEFINE u == t \div 10
    <3>3. u \in Nat /\ u >= 120
      BY <3>2
    <3> HIDE DEF u
    <3>4. 50 * (u \div 50) \in Nat \ {0}
      BY <3>3
    <3> QED
      BY <3>4 DEF Penalty, t, u
  <2> QED
    BY <2>1, TwoLegs DEF PenaltyLegs
<1> QED
  BY <1>1, <1>2, <1>3

(* The invariant. *)
OrderingInv == CallIsPriced /\ OrderIsPriced /\ OneOrderPerKey /\ CouponIsCounted

(* Every step keeps it, *)
LEMMA StepOrdering ==
    OrderingTypeOK /\ OrderingInv /\ [OrderingNext]_orderingVars => OrderingTypeOK' /\ OrderingInv'
  BY StepOrderingType, StepCallIsPriced, StepOrderIsPriced, StepKey, StepCoupon DEF OrderingInv

(* and it says what is promised. *)
LEMMA OrderingInvImplies == OrderingTypeOK /\ OrderingInv => OrderingSafe
<1> SUFFICES ASSUME OrderingTypeOK, OrderingInv PROVE OrderingSafe
  OBVIOUS
<1> USE DEF OrderingInv
<1>1. CouponCounted
  <2>1. Cardinality(Counting) \in Nat
    <3>1. Counting \in SUBSET OrderCalls
      BY DEF Counting
    <3> QED
      BY <3>1, FewOrderCalls
  <2>2. coupon.count \in Nat
    BY DEF OrderingTypeOK
  <2> QED
    BY <2>1, <2>2, OrderingAssumption DEF CouponCounted, CouponIsCounted, Uses
<1>2. TotalsAddUp
  BY DEF TotalsAddUp, OrderIsPriced, IsPriced, OrderingTypeOK, Amount, PlacedNow
<1>3. FullPriceIsBookable
  <2>1. ASSUME NEW i \in PlacedNow, placed[i].off = 0
        PROVE  IsPriced(placed[i]) /\ placed[i].total = placed[i].sub + placed[i].fee
    BY <2>1 DEF OrderIsPriced, OrderingTypeOK, Amount, PlacedNow
  <2> QED
    BY <2>1, FullPriceLegs DEF FullPriceIsBookable
<1> QED
  BY <1>1, <1>2, <1>3 DEF OrderingSafe

(* What an order and a call hold is of its type. *)
THEOREM OrderingIsTyped == OrderingSpec => []OrderingTypeOK
  BY InitOrdering, StepOrdering, PTL DEF OrderingSpec, OrderingInv

(* An idempotency key makes one order, a coupon is redeemed as often as it *)
(* allows and a call beyond at most, the totals add up and can be booked   *)
(* (OrderingSafe).                                                         *)
THEOREM OrderingIsSafe == OrderingSpec => []OrderingSafe
  BY InitOrdering, StepOrdering, OrderingInvImplies, PTL DEF OrderingSpec, OrderingInv
=============================================================================
