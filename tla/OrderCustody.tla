---------------------------- MODULE OrderCustody ----------------------------
(***************************************************************************)
(* What the order pipeline promises about a consumer's money, without the  *)
(* statuses, events and handlers that keep the promise.                    *)
(*                                                                         *)
(* The money of an order starts with the customer, is held in escrow once  *)
(* paid, and leaves escrow at most once: earned by a delivery or on its    *)
(* way back.  The vendor is credited for the order at most once, by the    *)
(* delivery or as compensation for a stolen one, and never for an order    *)
(* that was not paid.                                                      *)
(***************************************************************************)
EXTENDS Naturals

CONSTANT Orders

VARIABLES
    custody,  \* where the consumer's money of each order is
    credits   \* how many times the vendor was credited for it

vars == <<custody, credits>>

Custody == {"customer", "escrow", "earned", "returning"}

TypeOK ==
    /\ custody \in [Orders -> Custody]
    /\ credits \in [Orders -> {0, 1}]

Init ==
    /\ custody = [o \in Orders |-> "customer"]
    /\ credits = [o \in Orders |-> 0]

Move(o, from, to) ==
    /\ custody[o] = from
    /\ custody' = [custody EXCEPT ![o] = to]

Credit(o) ==
    /\ credits[o] = 0
    /\ credits' = [credits EXCEPT ![o] = 1]

(* PAYMENT_RECEIVED: the money is booked into CUSTOMER_ESCROW. *)
Pay(o) == Move(o, "customer", "escrow") /\ UNCHANGED credits

(* ORDER_DELIVERED: escrow is released and the vendor credited. *)
Deliver(o) == Move(o, "escrow", "earned") /\ Credit(o)

(* The order ends without delivery and the consumer is owed the money;     *)
(* after a rider fraud the platform may credit the vendor all the same.    *)
Return(o) == Move(o, "escrow", "returning") /\ (UNCHANGED credits \/ Credit(o))

(* The vendor is compensated and the consumer is not refunded. *)
Compensate(o) == custody[o] = "escrow" /\ Credit(o) /\ UNCHANGED custody

Next == \E o \in Orders : Pay(o) \/ Deliver(o) \/ Return(o) \/ Compensate(o)

Spec == Init /\ [][Next]_vars
=============================================================================
