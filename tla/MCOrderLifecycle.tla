-------------------------- MODULE MCOrderLifecycle --------------------------
(* OrderLifecycle on small instances, and its refinement mapping to        *)
(* OrderCustody.                                                           *)
EXTENDS OrderLifecycle, TLC

(* Workers and Riders are interchangeable: no definition names one. *)
Interchangeable == Permutations(Workers) \cup Permutations(Riders)

CustodyOf(o) ==
    CASE ledger[o]["delivery"] > 0 -> "earned"
      [] ledger[o]["delivery"] = 0 /\ pay[o] \in {"REFUND_PENDING", "REFUNDED"}
           -> "returning"
      [] ledger[o]["delivery"] = 0 /\ pay[o] \notin {"REFUND_PENDING", "REFUNDED"}
           -> IF HasFinanceSnapshot(o) THEN "escrow" ELSE "customer"

Abstract == INSTANCE OrderCustody WITH
    custody <- [o \in Orders |-> CustodyOf(o)],
    credits <- [o \in Orders |-> ledger[o]["delivery"] + ledger[o]["adjustment"]]

(* One order is at work, immediate or pre-ordered: orders share no row and *)
(* the properties speak of each order alone.                               *)
Untouched(o) ==
    /\ status[o] = "PENDING" /\ pay[o] = "PENDING" /\ collect[o] = "idle"
    /\ \A w \in Workers : req[w] # Idle => req[w].o # o
OneAtWork == \E o \in Orders : \A q \in Orders \ {o} : Untouched(q)

(* With two handlers in flight a restart meets immediate orders only (a    *)
(* bound); with one it meets any order.                                    *)
RestartApart == crashes > 0 => \A o \in PreOrders : Untouched(o)

SafetySpec == Init /\ [][Next /\ (OneAtWork /\ RestartApart)']_vars
ProgressSpec == Init /\ [][Next /\ OneAtWork']_vars /\ Fairness

(* When handlers do not overlap (one worker), the order pipeline keeps the *)
(* promise of OrderCustody: money moves along the chain customer, escrow,  *)
(* earned or returning, and the vendor is credited at most once.           *)
ImplementsOrderCustody == Abstract!Spec
=============================================================================
