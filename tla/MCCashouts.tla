----------------------------- MODULE MCCashouts -----------------------------
(***************************************************************************)
(* Cashouts for every kind of payee, on small instances.                   *)
(***************************************************************************)
EXTENDS Cashouts

(* Two deliveries of different worth, or a delivery and a penalty, within   *)
(* what was earned or beyond it.                                           *)
MCLedgers == {<<2, 3>>, <<3, -1>>, <<3, -5>>}
=============================================================================
