------------------------------- MODULE MCShop -------------------------------
(***************************************************************************)
(* The shop around an order, on small instances: placing it, the menu, the *)
(* opening hours, the saved addresses, the notifications, the masked       *)
(* calls, the cashouts of every kind of payee, the dates they are shown,   *)
(* and the float they are paid from.  The modules share no state, so one   *)
(* of them moves and the others stand still.                               *)
(***************************************************************************)
EXTENDS Ordering, Catalogue, Storefront, Addresses, Notifications, VoiceProxy,
        MCCashouts, PayoutDates, PayoutFloat

VARIABLE part

Parts == {"ordering", "catalogue", "storefront", "addresses", "notifications", "voice",
          "cashout", "dates", "float"}
shopVars == <<part, orderingVars, catalogueVars, storefrontVars, addressVars, notificationVars,
              voiceVars, cashoutVars, dateVars, floatVars>>

(* A delivery of 1 to a vendor, one of 2 to a rider. *)
MCNetXAF == [r \in FloatRows |-> r]

(* A working day, a night, hours typed with one digit, and a short day.    *)
MCSlots ==
    {[open |-> 8, openDigits |-> 2, close |-> 21, closeDigits |-> 2],
     [open |-> 20, openDigits |-> 2, close |-> 2, closeDigits |-> 2],
     [open |-> 7, openDigits |-> 1, close |-> 21, closeDigits |-> 2],
     [open |-> 10, openDigits |-> 2, close |-> 12, closeDigits |-> 2]}

(* A part that stands still has one initial state. *)
ShopInit ==
    /\ part \in Parts
    /\ OrderingInit /\ CatalogueInit /\ StorefrontInit /\ AddressInit /\ NotificationInit
    /\ VoiceInit /\ CashoutInit /\ DatesInit /\ FloatInit
    /\ part # "ordering" => \A p \in ItemPrices : price <= p
    /\ part # "ordering" => coupon.type = "FREE_DELIVERY"
    /\ part # "cashout" => kind = "RIDER" /\ amount = <<2, 3>>
    /\ part # "storefront" => storeType = "INFORMAL"
    /\ part # "dates" => payee = "RIDER"
    /\ part # "float" => float = 0

(* One disjunct for each part. *)
ShopNext ==
    /\ UNCHANGED part
    /\ \/ /\ part = "ordering" /\ OrderingNext
          /\ UNCHANGED <<catalogueVars, storefrontVars, addressVars, notificationVars, voiceVars,
                         cashoutVars, dateVars, floatVars>>
       \/ /\ part = "catalogue" /\ CatalogueNext
          /\ UNCHANGED <<orderingVars, storefrontVars, addressVars, notificationVars, voiceVars,
                         cashoutVars, dateVars, floatVars>>
       \/ /\ part = "storefront" /\ StorefrontNext
          /\ UNCHANGED <<orderingVars, catalogueVars, addressVars, notificationVars, voiceVars,
                         cashoutVars, dateVars, floatVars>>
       \/ /\ part = "addresses" /\ AddressNext
          /\ UNCHANGED <<orderingVars, catalogueVars, storefrontVars, notificationVars, voiceVars,
                         cashoutVars, dateVars, floatVars>>
       \/ /\ part = "notifications" /\ NotificationNext
          /\ UNCHANGED <<orderingVars, catalogueVars, storefrontVars, addressVars, voiceVars,
                         cashoutVars, dateVars, floatVars>>
       \/ /\ part = "voice" /\ VoiceNext
          /\ UNCHANGED <<orderingVars, catalogueVars, storefrontVars, addressVars, notificationVars,
                         cashoutVars, dateVars, floatVars>>
       \/ /\ part = "cashout" /\ CashoutNext
          /\ UNCHANGED <<orderingVars, catalogueVars, storefrontVars, addressVars, notificationVars,
                         voiceVars, dateVars, floatVars>>
       \/ /\ part = "dates" /\ DatesNext
          /\ UNCHANGED <<orderingVars, catalogueVars, storefrontVars, addressVars, notificationVars,
                         voiceVars, cashoutVars, floatVars>>
       \/ /\ part = "float" /\ FloatNext
          /\ UNCHANGED <<orderingVars, catalogueVars, storefrontVars, addressVars, notificationVars,
                         voiceVars, cashoutVars, dateVars>>

ShopSpec == ShopInit /\ [][ShopNext]_shopVars

(* Every variable of the part that moves keeps to its values. *)
ShopTypeOK ==
    /\ part = "ordering" => OrderingTypeOK
    /\ part = "catalogue" => CatalogueTypeOK
    /\ part = "storefront" => StorefrontTypeOK
    /\ part = "addresses" => AddressTypeOK
    /\ part = "notifications" => NotificationTypeOK
    /\ part = "voice" => VoiceTypeOK
    /\ part = "cashout" => CashoutTypeOK
    /\ part = "dates" => DatesTypeOK
    /\ part = "float" => FloatTypeOK

(* A message reaches its addressee once, a masked call only the parties of *)
(* the order (NotificationsSafe, PartiesOnly).                             *)
ContactSafe ==
    /\ part = "notifications" => NotificationsSafe
    /\ part = "voice" => PartiesOnly

(* What consumers see of a vendor can be ordered, its menu and its hours   *)
(* (CatalogueSafe, StorefrontSafe).                                        *)
ShopfrontSafe ==
    /\ part = "catalogue" => CatalogueSafe
    /\ part = "storefront" => StorefrontSafe

(* Payees are paid what they are owed, when they were told, and from a     *)
(* float that is there (CashoutsSafe, EstimateIsNextSweep, FloatSafe).     *)
PayoutsSafe ==
    /\ part = "cashout" => CashoutsSafe
    /\ part = "dates" => EstimateIsNextSweep
    /\ part = "float" => FloatSafe
=============================================================================
