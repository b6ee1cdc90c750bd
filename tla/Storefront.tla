----------------------------- MODULE Storefront -----------------------------
(***************************************************************************)
(* When a vendor is shown as open: AvailabilityService and BrowseService,  *)
(* against the check that createOrder makes.  The clock runs through the   *)
(* days in hours; minutes would change no comparison below.  Times of day  *)
(* are strings to the code: "07:00" was typed with two digits, "7:00" with *)
(* one, and UpdateHoursDto takes both.                                     *)
(***************************************************************************)
EXTENDS Integers

CONSTANTS
    StoreTypes,   \* INFORMAL or RESTAURANT vendors (a model bound)
    Days,         \* how many days of DAY_KEYS are told apart (a model bound)
    Slots,        \* the DayHours a vendor may enter (a model bound)
    Kilometres,   \* how far consumers are from the vendor
    Radii         \* the radiusKm they search with

Hours == 0..23
ASSUME StorefrontAssumption ==
    /\ StoreTypes \subseteq {"INFORMAL", "RESTAURANT"}
    /\ Days \in 1..7
    /\ Slots \subseteq [open : Hours, openDigits : {1, 2}, close : Hours, closeDigits : {1, 2}]
    /\ Kilometres \subseteq Nat /\ Radii \subseteq Nat

VARIABLES
    storeType,    \* Vendor.type
    storeStatus,  \* Vendor.status: ACTIVE or not
    isOpen,       \* Vendor.isOpen, as 0 or 1
    hours,        \* Vendor.hours: the days that have a slot
    clock         \* the hour, as the process reads it

storefrontVars == <<storeType, storeStatus, isOpen, hours, clock>>

NoSlot == [open |-> 0, openDigits |-> 2, close |-> 0, closeDigits |-> 2]
NoHours == [d \in 0..(Days - 1) |-> NoSlot]

StorefrontTypeOK ==
    /\ storeType \in StoreTypes
    /\ storeStatus \in {"ACTIVE", "SUSPENDED"}
    /\ isOpen \in {0, 1}
    /\ hours \in [0..(Days - 1) -> Slots \cup {NoSlot}]
    /\ clock \in 0..(24 * Days - 1)

StorefrontInit ==
    /\ storeType \in StoreTypes /\ storeStatus = "ACTIVE"
    /\ isOpen = 0 /\ hours = NoHours /\ clock = 0

-----------------------------------------------------------------------------
SetAvailability ==
    /\ isOpen' \in {0, 1}
    /\ UNCHANGED <<storeType, storeStatus, hours, clock>>

(* setHours: the days that were sent, and no others. *)
SetHours ==
    /\ hours' \in [0..(Days - 1) -> Slots \cup {NoSlot}]
    /\ UNCHANGED <<storeType, storeStatus, isOpen, clock>>

(* suspendVendor and unsuspendVendor, module Partners. *)
StandingChanges ==
    /\ \/ storeStatus = "ACTIVE" /\ storeStatus' = "SUSPENDED" /\ isOpen' = 0
       \/ storeStatus = "SUSPENDED" /\ storeStatus' = "ACTIVE" /\ UNCHANGED isOpen
    /\ UNCHANGED <<storeType, hours, clock>>

HourPasses ==
    /\ clock' = (clock + 1) % (24 * Days)
    /\ UNCHANGED <<storeType, storeStatus, isOpen, hours>>

StorefrontNext == SetAvailability \/ SetHours \/ StandingChanges \/ HourPasses

StorefrontSpec == StorefrontInit /\ [][StorefrontNext]_storefrontVars

-----------------------------------------------------------------------------
Today == hours[clock \div 24]
HourNow == clock % 24

(* Where a time of day stands among the strings "00:00" to "23:59".  ":"    *)
(* sorts after the digits: "1:00" after "19:59", "7:00" after "23:59".     *)
SortsAs(hour, digits) == IF digits = 1 /\ hour < 10 THEN 10 * (hour + 1) ELSE hour

(* Mutant: the closing hour counts as open. *)
ComputeIsOpenNow_Through ==
    /\ isOpen = 1
    /\ \/ storeType = "INFORMAL"
       \/ hours = NoHours
       \/ /\ Today # NoSlot
          /\ SortsAs(Today.open, Today.openDigits) <= HourNow
          /\ HourNow <= SortsAs(Today.close, Today.closeDigits)

(* computeIsOpenNow *)
ComputeIsOpenNow ==
    /\ isOpen = 1
    /\ \/ storeType = "INFORMAL"
       \/ hours = NoHours
       \/ /\ Today # NoSlot
          /\ SortsAs(Today.open, Today.openDigits) <= HourNow
          /\ HourNow < SortsAs(Today.close, Today.closeDigits)

(* browse: ACTIVE, isOpen and near enough; its card says whether it is     *)
(* open now.                                                               *)
InCatalogue(km, radius) == storeStatus = "ACTIVE" /\ isOpen = 1 /\ km <= radius
CardIsOpen(km, radius) == InCatalogue(km, radius) /\ ComputeIsOpenNow

(* getVendorPublic: any ACTIVE vendor has a page. *)
PageIsOpen == storeStatus = "ACTIVE" /\ ComputeIsOpenNow

(* classifyPlan *)
Plan(km) == IF km <= 2 THEN 1 ELSE IF km <= 5 THEN 2 ELSE 3

(* createOrder: vendor_not_found, vendor_closed. *)
TakesOrders == storeStatus = "ACTIVE" /\ isOpen = 1

-----------------------------------------------------------------------------
(* The hours a slot stands for, whoever compares the strings. *)
Covers(slot) ==
    IF slot.open < slot.close THEN {h \in Hours : slot.open <= h /\ h < slot.close} ELSE {}
TypedInFull(slot) ==
    (slot.open > 9 \/ slot.openDigits = 2) /\ (slot.close > 9 \/ slot.closeDigits = 2)

(* A restaurant that set hours is shown as open in them and at no other    *)
(* time: neither the order of strings nor the change of day misleads the   *)
(* comparison, if the hours are typed with two digits.                     *)
OpenInItsHours ==
    storeType = "RESTAURANT" /\ hours # NoHours /\ TypedInFull(Today)
    => (ComputeIsOpenNow <=> isOpen = 1 /\ Today # NoSlot /\ HourNow \in Covers(Today))

(* What is shown as open takes an order, the card and the page agree, and  *)
(* each card is in the plan of its distance, farther ones in later plans.  *)
ShownTakesOrders ==
    \A km \in Kilometres, radius \in Radii :
        /\ CardIsOpen(km, radius) => TakesOrders
        /\ km <= radius => (CardIsOpen(km, radius) <=> PageIsOpen)
        /\ \A far \in Kilometres : km <= far => Plan(km) <= Plan(far)

StorefrontSafe == OpenInItsHours /\ ShownTakesOrders
=============================================================================
