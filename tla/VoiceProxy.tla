------------------------------ MODULE VoiceProxy ------------------------------
(***************************************************************************)
(* VoiceProxyService: masked calls between the parties of one order.  The  *)
(* caller is checked when the call is asked for; Twilio rings him, and     *)
(* fetches whom to dial once he has answered.                              *)
(***************************************************************************)
EXTENDS Naturals

CONSTANTS
    Couriers,   \* the riders
    Parties,    \* consumer and vendor of the order, and an outsider
    NoCourier,  \* no rider, no party
    MaxTalks    \* calls in progress at once (a model bound)

ASSUME VoiceAssumption ==
    /\ {"consumer", "vendor"} \subseteq Parties /\ Couriers \cap Parties = {}
    /\ NoCourier \notin Couriers \cup Parties
    /\ MaxTalks \in Nat

VARIABLES
    leg,      \* the order: before acceptance, live, or over
    courier,  \* Order.riderId
    talk      \* each call: where it is, who called, whom to dial, whom it reached

voiceVars == <<leg, courier, talk>>

Talks == 1..MaxTalks
Targets == {"consumer", "vendor", "rider"}
Silent == [at |-> "none", by |-> NoCourier, to |-> "consumer", reached |-> NoCourier, moved |-> 0]

VoiceTypeOK ==
    /\ leg \in {"early", "live", "over"}
    /\ courier \in Couriers \cup {NoCourier}
    /\ talk \in [Talks -> [at : {"none", "ringing", "talking"},
                           by : Couriers \cup Parties \cup {NoCourier}, to : Targets,
                           reached : Couriers \cup Parties \cup {NoCourier}, moved : {0, 1}]]

VoiceInit == leg = "early" /\ courier = NoCourier /\ talk = [t \in Talks |-> Silent]

(* A call under way notes that the order moved on under it. *)
Moves == talk' = [t \in Talks |-> IF talk[t].at = "none" THEN talk[t]
                                  ELSE [talk[t] EXCEPT !.moved = 1]]

OrderAccepted == leg = "early" /\ leg' = "live" /\ Moves /\ UNCHANGED courier
OrderEnds == leg = "live" /\ leg' = "over" /\ Moves /\ UNCHANGED courier
(* Dispatch, and the fraud decision that takes the rider off. *)
CourierChanges ==
    /\ leg = "live"
    /\ courier' \in IF courier = NoCourier THEN Couriers ELSE {NoCourier}
    /\ Moves /\ UNCHANGED leg

Rings(t, by, to) ==
    /\ talk[t] = Silent /\ \A u \in 1..(t - 1) : talk[u] # Silent
    /\ talk' = [talk EXCEPT ![t] = [Silent EXCEPT !.at = "ringing", !.by = by, !.to = to]]
    /\ UNCHANGED <<leg, courier>>

RequireOrderAssignedToRider(r) == leg = "live" /\ courier = r
RequireOrderForVendor(needRider) ==
    leg = "live" /\ (needRider => courier # NoCourier)
RequireOrderForConsumer(needRider) ==
    leg = "live" /\ (needRider => courier # NoCourier)

(* Mutant: any rider may call. *)
StartRiderToConsumer_Any(t) ==
    leg = "live" /\ \E r \in Couriers : Rings(t, r, "consumer")

StartRiderToConsumer(t) ==
    \E r \in Couriers : RequireOrderAssignedToRider(r) /\ Rings(t, r, "consumer")
StartVendorToConsumer(t) == RequireOrderForVendor(FALSE) /\ Rings(t, "vendor", "consumer")
StartVendorToRider(t) == RequireOrderForVendor(TRUE) /\ Rings(t, "vendor", "rider")
StartConsumerToVendor(t) == RequireOrderForConsumer(FALSE) /\ Rings(t, "consumer", "vendor")
StartConsumerToRider(t) == RequireOrderForConsumer(TRUE) /\ Rings(t, "consumer", "rider")

DialledFor(to) == IF to = "rider" THEN courier ELSE to

(* The order must still be live, and whoever is the target now is dialled; *)
(* the caller is not looked at again.                                      *)
BuildBridgeTwiml(t) ==
    /\ talk[t].at = "ringing"
    /\ talk' = [talk EXCEPT ![t] =
           IF leg # "live" \/ DialledFor(talk[t].to) = NoCourier THEN Silent
           ELSE [talk[t] EXCEPT !.at = "talking", !.reached = DialledFor(talk[t].to)]]
    /\ UNCHANGED <<leg, courier>>

HangUp(t) ==
    /\ talk[t].at # "none"
    /\ talk' = [talk EXCEPT ![t] = Silent]
    /\ UNCHANGED <<leg, courier>>

VoiceNext ==
    \/ \E t \in Talks :
         \/ StartRiderToConsumer(t) \/ StartVendorToConsumer(t) \/ StartVendorToRider(t)
         \/ StartConsumerToVendor(t) \/ StartConsumerToRider(t)
         \/ BuildBridgeTwiml(t) \/ HangUp(t)
    \/ OrderAccepted \/ OrderEnds \/ CourierChanges

VoiceSpec == VoiceInit /\ [][VoiceNext]_voiceVars

-----------------------------------------------------------------------------
(* Two people who talk are the parties of a live order, each with another  *)
(* role, unless the order moved on since the caller was checked: then a    *)
(* rider who was taken off it may still be put through.                    *)
PartiesOnly ==
    \A t \in Talks :
        (talk[t].at = "talking" /\ talk[t].moved = 0) =>
            /\ leg = "live" /\ talk[t].by # talk[t].reached
            /\ {talk[t].by, talk[t].reached} \subseteq {"consumer", "vendor", courier}
=============================================================================
