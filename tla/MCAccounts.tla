----------------------------- MODULE MCAccounts -----------------------------
(***************************************************************************)
(* Who may come in, on small instances: sign-in by OTP, the sessions that  *)
(* follow, the admins, and the standing of vendors and riders.  The        *)
(* modules share no state, so one of them moves and the others stand still.*)
(***************************************************************************)
EXTENDS OtpSignIn, RefreshTokens, AdminAccess, Partners, TLC

VARIABLE part

Parts == {"otp", "sessions", "admin", "partners"}
accountVars == <<part, otpVars, refreshVars, adminVars, partnerVars>>

(* No definition names a browser. *)
BrowsersAlike == Permutations(Browsers)

AccountsInit == part \in Parts /\ OtpInit /\ RefreshInit /\ AdminInit /\ PartnerInit

(* One disjunct for each part. *)
AccountsNext ==
    /\ UNCHANGED part
    /\ \/ part = "otp" /\ OtpNext /\ UNCHANGED <<refreshVars, adminVars, partnerVars>>
       \/ part = "sessions" /\ RefreshNext /\ UNCHANGED <<otpVars, adminVars, partnerVars>>
       \/ part = "admin" /\ AdminNext /\ UNCHANGED <<otpVars, refreshVars, partnerVars>>
       \/ part = "partners" /\ PartnerNext /\ UNCHANGED <<otpVars, refreshVars, adminVars>>

AccountsSpec == AccountsInit /\ [][AccountsNext]_accountVars

(* Every variable of the part that moves keeps to its values. *)
AccountsTypeOK ==
    /\ part = "otp" => OtpTypeOK
    /\ part = "sessions" => RefreshTypeOK
    /\ part = "admin" => AdminTypeOK
    /\ part = "partners" => PartnerTypeOK
=============================================================================
