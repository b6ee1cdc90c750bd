------------------------------ MODULE Addresses ------------------------------
(***************************************************************************)
(* AddressesService: the saved addresses of one consumer.  No transaction  *)
(* spans the count, the demotion of the old default and the write.         *)
(***************************************************************************)
EXTENDS Naturals, FiniteSets

CONSTANTS
    MaxSaved,        \* MAX_SAVED_ADDRESSES
    MaxAddressRows,  \* rows ever inserted (a model bound)
    MaxAddressCalls  \* calls in progress at once (a model bound)

ASSUME AddressAssumption ==
    MaxSaved \in Nat \ {0} /\ MaxAddressRows \in Nat /\ MaxAddressCalls \in Nat \ {0}

VARIABLES
    saved,        \* each row: none, plain, default, or deleted
    addressCall,  \* each call: what it is about to do, to which row, as default?
    crowded       \* 1 once a call that sets the default was not alone

addressVars == <<saved, addressCall, crowded>>

AddressRows == 1..MaxAddressRows
AddressCalls == 1..MaxAddressCalls
NewRow == 0
AddressStep == {"idle", "demote", "write"}
AtEase == [at |-> "idle", row |-> NewRow, asDefault |-> 0]

AddressTypeOK ==
    /\ saved \in [AddressRows -> {"none", "plain", "default", "deleted"}]
    /\ addressCall \in [AddressCalls ->
         [at : AddressStep, row : AddressRows \cup {NewRow}, asDefault : {0, 1}]]
    /\ crowded \in {0, 1}

AddressInit ==
    /\ saved = [a \in AddressRows |-> "none"]
    /\ addressCall = [c \in AddressCalls |-> AtEase]
    /\ crowded = 0

SavedRows == {a \in AddressRows : saved[a] \in {"plain", "default"}}
Defaults == {a \in AddressRows : saved[a] = "default"}
Setting(c) == \E d \in AddressCalls \ {c} : addressCall[d].asDefault = 1

AddressStarts(c, row) ==
    /\ addressCall[c] = AtEase
    /\ \A d \in 1..(c - 1) : addressCall[d] # AtEase
    /\ \E asDefault \in {0, 1} :
         /\ addressCall' = [addressCall EXCEPT ![c] =
                [at |-> IF asDefault = 1 THEN "demote" ELSE "write", row |-> row,
                 asDefault |-> asDefault]]
         /\ crowded' = IF asDefault = 1 /\ Setting(c) THEN 1 ELSE crowded
    /\ UNCHANGED saved

(* Mutant: one address more. *)
CreateAddress_OneMore(c) == Cardinality(SavedRows) <= MaxSaved /\ AddressStarts(c, NewRow)

(* create: the count. *)
CreateAddress(c) == Cardinality(SavedRows) < MaxSaved /\ AddressStarts(c, NewRow)

(* update: the row is there, and the caller's. *)
UpdateAddress(c) == \E a \in SavedRows : AddressStarts(c, a)

(* Mutant: the old default is left. *)
DemoteOthers_Never(c) ==
    /\ addressCall[c].at = "demote"
    /\ addressCall' = [addressCall EXCEPT ![c].at = "write"]
    /\ UNCHANGED <<saved, crowded>>

DemoteOthers(c) ==
    /\ addressCall[c].at = "demote"
    /\ saved' = [a \in AddressRows |->
           IF a \in Defaults \ {addressCall[c].row} THEN "plain" ELSE saved[a]]
    /\ addressCall' = [addressCall EXCEPT ![c].at = "write"]
    /\ UNCHANGED crowded

(* insertRaw, or the UPDATE by id, which does nothing to a deleted row. *)
WriteAddress(c) ==
    LET call == addressCall[c]
        as == IF call.asDefault = 1 THEN "default" ELSE "plain"
    IN
    /\ call.at = "write"
    /\ \/ /\ call.row = NewRow
          /\ \E a \in AddressRows :
               /\ saved[a] = "none" /\ \A b \in 1..(a - 1) : saved[b] # "none"
               /\ saved' = [saved EXCEPT ![a] = as]
       \/ /\ call.row # NewRow
          /\ saved' = IF call.row \in SavedRows THEN [saved EXCEPT ![call.row] = as] ELSE saved
    /\ addressCall' = [addressCall EXCEPT ![c] = AtEase]
    /\ UNCHANGED crowded

DeleteAddress ==
    /\ \E a \in SavedRows : saved' = [saved EXCEPT ![a] = "deleted"]
    /\ UNCHANGED <<addressCall, crowded>>

(* A statement fails, or the process dies: the demotion stays. *)
AddressFails(c) ==
    /\ addressCall[c] # AtEase
    /\ addressCall' = [addressCall EXCEPT ![c] = AtEase]
    /\ UNCHANGED <<saved, crowded>>

AddressNext ==
    \/ \E c \in AddressCalls :
         CreateAddress(c) \/ UpdateAddress(c) \/ DemoteOthers(c) \/ WriteAddress(c) \/ AddressFails(c)
    \/ DeleteAddress

AddressSpec == AddressInit /\ [][AddressNext]_addressVars

-----------------------------------------------------------------------------
(* At checkout one address is preselected: there are two defaults only     *)
(* after two calls that set one overlapped.                                *)
OneDefault == Cardinality(Defaults) > 1 => crowded = 1

(* The cap is read before it is used up: each further call in progress can *)
(* overshoot it by one, and only by one.                                   *)
SavedBounded == Cardinality(SavedRows) <= MaxSaved + MaxAddressCalls - 1

AddressesSafe == OneDefault /\ SavedBounded
=============================================================================
