------------------------------ MODULE MCClients ------------------------------
(***************************************************************************)
(* Three clients in one instance for TLC: the seller's Relay screen, a     *)
(* browser's sign-in, and the wallet page that waits for a deposit, each   *)
(* with the part of the server that answers it. A behaviour follows one of *)
(* them, picked at the start, so that the state space is the sum of theirs.*)
(***************************************************************************)
EXTENDS SellerListing, WebClient, DepositWatch

VARIABLE focus      \* the client this behaviour follows

Parts == {"relay", "browser", "wallet"}

ClientsInit ==
    /\ focus \in Parts
    /\ ShopInit /\ ClientInit /\ DepositInit

ClientsNext ==
    /\ UNCHANGED focus
    /\ IF focus = "relay" THEN ShopNext ELSE UNCHANGED shopVars
    /\ IF focus = "browser" THEN ClientNext ELSE UNCHANGED clientVars
    /\ IF focus = "wallet" THEN DepositNext ELSE UNCHANGED depositVars

ClientsVars == <<focus, shopVars, clientVars, depositVars>>

ClientsFairness == ShopFairness /\ ClientFairness /\ DepositFairness

ClientsSpec == ClientsInit /\ [][ClientsNext]_ClientsVars
FairClientsSpec == ClientsSpec /\ ClientsFairness

ClientsTypeOK == ShopTypeOK /\ ClientTypeOK /\ DepositTypeOK
=============================================================================
