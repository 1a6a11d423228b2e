------------------------------ MODULE MCServer ------------------------------
(***************************************************************************)
(* The components of the backend that share no state with one another but  *)
(* the accounts, and the phone whose usage the backend counts, in one      *)
(* instance for TLC: a behaviour picks one of them at the start and        *)
(* follows it, so that the state space is the sum of theirs.               *)
(* The calls of every component have the same names, and so have the       *)
(* things they are about: one permutation serves them all.                 *)
(***************************************************************************)
EXTENDS RefreshTokens, SessionStore, PrivacyRequests, WalletOps, SignUp,
        ProfileCache, EventBus, UsageReporting, TLC

CONSTANTS u1, u2

VARIABLE focus      \* the component this behaviour follows

Parts == {"tokens", "links", "asks", "wallets", "enrolment", "profiles", "bus",
          "phone"}

\* One user opens with a wallet, the other has none.
OpeningWallets == [u \in Users |-> IF u = u1 THEN 20 ELSE None]

ServerInit ==
    /\ focus \in Parts
    /\ TokenInit /\ LinkInit /\ AskInit /\ WalletInit /\ EnrolInit
    /\ ProfileInit /\ BusInit /\ RideInit

ServerNext ==
    /\ UNCHANGED focus
    /\ IF focus = "tokens" THEN TokenNext ELSE UNCHANGED tokenVars
    /\ IF focus = "links" THEN LinkNext ELSE UNCHANGED linkVars
    /\ IF focus = "asks" THEN AskNext ELSE UNCHANGED askVars
    /\ IF focus = "wallets" THEN WalletNext ELSE UNCHANGED walletVars
    /\ IF focus = "enrolment" THEN EnrolNext ELSE UNCHANGED enrolVars
    /\ IF focus = "profiles" THEN ProfileNext ELSE UNCHANGED profileVars
    /\ IF focus = "bus" THEN BusNext ELSE UNCHANGED busVars
    /\ IF focus = "phone" THEN RideNext ELSE UNCHANGED rideVars

ServerVars ==
    <<focus, tokenVars, linkVars, askVars, walletVars, enrolVars, profileVars, busVars,
      rideVars>>

ServerSpec == ServerInit /\ [][ServerNext]_ServerVars

ServerSymmetry ==
    Permutations(TokenCalls) \cup Permutations(SignIns) \cup Permutations(Tokens)

ServerTypeOK ==
    /\ TokenTypeOK /\ LinkTypeOK /\ AskTypeOK /\ WalletTypeOK /\ EnrolTypeOK
    /\ ProfileTypeOK /\ BusTypeOK /\ RideTypeOK
=============================================================================
