--------------------------- MODULE MCUsageBilling ---------------------------
(***************************************************************************)
(* Instances of UsageBilling for TLC: one buyer, one seller.               *)
(***************************************************************************)
EXTENDS UsageBilling, TLC

CONSTANTS s1, s2, h1, h2, buyer, seller

BuyerOfAll == [s \in Sessions |-> buyer]
SellerOfAll == [s \in Sessions |-> seller]

\* The buyer can pay for a part of what the devices may use.
Balances == [u \in Users |-> IF u = buyer THEN 5 ELSE 0]

\* Reports of one session race; or every session has one report at a time.
ServesOne == [h \in Reports |-> s1]
ServesEach == [h \in Reports |-> IF h = h1 THEN s1 ELSE s2]

ReportSymmetry == Permutations(Reports)
=============================================================================
