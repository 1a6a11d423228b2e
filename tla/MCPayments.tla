----------------------------- MODULE MCPayments -----------------------------
(***************************************************************************)
(* Instances of Payments for TLC.                                          *)
(***************************************************************************)
EXTENDS Payments, TLC

CONSTANTS b1, b2, k1

\* Two concurrent calls of one buyer with one key; the second may carry
\* another amount or another method.
OneKeyInputs ==
    [user : {b1}, key : {k1}, method : {"MPESA"}, amount : {1, 2}]
    \cup [user : {b1}, key : {k1}, method : {"STRIPE"}, amount : {1}]

\* Two calls without a key and one method each.
KeylessInputs == [user : {b1}, key : {None}, method : Methods, amount : {1}]

BothUsersInputs ==
    {[user |-> b1, key |-> None, method |-> "STRIPE", amount |-> 1],
     [user |-> b1, key |-> None, method |-> "MPESA", amount |-> 1],
     [user |-> b2, key |-> k1, method |-> "MPESA", amount |-> 2]}

\* Nothing orders the members of these sets.
RaceSymmetry == Permutations(Requests) \cup Permutations(Hooks)
OperatorSymmetry == Permutations(Calls)
=============================================================================
