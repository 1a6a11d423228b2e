----------------------------- MODULE Settlement -----------------------------
(***************************************************************************)
(* What the payment module promises, without callbacks, references or      *)
(* races: a payment is opened once, with a buyer and an amount, and leaves *)
(* "open" once. It is credited, in one step with its buyer's balance; or   *)
(* it fails; or it is set aside (disputed, cancelled and whatever follows) *)
(* and is then never credited. Balances move in no other way.              *)
(***************************************************************************)
EXTENDS Naturals

CONSTANTS Payment, Buyer, Amount, None

VARIABLES
    outcome,  \* "none", "open", "credited", "failed" or "aside", per payment
    terms,    \* the buyer and the amount of an opened payment
    balance   \* what payments have added to each buyer's balance

vars == <<outcome, terms, balance>>

NoTerms == [user |-> None, amount |-> 0]

Init ==
    /\ outcome = [p \in Payment |-> "none"]
    /\ terms = [p \in Payment |-> NoTerms]
    /\ balance = [u \in Buyer |-> 0]

Open(p) ==
    /\ outcome[p] = "none"
    /\ outcome' = [outcome EXCEPT ![p] = "open"]
    /\ \E u \in Buyer : \E amount \in Amount :
          terms' = [terms EXCEPT ![p] = [user |-> u, amount |-> amount]]
    /\ UNCHANGED balance

Credit(p) ==
    /\ outcome[p] = "open"
    /\ outcome' = [outcome EXCEPT ![p] = "credited"]
    /\ balance' = [balance EXCEPT ![terms[p].user] = @ + terms[p].amount]
    /\ UNCHANGED terms

Close(p) ==
    /\ outcome[p] = "open"
    /\ \E o \in {"failed", "aside"} : outcome' = [outcome EXCEPT ![p] = o]
    /\ UNCHANGED <<terms, balance>>

Next == \E p \in Payment : Open(p) \/ Credit(p) \/ Close(p)

Spec == Init /\ [][Next]_vars
=============================================================================
