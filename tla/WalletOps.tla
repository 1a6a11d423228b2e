------------------------------ MODULE WalletOps ------------------------------
(***************************************************************************)
(* What takes money from a wallet outside a paid session: a withdrawal,    *)
(* one statement that debits the wallet and inserts the payout; the        *)
(* deduction route, three statements; and the consumption processor, which *)
(* debits what each dm.metering.update message says and commits its offset *)
(* afterwards. The mobile client repeats a withdrawal once when its answer *)
(* is lost. A verified payment credits the wallets meanwhile.              *)
(*                                                                         *)
(* Amounts are in mills, tenths of a cent: a wallet column holds cents and *)
(* PostgreSQL rounds what it is given, a payout column holds mills as they *)
(* are. Payments and UsageBilling model the other writers of a wallet.     *)
(***************************************************************************)
EXTENDS Platform

CONSTANTS
    Presses,     \* withdrawals a user asks for, by pressing the button
    DeductCalls, \* calls of the deduction route
    Meterings,   \* messages on dm.metering.update
    Amounts,     \* amounts asked for, in mills
    Opening,     \* mills in each wallet at the start, None for no wallet
    TopUp        \* mills a verified payment adds to a wallet

Cent10 == 10     \* mills in a cent

ASSUME WalletAssumption ==
    /\ Amounts \subseteq Nat \ {0}
    /\ TopUp \in Nat \ {0} /\ TopUp % Cent10 = 0
    /\ Opening \in [Users -> Nat \cup {None}] /\ None \notin Nat
    /\ \A u \in Users : Opening[u] # None => Opening[u] % Cent10 = 0

VARIABLES
    purse,       \* billing.wallets
    press,       \* each withdrawal, as its client and the server see it
    deduct,      \* each deduction call, and what it was answered
    metering,    \* each message, as the consumer group sees it
    payouts,     \* payments.payouts, summed by seller
    deducted,    \* mills taken from each wallet by deductions (history)
    credited,    \* mills that payments added to each wallet (history)
    drops,       \* roundings: debits of an amount that is not whole cents (history)
    wfaults      \* faults so far

walletVars == <<purse, press, deduct, metering, payouts, deducted, credited, drops,
                wfaults>>

-----------------------------------------------------------------------------
NoPress == [stage |-> "new", user |-> None, amount |-> 0, tries |-> 0]
NoMetering == [stage |-> "unsent", user |-> None, amount |-> 0]

\* "took" and "had" are history: whether the call debited the wallet, and whether
\* there was a wallet when it began.
NoDeduct == [stage |-> "idle", user |-> None, amount |-> 0, answer |-> "none",
             took |-> FALSE, had |-> FALSE]

WalletInit ==
    /\ purse = Opening
    /\ press = [p \in Presses |-> NoPress]
    /\ deduct = [d \in DeductCalls |-> NoDeduct]
    /\ metering = [m \in Meterings |-> NoMetering]
    /\ payouts = [u \in Users |-> 0]
    /\ deducted = [u \in Users |-> 0]
    /\ credited = [u \in Users |-> 0]
    /\ drops = [u \in Users |-> 0]
    /\ wfaults = 0

WalletFault == wfaults < MaxFaults /\ wfaults' = wfaults + 1

\* DECIMAL(12,2) of a sum in mills.
ToColumn(m) == ((m + Cent10 \div 2) \div Cent10) * Cent10

HasWallet(u) == purse[u] # None

\* BROKEN: the balance is not part of the condition.
PaysFromNothing(u, amount) == HasWallet(u)

\* WHERE customer_id = $1 AND balance_usd >= $2.
Affords(u, amount) == HasWallet(u) /\ purse[u] >= amount

Debit(u, amount) ==
    /\ purse' = [purse EXCEPT ![u] = ToColumn(@ - amount)]
    /\ drops' = IF amount % Cent10 = 0 THEN drops ELSE [drops EXCEPT ![u] = @ + 1]

-----------------------------------------------------------------------------
\* A seller asks for a withdrawal. The screen refuses more than the balance it
\* shows, which may be old.
Press(p, u, amount) ==
    /\ press[p].stage = "new"
    /\ press' = [press EXCEPT ![p] = [NoPress EXCEPT !.stage = "sent", !.user = u,
                                      !.amount = amount, !.tries = 1]]
    /\ UNCHANGED <<purse, deduct, metering, payouts, deducted, credited, drops, wfaults>>

\* The answer reaches the client, or it is lost and, the first time, the
\* request is sent again. It carries no key.
AnswerWithdraw(p) ==
    \/ /\ press' = [press EXCEPT ![p] = [NoPress EXCEPT !.stage = "done"]]
       /\ UNCHANGED wfaults
    \/ /\ WalletFault
       /\ press' = [press EXCEPT ![p] = IF press[p].tries = 1
                                       THEN [press[p] EXCEPT !.tries = 2]
                                       ELSE [NoPress EXCEPT !.stage = "done"]]

\* The payout is inserted FROM the debit: a row for every debit and no other.
Withdraw(p) ==
    LET u == press[p].user
        amount == press[p].amount IN
    /\ press[p].stage = "sent" /\ Affords(u, amount)
    /\ Debit(u, amount)
    /\ payouts' = [payouts EXCEPT ![u] = @ + amount]
    /\ AnswerWithdraw(p)
    /\ UNCHANGED <<deduct, metering, deducted, credited>>

\* INSUFFICIENT_BALANCE, SELLER_ACCOUNT_REQUIRED or a request that was lost.
WithdrawRefused(p) ==
    /\ press[p].stage = "sent"
    /\ AnswerWithdraw(p)
    /\ UNCHANGED <<purse, deduct, metering, payouts, deducted, credited, drops>>

-----------------------------------------------------------------------------
\* A deduction call that is over, with its answer; the caller may never see it.
Over(answer, took, had) ==
    [NoDeduct EXCEPT !.stage = "done", !.answer = answer, !.took = took, !.had = had]

AnswerDeduct(d, answer, took, had) ==
    \/ /\ deduct' = [deduct EXCEPT ![d] = Over(answer, took, had)]
       /\ UNCHANGED wfaults
    \/ /\ WalletFault
       /\ deduct' = [deduct EXCEPT ![d] = Over("lost", took, had)]

\* deductBalance: the debit; when it matched no row, is there a wallet at all;
\* when there is none, create an empty one and answer that the amount was deducted.
DeductFirst(d, u, amount) ==
    /\ deduct[d].stage = "idle"
    /\ IF Affords(u, amount)
       THEN /\ Debit(u, amount)
            /\ deducted' = [deducted EXCEPT ![u] = @ + amount]
            /\ AnswerDeduct(d, "deducted", TRUE, TRUE)
       ELSE /\ deduct' = [deduct EXCEPT ![d] = [NoDeduct EXCEPT
                  !.stage = "look", !.user = u, !.amount = amount, !.had = HasWallet(u)]]
            /\ UNCHANGED <<purse, drops, deducted, wfaults>>
    /\ UNCHANGED <<press, metering, payouts, credited>>

\* BROKEN: a debit that matched no row is taken to mean that there is no wallet.
DeductLooksAway(d) ==
    /\ deduct[d].stage = "look"
    /\ deduct' = [deduct EXCEPT ![d].stage = "create"]
    /\ UNCHANGED <<purse, press, metering, payouts, deducted, credited, drops, wfaults>>

\* A wallet that is there by now cannot have paid: INSUFFICIENT_BALANCE, which
\* the route answers as "depleted".
DeductLook(d) ==
    /\ deduct[d].stage = "look"
    /\ IF HasWallet(deduct[d].user)
       THEN AnswerDeduct(d, "depleted", FALSE, deduct[d].had)
       ELSE deduct' = [deduct EXCEPT ![d].stage = "create"] /\ UNCHANGED wfaults
    /\ UNCHANGED <<purse, press, metering, payouts, deducted, credited, drops>>

\* BROKEN: ON CONFLICT DO UPDATE SET balance_usd = 0.
DeductOverwrites(d) ==
    /\ deduct[d].stage = "create"
    /\ purse' = [purse EXCEPT ![deduct[d].user] = 0]
    /\ AnswerDeduct(d, "deducted", FALSE, deduct[d].had)
    /\ UNCHANGED <<press, metering, payouts, deducted, credited, drops>>

\* ON CONFLICT DO NOTHING.
DeductCreate(d) ==
    LET u == deduct[d].user IN
    /\ deduct[d].stage = "create"
    /\ purse' = [purse EXCEPT ![u] = IF HasWallet(u) THEN @ ELSE 0]
    /\ AnswerDeduct(d, "deducted", FALSE, deduct[d].had)
    /\ UNCHANGED <<press, metering, payouts, deducted, credited, drops>>

\* A verified payment credits a wallet, creating it when need be; once for each
\* user, a bound.
CreditArrives(u) ==
    /\ credited[u] = 0
    /\ credited' = [credited EXCEPT ![u] = TopUp]
    /\ purse' = [purse EXCEPT ![u] = IF HasWallet(u) THEN @ + TopUp ELSE TopUp]
    /\ UNCHANGED <<press, deduct, metering, payouts, deducted, drops, wfaults>>

-----------------------------------------------------------------------------
\* dm.metering.update: produced, processed, committed.
SendMetering(m, u, amount) ==
    /\ metering[m].stage = "unsent"
    /\ metering' = [metering EXCEPT ![m] = [NoMetering EXCEPT !.stage = "queued",
                                            !.user = u, !.amount = amount]]
    /\ UNCHANGED <<purse, press, deduct, payouts, deducted, credited, drops, wfaults>>

\* directDeduct. A wallet that cannot pay sends a kill signal, best effort; a
\* debit that fails is caught and the message is over: nobody pays for it.
ProcessMetering(m) ==
    LET u == metering[m].user
        amount == metering[m].amount IN
    /\ metering[m].stage = "queued"
    /\ \/ /\ Affords(u, amount)
          /\ Debit(u, amount)
          /\ deducted' = [deducted EXCEPT ![u] = @ + amount]
          /\ UNCHANGED wfaults
       \/ /\ ~Affords(u, amount)
          /\ UNCHANGED <<purse, drops, deducted, wfaults>>
       \/ /\ WalletFault
          /\ UNCHANGED <<purse, drops, deducted>>
    /\ metering' = [metering EXCEPT ![m].stage = "processed"]
    /\ UNCHANGED <<press, deduct, payouts, credited>>

CommitOffset(m) ==
    /\ metering[m].stage = "processed"
    /\ metering' = [metering EXCEPT ![m] = [NoMetering EXCEPT !.stage = "committed"]]
    /\ UNCHANGED <<purse, press, deduct, payouts, deducted, credited, drops, wfaults>>

\* The backend stops. What its consumer processed and did not commit comes
\* again, and is charged again; its deduction calls die.
ConsumerRestart ==
    /\ WalletFault
    /\ metering' = [m \in Meterings |->
          IF metering[m].stage = "processed"
          THEN [metering[m] EXCEPT !.stage = "queued"] ELSE metering[m]]
    /\ deduct' = [d \in DeductCalls |->
          IF deduct[d].stage \in {"look", "create"}
          THEN Over("lost", FALSE, deduct[d].had) ELSE deduct[d]]
    /\ UNCHANGED <<purse, press, payouts, deducted, credited, drops>>

WalletNext ==
    \/ \E p \in Presses :
          \/ \E u \in Users, amount \in Amounts : Press(p, u, amount)
          \/ Withdraw(p) \/ WithdrawRefused(p)
    \/ \E d \in DeductCalls :
          \/ \E u \in Users, amount \in Amounts : DeductFirst(d, u, amount)
          \/ DeductLook(d) \/ DeductCreate(d)
    \/ \E u \in Users : CreditArrives(u)
    \/ \E m \in Meterings :
          \/ \E u \in Users, amount \in Amounts : SendMetering(m, u, amount)
          \/ ProcessMetering(m) \/ CommitOffset(m)
    \/ ConsumerRestart

WalletSpec == WalletInit /\ [][WalletNext]_walletVars

-----------------------------------------------------------------------------
WalletTypeOK ==
    /\ purse \in [Users -> Nat \cup {None}]
    /\ press \in [Presses -> [stage : {"new", "sent", "done"}, user : Users \cup {None},
                              amount : Amounts \cup {0}, tries : 0..2]]
    /\ deduct \in [DeductCalls ->
          [stage : {"idle", "look", "create", "done"}, user : Users \cup {None},
           amount : Amounts \cup {0}, answer : {"none", "deducted", "depleted", "lost"},
           took : BOOLEAN, had : BOOLEAN]]
    /\ metering \in [Meterings ->
          [stage : {"unsent", "queued", "processed", "committed"},
           user : Users \cup {None}, amount : Amounts \cup {0}]]
    /\ payouts \in [Users -> Nat] /\ deducted \in [Users -> Nat]
    /\ credited \in [Users -> Nat] /\ drops \in [Users -> Nat] /\ wfaults \in Nat

\* What came into a wallet, what is in it, and what was taken from it.
Brought(u) == (IF Opening[u] = None THEN 0 ELSE Opening[u]) + credited[u]
Left(u) == IF purse[u] = None THEN 0 ELSE purse[u]
Taken(u) == payouts[u] + deducted[u]

\* Every payout and every deduction came out of its wallet and every credit went
\* into it, to within half a cent for each debit that was not for whole cents,
\* however calls, credits, repeats and redeliveries interleave: a deduction call
\* that creates an empty wallet does not overwrite the credit that came first.
WalletAccounts ==
    \A u \in Users :
        /\ 2 * (Left(u) + Taken(u)) <= 2 * Brought(u) + Cent10 * drops[u]
        /\ 2 * Brought(u) <= 2 * (Left(u) + Taken(u)) + Cent10 * drops[u]

\* A call answered "deducted" took its amount, unless its user had no wallet when
\* it began: a debit that matched no row is told apart from a missing wallet by a
\* second look, which a credit or another call may overtake. So only calls that
\* overlap can both be answered for nothing: the first to end leaves a wallet.
DeductionsAreReal ==
    \A d \in DeductCalls :
        deduct[d].answer = "deducted" => deduct[d].took \/ ~deduct[d].had
=============================================================================
