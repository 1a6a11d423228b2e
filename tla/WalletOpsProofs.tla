--------------------------- MODULE WalletOpsProofs ---------------------------
(***************************************************************************)
(* Theorems about WalletOps, for every set of amounts, every opening       *)
(* balance and every number of withdrawals, deductions and messages. The   *)
(* accounts balance because a wallet holds whole cents whenever it is      *)
(* debited: one debit is then at most half a cent off, and only when the   *)
(* amount was not whole cents.                                             *)
(***************************************************************************)
EXTENDS WalletOps, TLAPS

Whole == \A u \in Users : purse[u] # None => purse[u] % Cent10 = 0

\* Whoever is about to touch a wallet names one.
CallersNamed ==
    /\ \A p \in Presses : press[p].stage = "sent" =>
          press[p].user \in Users /\ press[p].amount \in Amounts
    /\ \A m \in Meterings : metering[m].stage \in {"queued", "processed"} =>
          metering[m].user \in Users /\ metering[m].amount \in Amounts

\* A deduction call that found a wallet when it began finds one when it looks: it
\* gets no further.
DeductsSound ==
    \A d \in DeductCalls :
        /\ deduct[d].stage \in {"look", "create"} => deduct[d].user \in Users
        /\ deduct[d].stage = "look" /\ deduct[d].had => HasWallet(deduct[d].user)
        /\ deduct[d].stage = "create" => ~deduct[d].had

WalletInv ==
    /\ WalletTypeOK /\ Whole /\ CallersNamed /\ DeductsSound
    /\ WalletAccounts /\ DeductionsAreReal

Calls ==
    [stage : {"idle", "look", "create", "done"}, user : Users \cup {None},
     amount : Amounts \cup {0}, answer : {"none", "deducted", "depleted", "lost"},
     took : BOOLEAN, had : BOOLEAN]

Sheets == [stage : {"new", "sent", "done"}, user : Users \cup {None},
           amount : Amounts \cup {0}, tries : 0..2]

Messages == [stage : {"unsent", "queued", "processed", "committed"},
             user : Users \cup {None}, amount : Amounts \cup {0}]

-----------------------------------------------------------------------------
USE PlatformAssumption, WalletAssumption

LEMMA WalletInvInit == WalletInit => WalletInv
  <1> SUFFICES ASSUME WalletInit PROVE WalletInv
    OBVIOUS
  <1>1. WalletTypeOK /\ Whole /\ CallersNamed /\ DeductsSound /\ DeductionsAreReal
    BY DEF WalletInit, WalletTypeOK, Whole, CallersNamed, DeductsSound, DeductionsAreReal,
           NoPress, NoDeduct, NoMetering
  <1>2. ASSUME NEW u \in Users
        PROVE  Left(u) = Brought(u) /\ Taken(u) = 0 /\ drops[u] = 0 /\ Brought(u) \in Nat
    BY DEF WalletInit, Left, Taken, Brought
  <1>3. ASSUME NEW u \in Users
        PROVE  /\ 2 * (Left(u) + Taken(u)) <= 2 * Brought(u) + Cent10 * drops[u]
               /\ 2 * Brought(u) <= 2 * (Left(u) + Taken(u)) + Cent10 * drops[u]
    BY <1>2 DEF Cent10
  <1>4. WalletAccounts
    BY <1>3 DEF WalletAccounts
  <1> QED BY <1>1, <1>4 DEF WalletInv

\* What the column makes of a difference of whole cents and an amount.
LEMMA ColumnParts ==
    ASSUME NEW b \in Nat, NEW a \in Nat, a <= b, b % Cent10 = 0
    PROVE  /\ ToColumn(b - a) \in Nat /\ ToColumn(b - a) % Cent10 = 0
           /\ a % Cent10 = 0 => ToColumn(b - a) = b - a
           /\ 2 * ToColumn(b - a) <= 2 * (b - a) + Cent10
           /\ 2 * (b - a) <= 2 * ToColumn(b - a) + Cent10
  BY DEF ToColumn, Cent10

\* No step takes a wallet away.
WalletsStay == \A u \in Users : HasWallet(u) => HasWallet(u)'

LEMMA DeductsStay ==
    ASSUME WalletInv, WalletsStay, UNCHANGED deduct
    PROVE  DeductsSound' /\ DeductionsAreReal'
  BY DEF WalletInv, DeductsSound, DeductionsAreReal, WalletsStay

\* A debit that is accounted for keeps the accounts.
LEMMA DebitKeeps ==
    ASSUME WalletInv, NEW u \in Users, NEW amount \in Amounts, Affords(u, amount),
           Debit(u, amount), payouts' \in [Users -> Nat], deducted' \in [Users -> Nat],
           UNCHANGED credited,
           Taken(u)' = Taken(u) + amount,
           \A v \in Users : v # u => Taken(v)' = Taken(v)
    PROVE  /\ purse' \in [Users -> Nat \cup {None}] /\ drops' \in [Users -> Nat]
           /\ Whole' /\ WalletAccounts' /\ WalletsStay
  <1> DEFINE after == ToColumn(purse[u] - amount)
  <1>1. /\ purse[u] \in Nat /\ purse[u] # None /\ amount \in Nat /\ amount <= purse[u]
        /\ purse[u] % Cent10 = 0 /\ purse \in [Users -> Nat \cup {None}]
        /\ drops \in [Users -> Nat] /\ Taken(u) \in Nat /\ Brought(u) \in Nat
    <2>1. /\ purse \in [Users -> Nat \cup {None}] /\ drops \in [Users -> Nat]
          /\ payouts[u] \in Nat /\ deducted[u] \in Nat /\ credited[u] \in Nat
      BY DEF WalletInv, WalletTypeOK
    <2>2. purse[u] \in Nat /\ purse[u] # None /\ amount \in Nat /\ amount <= purse[u]
      BY <2>1 DEF Affords, HasWallet
    <2>3. purse[u] % Cent10 = 0
      BY <2>2 DEF WalletInv, Whole
    <2>4. Taken(u) \in Nat /\ Brought(u) \in Nat
      BY <2>1 DEF Taken, Brought
    <2> QED BY <2>1, <2>2, <2>3, <2>4
  <1>2. /\ after \in Nat /\ after % Cent10 = 0
        /\ amount % Cent10 = 0 => after = purse[u] - amount
        /\ 2 * after <= 2 * (purse[u] - amount) + Cent10
        /\ 2 * (purse[u] - amount) <= 2 * after + Cent10
    BY <1>1, ColumnParts
  <1>3. purse' = [purse EXCEPT ![u] = after]
    BY DEF Debit
  <1> HIDE DEF after
  <1>4. /\ purse' \in [Users -> Nat \cup {None}] /\ purse'[u] = after
        /\ \A v \in Users : v # u => purse'[v] = purse[v]
    BY <1>1, <1>2, <1>3
  <1>5. /\ drops' \in [Users -> Nat]
        /\ drops'[u] = drops[u] + (IF amount % Cent10 = 0 THEN 0 ELSE 1)
        /\ \A v \in Users : v # u => drops'[v] = drops[v]
    BY <1>1 DEF Debit
  <1>6. Whole'
    BY <1>2, <1>4 DEF Whole, WalletInv
  <1>7. ASSUME NEW v \in Users, v # u
        PROVE  /\ 2 * (Left(v) + Taken(v))' <= 2 * Brought(v)' + Cent10 * drops'[v]
               /\ 2 * Brought(v)' <= 2 * (Left(v) + Taken(v))' + Cent10 * drops'[v]
    <2>1. /\ Left(v)' = Left(v) /\ Taken(v)' = Taken(v) /\ drops'[v] = drops[v]
          /\ Brought(v)' = Brought(v)
      BY <1>4, <1>5, <1>7 DEF Left, Brought
    <2>2. /\ 2 * (Left(v) + Taken(v)) <= 2 * Brought(v) + Cent10 * drops[v]
          /\ 2 * Brought(v) <= 2 * (Left(v) + Taken(v)) + Cent10 * drops[v]
      BY DEF WalletInv, WalletAccounts
    <2> QED BY <2>1, <2>2
  <1>8. /\ 2 * (Left(u) + Taken(u))' <= 2 * Brought(u)' + Cent10 * drops'[u]
        /\ 2 * Brought(u)' <= 2 * (Left(u) + Taken(u))' + Cent10 * drops'[u]
    <2>1. Left(u)' = after /\ Left(u) = purse[u] /\ Brought(u)' = Brought(u)
      BY <1>1, <1>2, <1>4 DEF Left, Brought
    <2>2. /\ 2 * (purse[u] + Taken(u)) <= 2 * Brought(u) + Cent10 * drops[u]
          /\ 2 * Brought(u) <= 2 * (purse[u] + Taken(u)) + Cent10 * drops[u]
      BY <2>1 DEF WalletInv, WalletAccounts
    <2>3. CASE amount % Cent10 = 0
      <3>1. after = purse[u] - amount /\ drops'[u] = drops[u]
        BY <1>1, <1>2, <1>5, <2>3
      <3>2. after + (Taken(u) + amount) = purse[u] + Taken(u)
        BY <1>1, <3>1
      <3> QED BY <2>1, <2>2, <3>1, <3>2
    <2>4. CASE amount % Cent10 # 0
      BY <1>1, <1>2, <1>5, <2>1, <2>2, <2>4 DEF Cent10
    <2> QED BY <2>3, <2>4
  <1>9. WalletAccounts'
    BY <1>7, <1>8 DEF WalletAccounts
  <1>10. WalletsStay
    BY <1>1, <1>2, <1>4 DEF WalletsStay, HasWallet
  <1> QED BY <1>4, <1>5, <1>6, <1>9, <1>10

\* Steps that move no money: at most, a wallet is created empty.
LEMMA QuietKeeps ==
    ASSUME WalletInv, UNCHANGED <<payouts, deducted, credited, drops>>,
           purse' \in [Users -> Nat \cup {None}],
           \A u \in Users : purse'[u] = purse[u] \/ (purse[u] = None /\ purse'[u] = 0)
    PROVE  Whole' /\ WalletAccounts' /\ WalletsStay
  <1>1. ASSUME NEW u \in Users
        PROVE  Left(u)' = Left(u) /\ Taken(u)' = Taken(u) /\ Brought(u)' = Brought(u)
    BY DEF Left, Taken, Brought
  <1>2. ASSUME NEW u \in Users
        PROVE  /\ 2 * (Left(u) + Taken(u))' <= 2 * Brought(u)' + Cent10 * drops'[u]
               /\ 2 * Brought(u)' <= 2 * (Left(u) + Taken(u))' + Cent10 * drops'[u]
    <2>1. /\ 2 * (Left(u) + Taken(u)) <= 2 * Brought(u) + Cent10 * drops[u]
          /\ 2 * Brought(u) <= 2 * (Left(u) + Taken(u)) + Cent10 * drops[u]
      BY DEF WalletInv, WalletAccounts
    <2> QED BY <1>1, <2>1
  <1>3. WalletAccounts'
    BY <1>2 DEF WalletAccounts
  <1>4. Whole'
    BY DEF WalletInv, Whole, Cent10
  <1>5. WalletsStay
    BY DEF WalletsStay, HasWallet
  <1> QED BY <1>3, <1>4, <1>5

LEMMA StillKeeps ==
    ASSUME WalletInv, UNCHANGED <<purse, payouts, deducted, credited, drops>>
    PROVE  Whole' /\ WalletAccounts' /\ WalletsStay
  BY QuietKeeps DEF WalletInv, WalletTypeOK

\* A credit is whole cents, and the accounts count it.
LEMMA CreditKeeps ==
    ASSUME WalletInv, NEW u \in Users, CreditArrives(u)
    PROVE  WalletInv'
  <1>1. /\ WalletTypeOK /\ UNCHANGED <<press, deduct, metering, payouts, deducted, drops, wfaults>>
        /\ credited[u] = 0 /\ credited' = [credited EXCEPT ![u] = TopUp]
        /\ purse' = [purse EXCEPT ![u] = IF HasWallet(u) THEN @ + TopUp ELSE TopUp]
    BY DEF WalletInv, CreditArrives
  <1>2. /\ purse' \in [Users -> Nat \cup {None}] /\ credited' \in [Users -> Nat]
        /\ credited'[u] = TopUp /\ purse'[u] = Left(u) + TopUp
        /\ purse'[u] # None /\ Left(u) \in Nat
        /\ \A v \in Users : v # u => purse'[v] = purse[v] /\ credited'[v] = credited[v]
    BY <1>1 DEF WalletTypeOK, HasWallet, Left
  <1>3. Left(u) % Cent10 = 0
    BY DEF WalletInv, Whole, Left, Cent10
  <1>4. (Left(u) + TopUp) % Cent10 = 0
    BY <1>2, <1>3 DEF Cent10
  <1>5. Whole'
    BY <1>2, <1>4 DEF WalletInv, Whole
  <1>6. WalletsStay
    BY <1>2 DEF WalletsStay, HasWallet
  <1>7. ASSUME NEW v \in Users
        PROVE  /\ 2 * (Left(v) + Taken(v))' <= 2 * Brought(v)' + Cent10 * drops'[v]
               /\ 2 * Brought(v)' <= 2 * (Left(v) + Taken(v))' + Cent10 * drops'[v]
    <2>1. /\ 2 * (Left(v) + Taken(v)) <= 2 * Brought(v) + Cent10 * drops[v]
          /\ 2 * Brought(v) <= 2 * (Left(v) + Taken(v)) + Cent10 * drops[v]
      BY DEF WalletInv, WalletAccounts
    <2>2. /\ Taken(v)' = Taken(v) /\ drops'[v] = drops[v]
          /\ Taken(v) \in Nat /\ Left(v) \in Nat /\ Brought(v) \in Nat /\ drops[v] \in Nat
      BY <1>1 DEF WalletTypeOK, Taken, Left, Brought
    <2>3. CASE v = u
      <3>1. Left(v)' = Left(v) + TopUp /\ Brought(v)' = Brought(v) + TopUp
        BY <1>1, <1>2, <2>3 DEF Left, Brought
      <3> QED BY <2>1, <2>2, <3>1 DEF Cent10
    <2>4. CASE v # u
      <3>1. Left(v)' = Left(v) /\ Brought(v)' = Brought(v)
        BY <1>2, <2>4 DEF Left, Brought
      <3> QED BY <2>1, <2>2, <3>1
    <2> QED BY <2>3, <2>4
  <1>8. WalletAccounts'
    BY <1>7 DEF WalletAccounts
  <1>9. WalletTypeOK' /\ CallersNamed'
    BY <1>1, <1>2 DEF WalletInv, WalletTypeOK, CallersNamed
  <1>10. DeductsSound' /\ DeductionsAreReal'
    BY <1>1, <1>6, DeductsStay
  <1> QED BY <1>5, <1>8, <1>9, <1>10 DEF WalletInv

-----------------------------------------------------------------------------
LEMMA PressKeeps ==
    ASSUME WalletInv, NEW p \in Presses, NEW u \in Users, NEW amount \in Amounts,
           Press(p, u, amount)
    PROVE  WalletInv'
  <1>1. /\ WalletTypeOK
        /\ UNCHANGED <<purse, deduct, metering, payouts, deducted, credited, drops, wfaults>>
    BY DEF Press, WalletInv
  <1>2. Whole' /\ WalletAccounts' /\ DeductsSound' /\ DeductionsAreReal'
    BY <1>1, StillKeeps, DeductsStay
  <1> DEFINE new == [NoPress EXCEPT !.stage = "sent", !.user = u, !.amount = amount, !.tries = 1]
  <1>3. press' = [press EXCEPT ![p] = new] /\ press \in [Presses -> Sheets]
    BY <1>1 DEF Press, Sheets, WalletTypeOK
  <1>4. new \in Sheets /\ new.stage = "sent" /\ new.user = u /\ new.amount = amount
    <2> DEFINE named == [NoPress EXCEPT !.stage = "sent", !.user = u, !.amount = amount]
    <2>1. /\ named \in Sheets /\ named.stage = "sent"
          /\ named.user = u /\ named.amount = amount
      <3>1. NoPress \in Sheets
        BY DEF NoPress, Sheets
      <3>2. amount \in Amounts \cup {0} /\ u \in Users \cup {None}
        OBVIOUS
      <3> QED BY <3>1, <3>2 DEF Sheets
    <2>2. new = [named EXCEPT !.tries = 1] /\ 1 \in 0..2
      BY DEF NoPress
    <2> HIDE DEF named, new
    <2> QED BY <2>1, <2>2 DEF Sheets
  <1> HIDE DEF new
  <1>5. press' \in [Presses -> Sheets]
    BY <1>3, <1>4
  <1>6. WalletTypeOK'
    BY <1>1, <1>5 DEF WalletTypeOK, Sheets
  <1>7. CallersNamed'
    BY <1>1, <1>3, <1>4 DEF WalletInv, CallersNamed
  <1> QED BY <1>2, <1>6, <1>7 DEF WalletInv

\* The answer to a withdrawal, however it went.
LEMMA AnswerKeeps ==
    ASSUME WalletInv, NEW p \in Presses, press[p].stage = "sent", AnswerWithdraw(p),
           UNCHANGED metering
    PROVE  press' \in [Presses -> Sheets] /\ wfaults' \in Nat /\ CallersNamed'
  <1>1. /\ WalletTypeOK /\ CallersNamed /\ press \in [Presses -> Sheets] /\ wfaults \in Nat
        /\ press[p].user \in Users /\ press[p].amount \in Amounts
    BY DEF WalletInv, WalletTypeOK, CallersNamed, Sheets
  <1>2. wfaults' \in Nat
    <2>1. wfaults' = wfaults \/ wfaults' = wfaults + 1
      BY DEF AnswerWithdraw, WalletFault
    <2> QED BY <1>1, <2>1
  <1>3. ASSUME NEW new \in Sheets, press' = [press EXCEPT ![p] = new],
               new.stage = "sent" => new.user \in Users /\ new.amount \in Amounts
        PROVE  press' \in [Presses -> Sheets] /\ CallersNamed'
    <2>1. press' \in [Presses -> Sheets]
      BY <1>1, <1>3
    <2>2. \A q \in Presses : press'[q] = IF q = p THEN new ELSE press[q]
      BY <1>1, <1>3
    <2> QED BY <1>1, <1>3, <2>1, <2>2 DEF CallersNamed
  <1> DEFINE done == [NoPress EXCEPT !.stage = "done"]
             again == [press[p] EXCEPT !.tries = 2]
  <1>4. done \in Sheets /\ done.stage = "done"
    BY DEF NoPress, Sheets
  <1>5. /\ again \in Sheets /\ again.user = press[p].user /\ again.amount = press[p].amount
    BY <1>1 DEF Sheets
  <1>6. press' = [press EXCEPT ![p] = done] \/ press' = [press EXCEPT ![p] = again]
    BY DEF AnswerWithdraw
  <1> HIDE DEF done, again
  <1>7. CASE press' = [press EXCEPT ![p] = done]
    BY <1>2, <1>3, <1>4, <1>7
  <1>8. CASE press' = [press EXCEPT ![p] = again]
    BY <1>1, <1>2, <1>3, <1>5, <1>8
  <1> QED BY <1>6, <1>7, <1>8

LEMMA WithdrawKeeps ==
    ASSUME WalletInv, NEW p \in Presses, Withdraw(p)
    PROVE  WalletInv'
  <1>1. PICK u \in Users, amount \in Amounts :
            /\ u = press[p].user /\ amount = press[p].amount /\ press[p].stage = "sent"
            /\ WalletTypeOK /\ amount \in Nat
    BY DEF WalletInv, CallersNamed, Withdraw
  <1>2. /\ Affords(u, amount) /\ Debit(u, amount) /\ AnswerWithdraw(p)
        /\ payouts' = [payouts EXCEPT ![u] = @ + amount]
        /\ UNCHANGED <<deduct, metering, deducted, credited>>
    BY <1>1 DEF Withdraw
  <1>3. /\ payouts' \in [Users -> Nat] /\ deducted' \in [Users -> Nat]
        /\ Taken(u)' = Taken(u) + amount
        /\ \A v \in Users : v # u => Taken(v)' = Taken(v)
    BY <1>1, <1>2 DEF WalletTypeOK, Taken
  <1>4. /\ purse' \in [Users -> Nat \cup {None}] /\ drops' \in [Users -> Nat]
        /\ Whole' /\ WalletAccounts' /\ WalletsStay
    BY <1>2, <1>3, DebitKeeps
  <1>5. press' \in [Presses -> Sheets] /\ wfaults' \in Nat /\ CallersNamed'
    BY <1>1, <1>2, AnswerKeeps
  <1>6. WalletTypeOK'
    BY <1>1, <1>2, <1>3, <1>4, <1>5 DEF WalletTypeOK, Sheets
  <1>7. DeductsSound' /\ DeductionsAreReal'
    BY <1>2, <1>4, DeductsStay
  <1> QED BY <1>4, <1>5, <1>6, <1>7 DEF WalletInv

LEMMA RefusedKeeps ==
    ASSUME WalletInv, NEW p \in Presses, WithdrawRefused(p)
    PROVE  WalletInv'
  <1>1. /\ WalletTypeOK /\ press[p].stage = "sent" /\ AnswerWithdraw(p)
        /\ UNCHANGED <<purse, deduct, metering, payouts, deducted, credited, drops>>
    BY DEF WithdrawRefused, WalletInv
  <1>2. Whole' /\ WalletAccounts' /\ DeductsSound' /\ DeductionsAreReal'
    BY <1>1, StillKeeps, DeductsStay
  <1>3. press' \in [Presses -> Sheets] /\ wfaults' \in Nat /\ CallersNamed'
    BY <1>1, AnswerKeeps
  <1>4. WalletTypeOK'
    BY <1>1, <1>3 DEF WalletTypeOK, Sheets
  <1> QED BY <1>2, <1>3, <1>4 DEF WalletInv

-----------------------------------------------------------------------------
\* What is deducted is counted.
LEMMA DeductedKeeps ==
    ASSUME WalletInv, NEW u \in Users, NEW amount \in Amounts, Affords(u, amount),
           Debit(u, amount), deducted' = [deducted EXCEPT ![u] = @ + amount],
           UNCHANGED <<payouts, credited>>
    PROVE  /\ purse' \in [Users -> Nat \cup {None}] /\ drops' \in [Users -> Nat]
           /\ deducted' \in [Users -> Nat] /\ Whole' /\ WalletAccounts' /\ WalletsStay
  <1>1. /\ payouts' \in [Users -> Nat] /\ deducted' \in [Users -> Nat]
        /\ Taken(u)' = Taken(u) + amount
        /\ \A v \in Users : v # u => Taken(v)' = Taken(v)
    BY DEF WalletInv, WalletTypeOK, Taken
  <1> QED BY <1>1, DebitKeeps

\* What a step of deduction call d makes of the calls.
LEMMA CallKeeps ==
    ASSUME WalletInv, WalletsStay, NEW d \in DeductCalls, NEW new \in Calls,
           deduct' = [deduct EXCEPT ![d] = new],
           new.stage \in {"look", "create"} => new.user \in Users,
           new.stage = "look" /\ new.had => purse'[new.user] # None,
           new.stage = "create" => ~new.had,
           new.answer = "deducted" => new.took \/ ~new.had
    PROVE  deduct' \in [DeductCalls -> Calls] /\ DeductsSound' /\ DeductionsAreReal'
  <1>1. deduct \in [DeductCalls -> Calls] /\ DeductsSound /\ DeductionsAreReal
    BY DEF WalletInv, WalletTypeOK, Calls
  <1>2. /\ deduct' \in [DeductCalls -> Calls]
        /\ \A e \in DeductCalls : deduct'[e] = IF e = d THEN new ELSE deduct[e]
    BY <1>1
  <1>3. DeductsSound'
    <2> SUFFICES ASSUME NEW e \in DeductCalls
                 PROVE  /\ deduct'[e].stage \in {"look", "create"} => deduct'[e].user \in Users
                        /\ deduct'[e].stage = "look" /\ deduct'[e].had
                              => HasWallet(deduct[e].user)'
                        /\ deduct'[e].stage = "create" => ~deduct'[e].had
      BY DEF DeductsSound
    <2>1. CASE e = d
      <3>1. deduct'[e] = new
        BY <1>2, <2>1
      <3> QED BY <3>1 DEF HasWallet
    <2>2. CASE e # d
      <3>1. deduct'[e] = deduct[e]
        BY <1>2, <2>2
      <3> QED BY <1>1, <3>1 DEF DeductsSound, WalletsStay, HasWallet
    <2> QED BY <2>1, <2>2
  <1>4. DeductionsAreReal'
    BY <1>1, <1>2 DEF DeductionsAreReal
  <1> QED BY <1>2, <1>3, <1>4

\* A call that ends.
LEMMA AnsweredKeeps ==
    ASSUME WalletInv, WalletsStay, NEW d \in DeductCalls,
           NEW answer \in {"deducted", "depleted"}, NEW took \in BOOLEAN, NEW had \in BOOLEAN,
           AnswerDeduct(d, answer, took, had), answer = "deducted" => took \/ ~had
    PROVE  /\ deduct' \in [DeductCalls -> Calls] /\ DeductsSound' /\ DeductionsAreReal'
           /\ wfaults' \in Nat
  <1>1. wfaults' \in Nat
    <2>1. wfaults \in Nat /\ (wfaults' = wfaults \/ wfaults' = wfaults + 1)
      BY DEF AnswerDeduct, WalletFault, WalletInv, WalletTypeOK
    <2> QED BY <2>1
  <1>2. PICK said \in {answer, "lost"} : deduct' = [deduct EXCEPT ![d] = Over(said, took, had)]
    BY DEF AnswerDeduct
  <1> DEFINE new == Over(said, took, had)
  <1>3. /\ new \in Calls /\ new.stage = "done" /\ new.answer = said
        /\ new.took = took /\ new.had = had
    BY DEF Over, NoDeduct, Calls
  <1>4. deduct' = [deduct EXCEPT ![d] = new]
    BY <1>2
  <1> HIDE DEF new
  <1>5. deduct' \in [DeductCalls -> Calls] /\ DeductsSound' /\ DeductionsAreReal'
    BY <1>3, <1>4, CallKeeps
  <1> QED BY <1>1, <1>5

LEMMA DeductFirstKeeps ==
    ASSUME WalletInv, NEW d \in DeductCalls, NEW u \in Users, NEW amount \in Amounts,
           DeductFirst(d, u, amount)
    PROVE  WalletInv'
  <1>1. WalletTypeOK /\ UNCHANGED <<press, metering, payouts, credited>>
    BY DEF DeductFirst, WalletInv
  <1>2. CallersNamed'
    BY <1>1 DEF WalletInv, CallersNamed
  <1>3. CASE Affords(u, amount)
    <2>1. /\ Debit(u, amount) /\ deducted' = [deducted EXCEPT ![u] = @ + amount]
          /\ AnswerDeduct(d, "deducted", TRUE, TRUE)
      BY <1>3 DEF DeductFirst
    <2>2. /\ purse' \in [Users -> Nat \cup {None}] /\ drops' \in [Users -> Nat]
          /\ deducted' \in [Users -> Nat] /\ Whole' /\ WalletAccounts' /\ WalletsStay
      BY <1>1, <1>3, <2>1, DeductedKeeps
    <2>3. /\ deduct' \in [DeductCalls -> Calls] /\ DeductsSound' /\ DeductionsAreReal'
          /\ wfaults' \in Nat
      BY <2>1, <2>2, AnsweredKeeps
    <2>4. WalletTypeOK'
      BY <1>1, <2>2, <2>3 DEF WalletTypeOK, Calls
    <2> QED BY <1>2, <2>2, <2>3, <2>4 DEF WalletInv
  <1>4. CASE ~Affords(u, amount)
    <2> DEFINE new == [NoDeduct EXCEPT !.stage = "look", !.user = u, !.amount = amount,
                                       !.had = HasWallet(u)]
    <2>1. deduct' = [deduct EXCEPT ![d] = new] /\ UNCHANGED <<purse, drops, deducted, wfaults>>
      BY <1>4 DEF DeductFirst
    <2>2. /\ new \in Calls /\ new.stage = "look" /\ new.user = u
          /\ new.had = HasWallet(u) /\ new.answer = "none"
      BY DEF NoDeduct, Calls, HasWallet
    <2> HIDE DEF new
    <2>3. Whole' /\ WalletAccounts' /\ WalletsStay
      BY <1>1, <2>1, StillKeeps
    <2>4. new.had => purse'[new.user] # None
      BY <2>1, <2>2 DEF HasWallet
    <2>5. deduct' \in [DeductCalls -> Calls] /\ DeductsSound' /\ DeductionsAreReal'
      BY <2>1, <2>2, <2>3, <2>4, CallKeeps
    <2>6. WalletTypeOK'
      BY <1>1, <2>1, <2>5 DEF WalletTypeOK, Calls
    <2> QED BY <1>2, <2>3, <2>5, <2>6 DEF WalletInv
  <1> QED BY <1>3, <1>4

LEMMA DeductLookKeeps ==
    ASSUME WalletInv, NEW d \in DeductCalls, DeductLook(d)
    PROVE  WalletInv'
  <1>1. /\ WalletTypeOK /\ deduct[d] \in Calls /\ deduct[d].stage = "look"
        /\ deduct[d].user \in Users /\ (deduct[d].had => HasWallet(deduct[d].user))
        /\ UNCHANGED <<purse, press, metering, payouts, deducted, credited, drops>>
    BY DEF DeductLook, WalletInv, WalletTypeOK, DeductsSound, Calls
  <1>2. CallersNamed' /\ Whole' /\ WalletAccounts' /\ WalletsStay
    BY <1>1, StillKeeps DEF WalletInv, CallersNamed
  <1>3. /\ deduct' \in [DeductCalls -> Calls] /\ DeductsSound' /\ DeductionsAreReal'
        /\ wfaults' \in Nat
    <2>1. CASE AnswerDeduct(d, "depleted", FALSE, deduct[d].had)
      <3>1. deduct[d].had \in BOOLEAN
        BY <1>1 DEF Calls
      <3> QED BY <1>2, <2>1, <3>1, AnsweredKeeps
    <2>2. CASE /\ ~HasWallet(deduct[d].user)
               /\ deduct' = [deduct EXCEPT ![d].stage = "create"] /\ UNCHANGED wfaults
      <3> DEFINE new == [deduct[d] EXCEPT !.stage = "create"]
      <3>1. /\ new \in Calls /\ new.stage = "create" /\ new.user = deduct[d].user
            /\ new.had = deduct[d].had /\ new.answer = deduct[d].answer
            /\ new.took = deduct[d].took
        BY <1>1 DEF Calls
      <3>2. deduct' = [deduct EXCEPT ![d] = new]
        BY <1>1, <2>2
      <3> HIDE DEF new
      <3>3. ~new.had /\ new.stage # "look"
        BY <1>1, <2>2, <3>1
      <3>4. deduct' \in [DeductCalls -> Calls] /\ DeductsSound' /\ DeductionsAreReal'
        BY <1>1, <1>2, <3>1, <3>2, <3>3, CallKeeps
      <3> QED BY <1>1, <2>2, <3>4 DEF WalletTypeOK
    <2> QED BY <2>1, <2>2 DEF DeductLook
  <1>4. WalletTypeOK'
    BY <1>1, <1>3 DEF WalletTypeOK, Calls
  <1> QED BY <1>2, <1>3, <1>4 DEF WalletInv

\* A wallet is created where there was none, and it is empty.
LEMMA DeductCreateKeeps ==
    ASSUME WalletInv, NEW d \in DeductCalls, DeductCreate(d)
    PROVE  WalletInv'
  <1>1. PICK u \in Users :
            /\ u = deduct[d].user /\ WalletTypeOK /\ ~deduct[d].had /\ deduct[d].had \in BOOLEAN
            /\ UNCHANGED <<press, metering, payouts, deducted, credited, drops>>
            /\ AnswerDeduct(d, "deducted", FALSE, deduct[d].had)
            /\ purse' = [purse EXCEPT ![u] = IF HasWallet(u) THEN @ ELSE 0]
    BY DEF DeductCreate, WalletInv, WalletTypeOK, DeductsSound
  <1>2. /\ purse' \in [Users -> Nat \cup {None}]
        /\ \A v \in Users : purse'[v] = purse[v] \/ (purse[v] = None /\ purse'[v] = 0)
    BY <1>1 DEF WalletTypeOK, HasWallet
  <1>3. CallersNamed' /\ Whole' /\ WalletAccounts' /\ WalletsStay
    BY <1>1, <1>2, QuietKeeps DEF WalletInv, CallersNamed
  <1>4. /\ deduct' \in [DeductCalls -> Calls] /\ DeductsSound' /\ DeductionsAreReal'
        /\ wfaults' \in Nat
    BY <1>1, <1>3, AnsweredKeeps
  <1>5. WalletTypeOK'
    BY <1>1, <1>2, <1>4 DEF WalletTypeOK, Calls
  <1> QED BY <1>3, <1>4, <1>5 DEF WalletInv

-----------------------------------------------------------------------------
\* What a step of message m makes of the messages.
LEMMA MessageKeeps ==
    ASSUME WalletInv, UNCHANGED press, NEW m \in Meterings, NEW new \in Messages,
           metering' = [metering EXCEPT ![m] = new],
           new.stage \in {"queued", "processed"} => new.user \in Users /\ new.amount \in Amounts
    PROVE  metering' \in [Meterings -> Messages] /\ CallersNamed'
  <1>1. metering \in [Meterings -> Messages] /\ CallersNamed
    BY DEF WalletInv, WalletTypeOK, Messages
  <1>2. /\ metering' \in [Meterings -> Messages]
        /\ \A n \in Meterings : metering'[n] = IF n = m THEN new ELSE metering[n]
    BY <1>1
  <1> QED BY <1>1, <1>2 DEF CallersNamed

LEMMA SendMeteringKeeps ==
    ASSUME WalletInv, NEW m \in Meterings, NEW u \in Users, NEW amount \in Amounts,
           SendMetering(m, u, amount)
    PROVE  WalletInv'
  <1>1. /\ WalletTypeOK
        /\ UNCHANGED <<purse, press, deduct, payouts, deducted, credited, drops, wfaults>>
    BY DEF SendMetering, WalletInv
  <1> DEFINE new == [NoMetering EXCEPT !.stage = "queued", !.user = u, !.amount = amount]
  <1>2. /\ new \in Messages /\ metering' = [metering EXCEPT ![m] = new]
        /\ new.user = u /\ new.amount = amount
    BY DEF SendMetering, NoMetering, Messages
  <1> HIDE DEF new
  <1>3. metering' \in [Meterings -> Messages] /\ CallersNamed'
    BY <1>1, <1>2, MessageKeeps
  <1>4. Whole' /\ WalletAccounts' /\ DeductsSound' /\ DeductionsAreReal'
    BY <1>1, StillKeeps, DeductsStay
  <1>5. WalletTypeOK'
    BY <1>1, <1>3 DEF WalletTypeOK, Messages
  <1> QED BY <1>3, <1>4, <1>5 DEF WalletInv

LEMMA ProcessKeeps ==
    ASSUME WalletInv, NEW m \in Meterings, ProcessMetering(m)
    PROVE  WalletInv'
  <1>1. PICK u \in Users, amount \in Amounts :
            u = metering[m].user /\ amount = metering[m].amount
    BY DEF WalletInv, CallersNamed, ProcessMetering
  <1>2. WalletTypeOK /\ UNCHANGED <<press, deduct, payouts, credited>> /\ wfaults' \in Nat
    <2>1. wfaults \in Nat /\ (wfaults' = wfaults \/ wfaults' = wfaults + 1)
      BY DEF ProcessMetering, WalletFault, WalletInv, WalletTypeOK
    <2> QED BY <2>1 DEF ProcessMetering, WalletInv
  <1>3. metering' \in [Meterings -> Messages] /\ CallersNamed'
    <2> DEFINE new == [metering[m] EXCEPT !.stage = "processed"]
    <2>1. metering[m] \in Messages
      BY <1>2 DEF WalletTypeOK, Messages
    <2>2. /\ new \in Messages /\ metering' = [metering EXCEPT ![m] = new]
          /\ new.user = u /\ new.amount = amount
      BY <1>1, <1>2, <2>1 DEF ProcessMetering, WalletTypeOK, Messages
    <2> HIDE DEF new
    <2> QED BY <1>2, <2>2, MessageKeeps
  <1>4. /\ purse' \in [Users -> Nat \cup {None}] /\ drops' \in [Users -> Nat]
        /\ deducted' \in [Users -> Nat] /\ Whole' /\ WalletAccounts' /\ WalletsStay
    <2>1. CASE /\ Affords(u, amount) /\ Debit(u, amount)
               /\ deducted' = [deducted EXCEPT ![u] = @ + amount]
      BY <1>2, <2>1, DeductedKeeps
    <2>2. CASE UNCHANGED <<purse, drops, deducted>>
      BY <1>2, <2>2, StillKeeps DEF WalletTypeOK
    <2> QED BY <1>1, <2>1, <2>2 DEF ProcessMetering
  <1>5. DeductsSound' /\ DeductionsAreReal'
    BY <1>2, <1>4, DeductsStay
  <1>6. WalletTypeOK'
    BY <1>2, <1>3, <1>4 DEF WalletTypeOK, Messages
  <1> QED BY <1>3, <1>4, <1>5, <1>6 DEF WalletInv

LEMMA CommitOffsetKeeps ==
    ASSUME WalletInv, NEW m \in Meterings, CommitOffset(m)
    PROVE  WalletInv'
  <1>1. /\ WalletTypeOK
        /\ UNCHANGED <<purse, press, deduct, payouts, deducted, credited, drops, wfaults>>
    BY DEF CommitOffset, WalletInv
  <1> DEFINE new == [NoMetering EXCEPT !.stage = "committed"]
  <1>2. new \in Messages /\ metering' = [metering EXCEPT ![m] = new] /\ new.stage = "committed"
    BY DEF CommitOffset, NoMetering, Messages
  <1> HIDE DEF new
  <1>3. metering' \in [Meterings -> Messages] /\ CallersNamed'
    BY <1>1, <1>2, MessageKeeps
  <1>4. Whole' /\ WalletAccounts' /\ DeductsSound' /\ DeductionsAreReal'
    BY <1>1, StillKeeps, DeductsStay
  <1>5. WalletTypeOK'
    BY <1>1, <1>3 DEF WalletTypeOK, Messages
  <1> QED BY <1>3, <1>4, <1>5 DEF WalletInv

LEMMA ConsumerRestartKeeps ==
    ASSUME WalletInv, ConsumerRestart
    PROVE  WalletInv'
  <1>1. /\ WalletTypeOK /\ CallersNamed /\ DeductsSound /\ DeductionsAreReal
        /\ UNCHANGED <<purse, press, payouts, deducted, credited, drops>>
    BY DEF ConsumerRestart, WalletInv
  <1>2. wfaults' \in Nat
    <2>1. wfaults' = wfaults + 1 /\ wfaults \in Nat
      BY <1>1 DEF ConsumerRestart, WalletFault, WalletTypeOK
    <2> QED BY <2>1
  <1>3. Whole' /\ WalletAccounts' /\ WalletsStay
    BY <1>1, StillKeeps
  <1> DEFINE back(m) == IF metering[m].stage = "processed"
                        THEN [metering[m] EXCEPT !.stage = "queued"] ELSE metering[m]
             died(d) == IF deduct[d].stage \in {"look", "create"}
                        THEN Over("lost", FALSE, deduct[d].had) ELSE deduct[d]
  <1>4. ASSUME NEW m \in Meterings
        PROVE  /\ back(m) \in Messages
               /\ back(m).stage \in {"queued", "processed"} =>
                     back(m).user \in Users /\ back(m).amount \in Amounts
    <2>1. metering[m] \in Messages
      BY <1>1 DEF WalletTypeOK, Messages
    <2> QED BY <1>1, <2>1 DEF CallersNamed, Messages
  <1>5. ASSUME NEW d \in DeductCalls
        PROVE  /\ died(d) \in Calls /\ died(d).stage \notin {"look", "create"}
               /\ died(d).answer = "deducted" => died(d).took \/ ~died(d).had
    <2>1. deduct[d] \in Calls
      BY <1>1 DEF WalletTypeOK, Calls
    <2>2. CASE deduct[d].stage \in {"look", "create"}
      <3>1. died(d) = Over("lost", FALSE, deduct[d].had)
        BY <2>2
      <3> HIDE DEF died
      <3> QED BY <2>1, <3>1 DEF Over, NoDeduct, Calls
    <2>3. CASE deduct[d].stage \notin {"look", "create"}
      <3>1. died(d) = deduct[d]
        BY <2>3
      <3> HIDE DEF died
      <3> QED BY <1>1, <2>1, <2>3, <3>1 DEF DeductionsAreReal
    <2> QED BY <2>2, <2>3
  <1>6. /\ metering' = [m \in Meterings |-> back(m)]
        /\ deduct' = [d \in DeductCalls |-> died(d)]
    BY DEF ConsumerRestart
  <1> HIDE DEF back, died
  <1>7. /\ metering' \in [Meterings -> Messages] /\ deduct' \in [DeductCalls -> Calls]
        /\ \A m \in Meterings : metering'[m] = back(m)
        /\ \A d \in DeductCalls : deduct'[d] = died(d)
    BY <1>4, <1>5, <1>6
  <1>8. WalletTypeOK'
    BY <1>1, <1>2, <1>7 DEF WalletTypeOK, Messages, Calls
  <1>9. CallersNamed'
    BY <1>1, <1>4, <1>7 DEF CallersNamed
  <1>10. DeductsSound' /\ DeductionsAreReal'
    BY <1>5, <1>7 DEF DeductsSound, DeductionsAreReal
  <1> QED BY <1>3, <1>8, <1>9, <1>10 DEF WalletInv

THEOREM WalletInvariant == WalletSpec => []WalletInv
  <1>1. WalletInv /\ [WalletNext]_walletVars => WalletInv'
    <2> SUFFICES ASSUME WalletInv, [WalletNext]_walletVars PROVE WalletInv'
      OBVIOUS
    <2>1. CASE UNCHANGED walletVars
      <3>1. /\ UNCHANGED <<purse, payouts, deducted, credited, drops>>
            /\ UNCHANGED <<press, metering, deduct, wfaults>>
        BY <2>1 DEF walletVars
      <3>2. Whole' /\ WalletAccounts' /\ DeductsSound' /\ DeductionsAreReal'
        BY <3>1, StillKeeps, DeductsStay
      <3>3. WalletTypeOK' /\ CallersNamed'
        BY <3>1 DEF WalletInv, WalletTypeOK, CallersNamed
      <3> QED BY <3>2, <3>3 DEF WalletInv
    <2>2. CASE WalletNext
      BY <2>2, PressKeeps, WithdrawKeeps, RefusedKeeps, DeductFirstKeeps, DeductLookKeeps,
         DeductCreateKeeps, CreditKeeps, SendMeteringKeeps, ProcessKeeps, CommitOffsetKeeps,
         ConsumerRestartKeeps
         DEF WalletNext
    <2> QED BY <2>1, <2>2
  <1> QED BY WalletInvInit, <1>1, PTL DEF WalletSpec

-----------------------------------------------------------------------------
\* The specification's variables keep their types.
THEOREM WalletTypesHold == WalletSpec => []WalletTypeOK
  BY WalletInvariant, PTL DEF WalletInv

\* Every payout and deduction came out of its wallet and every credit went into
\* it, to within half a cent for each debit that was not for whole cents.
THEOREM WalletAccountsHolds == WalletSpec => []WalletAccounts
  BY WalletInvariant, PTL DEF WalletInv

\* Nothing is answered as deducted that was not, but to a call that began before
\* its user had a wallet.
THEOREM DeductionsAreRealHolds == WalletSpec => []DeductionsAreReal
  BY WalletInvariant, PTL DEF WalletInv
=============================================================================
