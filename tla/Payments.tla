------------------------------ MODULE Payments ------------------------------
(***************************************************************************)
(* The payment module of the backend: initiatePayment, the Stripe webhook, *)
(* the M-Pesa callback and the dispute / billing-admin transitions, all    *)
(* writing the same row of payments.transactions.                          *)
(*                                                                         *)
(* Every await of a handler is a point where other handlers run, so each   *)
(* stretch of code between two awaits, and each SQL transaction, is one    *)
(* action. A row is named after the initiate call that inserted it and a   *)
(* provider reference after the initiate call that obtained it: a call     *)
(* does either at most once.                                               *)
(*                                                                         *)
(* Left out: currencies, phone numbers, the reasons of transitions and the *)
(* fee split of a row (of the fee columns only the CHECK that can abort    *)
(* the credit is kept). An operator under the heading BROKEN is the one    *)
(* below it with a plausible fault; no action uses it, and a property that *)
(* holds of the module must fail when it is put in place.                  *)
(***************************************************************************)
EXTENDS Naturals, Sequences, FiniteSets, TransactionMachine

CONSTANTS
    Requests,     \* calls of POST /v1/payments/initiate
    Users,        \* buyers
    Accepted,     \* the buyers whose stored acceptances satisfy the PURCHASE gate
    Keys,         \* idempotency keys
    Inputs,       \* what a call may carry
    Hooks,        \* callbacks that may be in progress at the same time
    ShowsAmount,  \* whether a successful M-Pesa callback carries its amount
    Calls,        \* calls of the dispute and status routes
    MaxCrashes,   \* bound on restarts of the backend
    None

Methods == {"STRIPE", "MPESA"}

ASSUME PaymentAssumption ==
    /\ None \notin Requests \cup Users \cup Keys
    /\ Accepted \subseteq Users
    /\ Inputs \subseteq [user : Users, key : Keys \cup {None},
                         method : Methods, amount : Nat \ {0}]
    /\ ShowsAmount \subseteq BOOLEAN
    /\ MaxCrashes \in Nat

VARIABLES
    req,        \* each initiate call: its stage, its input, the row it works on
    tx,         \* payments.transactions
    wallet,     \* what payments have added to billing.wallets, per buyer
    ledger,     \* billing.ledger_entries, by the row they refer to
    events,     \* compliance.transaction_events, by row, in order
    hook,       \* the callbacks in progress
    acked,      \* callbacks answered with 200: the provider may stop retrying
    published,  \* dm.payment.completed messages sent, by row
    call,       \* the transition calls
    intent,     \* the provider's side of each reference (external)
    crashes     \* restarts so far

vars == <<req, tx, wallet, ledger, events, hook, acked, published, call,
          intent, crashes>>

-----------------------------------------------------------------------------
\* Rows and their parts.

\* Every status the code writes: the three of the repository and the targets
\* of the two transition routes. "ABSENT" is no row at all.
RowStatuses == {"PENDING", "COMPLETED", "FAILED"} \cup TransitionKinds

NoRow == [status |-> "ABSENT", user |-> None, amount |-> 0, key |-> None, ref |-> None]

Rows ==
    {NoRow} \cup [status : RowStatuses, user : Users, amount : Nat \ {0},
                  key : Keys \cup {None}, ref : Requests \cup {None}]

NoIntent == [state |-> "none", method |-> None, tx |-> None, amount |-> 0]

Intents ==
    {NoIntent} \cup [state : {"open", "paid", "declined"}, method : Methods,
                     tx : Requests, amount : Nat \ {0}]

ReqStages == {"new", "lookup", "insert", "refetch", "provider", "ref", "done",
              "refused", "failed"}

ReqRecords == [stage : ReqStages, input : Inputs \cup {None}, tx : Requests \cup {None}]

Idle == [stage |-> "idle", ref |-> None, tx |-> None]

HookStates ==
    {Idle} \cup [stage : {"credit", "fail"}, ref : Requests, tx : {None}]
           \cup [stage : {"publish"}, ref : Requests, tx : Requests]

NewCall == [stage |-> "new", tx |-> None, from |-> "ABSENT", to |-> "ABSENT",
            outcome |-> "NONE"]

CallRecords == [stage : {"new", "apply", "done"}, tx : Requests \cup {None},
                from : RowStatuses \cup {"ABSENT"}, to : TransitionKinds \cup {"ABSENT"},
                outcome : Verdicts \cup {"NONE", "APPLIED", "CONFLICT"}]

LedgerEntries == [ref : Requests, amount : Nat \ {0}]

Events == [from : RowStatuses, to : TransitionKinds]

Exists(t) == tx[t].status # "ABSENT"

\* findByIdempotencyKey.
RowsWithKey(k) == {t \in Requests : Exists(t) /\ tx[t].key = k}

\* findByRef; WHERE provider_ref = $1 AND status = 'PENDING'.
RowsWithRef(ref) == {t \in Requests : Exists(t) /\ tx[t].ref = ref}
PendingWithRef(ref) == {t \in RowsWithRef(ref) : tx[t].status = "PENDING"}

Init ==
    /\ req = [r \in Requests |-> [stage |-> "new", input |-> None, tx |-> None]]
    /\ tx = [t \in Requests |-> NoRow]
    /\ wallet = [u \in Users |-> 0]
    /\ ledger = [t \in Requests |-> <<>>]
    /\ events = [t \in Requests |-> <<>>]
    /\ hook = [h \in Hooks |-> Idle]
    /\ acked = {}
    /\ published = [t \in Requests |-> 0]
    /\ call = [c \in Calls |-> NewCall]
    /\ intent = [r \in Requests |-> NoIntent]
    /\ crashes = 0

-----------------------------------------------------------------------------
\* POST /v1/payments/initiate.

\* The policy gate; a call without a key skips the lookup.
Submit(r, in) ==
    /\ req[r].stage = "new"
    /\ req' = [req EXCEPT ![r].input = in,
                          ![r].stage = IF in.user \notin Accepted THEN "refused"
                                       ELSE IF in.key = None THEN "insert"
                                       ELSE "lookup"]
    /\ UNCHANGED <<tx, wallet, ledger, events, hook, acked, published, call,
                   intent, crashes>>

\* An earlier row with the key is returned as it is.
FindExisting(r) ==
    /\ req[r].stage = "lookup"
    /\ \/ /\ RowsWithKey(req[r].input.key) = {}
          /\ req' = [req EXCEPT ![r].stage = "insert"]
       \/ \E t \in RowsWithKey(req[r].input.key) :
             req' = [req EXCEPT ![r].stage = "done", ![r].tx = t]
    /\ UNCHANGED <<tx, wallet, ledger, events, hook, acked, published, call,
                   intent, crashes>>

\* BROKEN: no unique index on the key.
KeyNeverTaken(k) == FALSE

\* INSERT ... ON CONFLICT (idempotency_key) DO NOTHING; a null key conflicts
\* with nothing.
KeyTaken(k) == k # None /\ RowsWithKey(k) # {}

Create(r) ==
    /\ req[r].stage = "insert"
    /\ LET in == req[r].input IN
       IF KeyTaken(in.key)
       THEN /\ req' = [req EXCEPT ![r].stage = "refetch"]
            /\ UNCHANGED tx
       ELSE /\ req' = [req EXCEPT ![r].stage = "provider", ![r].tx = r]
            /\ tx' = [tx EXCEPT ![r] = [status |-> "PENDING", user |-> in.user,
                                        amount |-> in.amount, key |-> in.key,
                                        ref |-> None]]
    /\ UNCHANGED <<wallet, ledger, events, hook, acked, published, call,
                   intent, crashes>>

\* BROKEN: the result of the second lookup is dropped.
RefetchNothing(r) ==
    /\ req[r].stage = "refetch"
    /\ req' = [req EXCEPT ![r].stage = "provider"]
    /\ UNCHANGED <<tx, wallet, ledger, events, hook, acked, published, call,
                   intent, crashes>>

\* The loser of the race adopts the winner's row. Rows are never deleted, so
\* the row is there and PAYMENT_CREATE_FAILED is not reached.
Refetch(r) ==
    /\ req[r].stage = "refetch"
    /\ \E t \in RowsWithKey(req[r].input.key) :
          req' = [req EXCEPT ![r].stage = "provider", ![r].tx = t]
    /\ UNCHANGED <<tx, wallet, ledger, events, hook, acked, published, call,
                   intent, crashes>>

\* createPaymentIntent: the provider opens an intent for the CALLER's amount,
\* refuses, or opens it and its answer is lost (the call throws either way).
CallProvider(r) ==
    /\ req[r].stage = "provider"
    /\ \/ /\ intent' = [intent EXCEPT ![r] =
                [state |-> "open", method |-> req[r].input.method,
                 tx |-> req[r].tx, amount |-> req[r].input.amount]]
          /\ \E next \in {"ref", "failed"} : req' = [req EXCEPT ![r].stage = next]
       \/ /\ req' = [req EXCEPT ![r].stage = "failed"]
          /\ UNCHANGED intent
    /\ UNCHANGED <<tx, wallet, ledger, events, hook, acked, published, call, crashes>>

\* updateProviderRef: unconditional, whatever the row holds by now.
RecordRef(r) ==
    /\ req[r].stage = "ref"
    /\ tx' = [tx EXCEPT ![req[r].tx].ref = r]
    /\ req' = [req EXCEPT ![r].stage = "done"]
    /\ UNCHANGED <<wallet, ledger, events, hook, acked, published, call,
                   intent, crashes>>

-----------------------------------------------------------------------------
\* The provider (external): an intent is paid or declined once. An M-Pesa
\* prompt is on the phone at once; a Stripe intent needs the checkout link,
\* which only a finished call returns.
Settle(r) ==
    /\ intent[r].state = "open"
    /\ intent[r].method = "STRIPE" => req[r].stage = "done"
    /\ \E state \in {"paid", "declined"} :
          intent' = [intent EXCEPT ![r].state = state]
    /\ UNCHANGED <<req, tx, wallet, ledger, events, hook, acked, published,
                   call, crashes>>

\* Callbacks are delivered late, more than once, in any order or never: any
\* settled reference may be delivered whenever a handler is free.
Delivers(h, ref, method) ==
    /\ hook[h].stage = "idle"
    /\ intent[ref].state \in {"paid", "declined"}
    /\ intent[ref].method = method

\* BROKEN: the amount the provider reports is credited.
CompleteAndCreditReported(t, ref) ==
    /\ tx' = [tx EXCEPT ![t].status = "COMPLETED"]
    /\ wallet' = [wallet EXCEPT ![tx[t].user] = @ + intent[ref].amount]
    /\ ledger' = [ledger EXCEPT ![t] =
                     Append(@, [ref |-> ref, amount |-> tx[t].amount])]

\* BROKEN: no ledger entry.
CompleteAndCreditUnlogged(t, ref) ==
    /\ tx' = [tx EXCEPT ![t].status = "COMPLETED"]
    /\ wallet' = [wallet EXCEPT ![tx[t].user] = @ + tx[t].amount]
    /\ UNCHANGED ledger

\* completeAndCredit: status, wallet and ledger in one SQL transaction. The
\* row's stored amount is credited, not the one the provider reports.
CompleteAndCredit(t, ref) ==
    /\ tx' = [tx EXCEPT ![t].status = "COMPLETED"]
    /\ wallet' = [wallet EXCEPT ![tx[t].user] = @ + tx[t].amount]
    /\ ledger' = [ledger EXCEPT ![t] =
                     Append(@, [ref |-> ref, amount |-> tx[t].amount])]

NoCredit == UNCHANGED <<tx, wallet, ledger>>

\* chk_transaction_fees_nonnegative: the fee and the net, together the amount
\* of the event, may not exceed the stored amount.
FeesFit(t, ref) == intent[ref].amount <= tx[t].amount

\* BROKEN: the kind of event, or the result code, is not looked at.
Reported(ref) == intent[ref].state # "open"

\* payment_intent.succeeded, or resultCode 0.
Succeeded(ref) == intent[ref].state = "paid"

\* handleVerifiedStripeEvent. A violated CHECK rolls back and answers 500,
\* which is the same as the event not having been delivered.
StripeCredit(h, ref) ==
    /\ Delivers(h, ref, "STRIPE") /\ Succeeded(ref)
    /\ \E t \in PendingWithRef(ref) :
          /\ FeesFit(t, ref)
          /\ CompleteAndCredit(t, ref)
          /\ hook' = [hook EXCEPT ![h] = [stage |-> "publish", ref |-> ref, tx |-> t]]
    /\ UNCHANGED <<req, events, acked, published, call, intent, crashes>>

\* Not payment_intent.succeeded, or no PENDING row: acknowledged, ignored.
StripeIgnore(h, ref) ==
    /\ Delivers(h, ref, "STRIPE")
    /\ ~Succeeded(ref) \/ PendingWithRef(ref) = {}
    /\ acked' = acked \cup {ref}
    /\ UNCHANGED <<req, tx, wallet, ledger, events, hook, published, call,
                   intent, crashes>>

\* BROKEN: no reconciliation.
AmountTrusted(t, ref, shown) == TRUE

\* The amount, when the callback carries one, is reconciled with the row. Two
\* different amounts in dollars are further apart than the 5 KES of tolerance.
AmountMatches(t, ref, shown) == shown => intent[ref].amount = tx[t].amount

\* BROKEN: the callback is answered before it is handled.
MpesaFindAndAck(h, ref, shown) ==
    /\ Delivers(h, ref, "MPESA") /\ Succeeded(ref)
    /\ \E t \in PendingWithRef(ref) :
          hook' = [hook EXCEPT ![h] =
                     [stage |-> IF AmountMatches(t, ref, shown) THEN "credit" ELSE "fail",
                      ref |-> ref, tx |-> None]]
    /\ acked' = acked \cup {ref}
    /\ UNCHANGED <<req, tx, wallet, ledger, events, published, call, intent, crashes>>

\* handleMpesaCallback, resultCode 0, up to its second await: the row is read.
MpesaFind(h, ref, shown) ==
    /\ Delivers(h, ref, "MPESA") /\ Succeeded(ref)
    /\ \E t \in PendingWithRef(ref) :
          hook' = [hook EXCEPT ![h] =
                     [stage |-> IF AmountMatches(t, ref, shown) THEN "credit" ELSE "fail",
                      ref |-> ref, tx |-> None]]
    /\ UNCHANGED <<req, tx, wallet, ledger, events, acked, published, call,
                   intent, crashes>>

\* UNKNOWN_REF or IGNORED: acknowledged with 200 all the same.
MpesaIgnore(h, ref) ==
    /\ Delivers(h, ref, "MPESA") /\ Succeeded(ref)
    /\ PendingWithRef(ref) = {}
    /\ acked' = acked \cup {ref}
    /\ UNCHANGED <<req, tx, wallet, ledger, events, hook, published, call,
                   intent, crashes>>

\* BROKEN: the status is not looked at.
FailAnyByRef(ref) ==
    tx' = [t \in Requests |-> IF t \in RowsWithRef(ref)
                              THEN [tx[t] EXCEPT !.status = "FAILED"] ELSE tx[t]]

\* failByRef: only a PENDING row fails.
FailByRef(ref) ==
    tx' = [t \in Requests |-> IF t \in PendingWithRef(ref)
                              THEN [tx[t] EXCEPT !.status = "FAILED"] ELSE tx[t]]

\* resultCode other than 0.
MpesaDeclined(h, ref) ==
    /\ Delivers(h, ref, "MPESA") /\ ~Succeeded(ref)
    /\ FailByRef(ref)
    /\ acked' = acked \cup {ref}
    /\ UNCHANGED <<req, wallet, ledger, events, hook, published, call, intent, crashes>>

\* The amount did not match.
MpesaFail(h) ==
    /\ hook[h].stage = "fail"
    /\ FailByRef(hook[h].ref)
    /\ acked' = acked \cup {hook[h].ref}
    /\ hook' = [hook EXCEPT ![h] = Idle]
    /\ UNCHANGED <<req, wallet, ledger, events, published, call, intent, crashes>>

\* The credit looks the row up again: it may have left PENDING, or changed
\* its reference, since the handler read it.
MpesaCredit(h) ==
    /\ hook[h].stage = "credit"
    /\ \/ \E t \in PendingWithRef(hook[h].ref) :
             /\ CompleteAndCredit(t, hook[h].ref)
             /\ hook' = [hook EXCEPT ![h] = [@ EXCEPT !.stage = "publish", !.tx = t]]
             /\ UNCHANGED acked
       \/ /\ PendingWithRef(hook[h].ref) = {}
          /\ NoCredit
          /\ acked' = acked \cup {hook[h].ref}
          /\ hook' = [hook EXCEPT ![h] = Idle]
    /\ UNCHANGED <<req, events, published, call, intent, crashes>>

\* BROKEN: the send is repeated after it succeeded.
PublishAndStay(h) ==
    /\ hook[h].stage = "publish"
    /\ published' = [published EXCEPT ![hook[h].tx] = @ + 1]
    /\ UNCHANGED <<req, tx, wallet, ledger, events, hook, acked, call, intent, crashes>>

\* publishCompleted: a failed send is logged and forgotten.
Publish(h) ==
    /\ hook[h].stage = "publish"
    /\ \/ published' = [published EXCEPT ![hook[h].tx] = @ + 1]
       \/ UNCHANGED published
    /\ acked' = acked \cup {hook[h].ref}
    /\ hook' = [hook EXCEPT ![h] = Idle]
    /\ UNCHANGED <<req, tx, wallet, ledger, events, call, intent, crashes>>

-----------------------------------------------------------------------------
\* POST /v1/payments/:id/dispute and /status.

\* The dispute route takes any caller; the status route lets only billing
\* administrators in and never asks for DISPUTED.
RouteAdmits(kind, role) == kind = "DISPUTED" \/ role = "BILLING_ADMIN"

\* transition(): read the row, then assertTransitionAllowed.
ReadForTransition(c, t, kind, role, isOwner) ==
    /\ call[c].stage = "new"
    /\ Exists(t)
    /\ RouteAdmits(kind, role)
    /\ LET verdict == Verdict(tx[t].status, kind, role, isOwner) IN
       call' = [call EXCEPT ![c] =
                  [stage |-> IF verdict = "ALLOWED" THEN "apply" ELSE "done",
                   tx |-> t, from |-> tx[t].status, to |-> kind,
                   outcome |-> verdict]]
    /\ UNCHANGED <<req, tx, wallet, ledger, events, hook, acked, published,
                   intent, crashes>>

\* BROKEN: WHERE id = $1 only.
Unconditional(c) == TRUE

\* UPDATE ... WHERE id = $1 AND status = $2.
StillAsRead(c) == tx[call[c].tx].status = call[c].from

\* applyTransition: compare-and-set on the status read before, and the event
\* row in the same SQL transaction.
ApplyTransition(c) ==
    LET t == call[c].tx IN
    /\ call[c].stage = "apply"
    /\ IF StillAsRead(c)
       THEN /\ tx' = [tx EXCEPT ![t].status = call[c].to]
            /\ events' = [events EXCEPT ![t] =
                             Append(@, [from |-> call[c].from, to |-> call[c].to])]
            /\ call' = [call EXCEPT ![c].stage = "done", ![c].outcome = "APPLIED"]
       ELSE /\ call' = [call EXCEPT ![c].stage = "done", ![c].outcome = "CONFLICT"]
            /\ UNCHANGED <<tx, events>>
    /\ UNCHANGED <<req, wallet, ledger, hook, acked, published, intent, crashes>>

-----------------------------------------------------------------------------
\* A restart of the backend: every handler in progress is gone, PostgreSQL
\* keeps what was committed.
Crash ==
    /\ crashes < MaxCrashes
    /\ crashes' = crashes + 1
    /\ req' = [r \in Requests |->
                 IF req[r].stage \in {"new", "done", "refused"} THEN req[r]
                 ELSE [req[r] EXCEPT !.stage = "failed"]]
    /\ hook' = [h \in Hooks |-> Idle]
    /\ call' = [c \in Calls |->
                  IF call[c].stage = "apply"
                  THEN [call[c] EXCEPT !.stage = "done", !.outcome = "NONE"] ELSE call[c]]
    /\ UNCHANGED <<tx, wallet, ledger, events, acked, published, intent>>

InitiateStep(r) ==
    FindExisting(r) \/ Create(r) \/ Refetch(r) \/ CallProvider(r) \/ RecordRef(r)

DeliveryStep(h, ref) ==
    \/ StripeCredit(h, ref)
    \/ StripeIgnore(h, ref)
    \/ \E shown \in ShowsAmount : MpesaFind(h, ref, shown)
    \/ MpesaIgnore(h, ref)
    \/ MpesaDeclined(h, ref)

HookStep(h) == MpesaFail(h) \/ MpesaCredit(h) \/ Publish(h)

Next ==
    \/ \E r \in Requests : \E in \in Inputs : Submit(r, in)
    \/ \E r \in Requests : InitiateStep(r)
    \/ \E r \in Requests : Settle(r)
    \/ \E h \in Hooks, ref \in Requests : DeliveryStep(h, ref)
    \/ \E h \in Hooks : HookStep(h)
    \/ \E c \in Calls, t \in Requests, kind \in TransitionKinds, role \in Roles,
          isOwner \in BOOLEAN : ReadForTransition(c, t, kind, role, isOwner)
    \/ \E c \in Calls : ApplyTransition(c)
    \/ Crash

Spec == Init /\ [][Next]_vars

(***************************************************************************)
(* Fairness: a handler that waits on the database or a provider resumes;   *)
(* a provider redelivers a callback until it is answered with 200. The     *)
(* second is strong because Hooks bounds the handlers in progress, which   *)
(* the server does not: another delivery may take the last free slot.      *)
(* Buyers, administrators and crashes owe nothing.                         *)
(***************************************************************************)
Redelivery(ref) == ref \notin acked /\ \E h \in Hooks : DeliveryStep(h, ref)

Fairness ==
    /\ \A r \in Requests : WF_vars(InitiateStep(r))
    /\ \A h \in Hooks : WF_vars(HookStep(h))
    /\ \A ref \in Requests : SF_vars(Redelivery(ref))

FairSpec == Spec /\ Fairness
-----------------------------------------------------------------------------
\* Type invariant: the shape of every row, handler and provider record.
TypeOK ==
    /\ req \in [Requests -> ReqRecords]
    /\ tx \in [Requests -> Rows]
    /\ wallet \in [Users -> Nat]
    /\ ledger \in [Requests -> Seq(LedgerEntries)]
    /\ events \in [Requests -> Seq(Events)]
    /\ hook \in [Hooks -> HookStates]
    /\ acked \subseteq Requests
    /\ published \in [Requests -> Nat]
    /\ call \in [Calls -> CallRecords]
    /\ intent \in [Requests -> Intents]
    /\ crashes \in 0..MaxCrashes

\* A row has exactly one wallet credit in the ledger, for its own amount, when
\* it is COMPLETED, and none otherwise: whatever the callbacks' number, order
\* and timing against disputes, cancellations and restarts, completeAndCredit
\* moves the money once or not at all.
CreditedExactlyOnce ==
    \A t \in Requests :
        /\ Len(ledger[t]) = (IF tx[t].status = "COMPLETED" THEN 1 ELSE 0)
        /\ \A i \in 1..Len(ledger[t]) : ledger[t][i].amount = tx[t].amount

\* Every ledger entry names a reference the provider was paid on, opened for
\* that very row: no credit without a payment, none to another row.
CreditsArePaidFor ==
    \A t \in Requests : \A i \in 1..Len(ledger[t]) :
        LET ref == ledger[t][i].ref IN intent[ref].state = "paid" /\ intent[ref].tx = t

\* When every M-Pesa callback carries its amount, an M-Pesa credit is for the
\* amount the provider collected, even when two calls with one key and
\* different amounts raced for the row.
MpesaCreditsReconciled ==
    ShowsAmount = {TRUE} =>
        \A t \in Requests : \A i \in 1..Len(ledger[t]) :
            LET entry == ledger[t][i] IN
            intent[entry.ref].method = "MPESA" => intent[entry.ref].amount = entry.amount

\* The audit trail of a row is a path of the transition table from PENDING to
\* the row's present status; a row without events is where the payment
\* repository left it. Two operators who acted on the same stale read leave
\* one event, not two.
EventsTracePath ==
    \A t \in Requests : LET log == events[t] IN
        /\ \A i \in 1..Len(log) : RulesFor(log[i].from, log[i].to) # {}
        /\ \A i \in 1..(Len(log) - 1) : log[i].to = log[i + 1].from
        /\ IF log = <<>> THEN tx[t].status \in {"ABSENT", "PENDING", "COMPLETED", "FAILED"}
                         ELSE log[1].from = "PENDING" /\ tx[t].status = log[Len(log)].to

\* Two calls with one idempotency key never work on two rows, and a call that
\* was told of a payment was told of one that exists.
OneRowPerKey ==
    \A r, s \in Requests :
        /\ req[r].tx # None => Exists(req[r].tx)
        /\ (/\ req[r].tx # None /\ req[s].tx # None
            /\ req[r].input.key = req[s].input.key /\ req[r].input.key # None)
               => req[r].tx = req[s].tx

\* dm.payment.completed is sent at most once for a row, after its credit.
AnnouncedAtMostOnce == \A t \in Requests : published[t] <= Len(ledger[t])

\* A settled status is final: no late callback, dispute or cancellation moves a
\* row out of COMPLETED, FAILED, CANCELLED, REFUNDED or REVERSED.
Settled == {"COMPLETED", "FAILED", "CANCELLED", "REFUNDED", "REVERSED"}

SettledIsFinal ==
    [][\A t \in Requests : tx[t].status \in Settled => tx'[t].status = tx[t].status]_vars

\* Money reaches a wallet only in the step that takes a row of that buyer from
\* PENDING to COMPLETED, and then by exactly the row's amount.
WalletMovesWithCompletion ==
    [][\A u \in Users : wallet'[u] # wallet[u] =>
          \E t \in Requests :
              /\ tx[t].user = u
              /\ tx[t].status = "PENDING" /\ tx'[t].status = "COMPLETED"
              /\ wallet'[u] = wallet[u] + tx[t].amount]_vars

\* A paid reference that its row carries, and whose callback was not yet
\* answered, moves the row out of PENDING in the end: retries get through
\* restarts, races with operators and lost answers.
PaidIsSettled ==
    \A ref \in Requests :
        (/\ intent[ref].state = "paid" /\ ref \notin acked
         /\ \E t \in Requests : tx[t].ref = ref /\ intent[ref].tx = t)
            ~> (\A t \in RowsWithRef(ref) : tx[t].status # "PENDING")

-----------------------------------------------------------------------------
\* The abstract promise this module keeps: rows are payments, statuses are
\* outcomes, and everything an operator can make of a row sets it aside.
OutcomeOf(status) ==
    IF status = "ABSENT" THEN "none"
    ELSE IF status = "PENDING" THEN "open"
    ELSE IF status = "COMPLETED" THEN "credited"
    ELSE IF status = "FAILED" THEN "failed"
    ELSE "aside"

outcomeBar == [t \in Requests |-> OutcomeOf(tx[t].status)]
termsBar == [t \in Requests |-> [user |-> tx[t].user, amount |-> tx[t].amount]]

Promise == INSTANCE Settlement
    WITH Payment <- Requests, Buyer <- Users, Amount <- {in.amount : in \in Inputs},
         outcome <- outcomeBar, terms <- termsBar, balance <- wallet

\* The payment module implements Settlement: behind duplicated and reordered
\* callbacks, racing initiates, operators and restarts there is one atomic
\* credit per payment, or none.
ImplementsSettlement == Promise!Spec

-----------------------------------------------------------------------------
\* What the sources say and the code does not do; each is refuted by a run.

\* index.ts on the M-Pesa callback: "Always acknowledge the callback with 200
\* once durably handled". A successful callback answered with 200 has left no
\* PENDING row behind.
AcknowledgedIsHandled ==
    \A ref \in acked : intent[ref].state = "paid" => tx[intent[ref].tx].status # "PENDING"

\* index.ts on the dispute route: "Buyer disputes their own paid/fulfilled
\* transaction". An owner's dispute of a paid row is not turned away.
PaidCanBeDisputed ==
    \A c \in Calls :
        (call[c].to = "DISPUTED" /\ call[c].from = "COMPLETED")
            => call[c].outcome \in {"ALLOWED", "APPLIED", "CONFLICT",
                                   "FORBIDDEN_ROLE", "OWNERSHIP_REQUIRED"}
=============================================================================
