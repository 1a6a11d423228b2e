---------------------------- MODULE DepositWatch ----------------------------
(***************************************************************************)
(* The wallet page of the web application after a deposit: it asks for the *)
(* payment's status every three seconds, through the client's cache, which *)
(* answers with what it has, fetches behind the answer once that is half a *)
(* minute old, and lets a question join one that is under way. The page    *)
(* follows one payment at a time; the callback of an earlier one may still *)
(* be waiting for its answer when the next is followed.                    *)
(*                                                                         *)
(* Left out: disputes, amounts, and the balance the page fetches after the *)
(* answer (through the same cache, so it may well show the old one).       *)
(***************************************************************************)
EXTENDS Platform

CONSTANT Deposits      \* payments the user may start

ASSUME DepositAssumption == None \notin Deposits \cup {"PENDING", "COMPLETED", "FAILED"}

VARIABLES
    pay,        \* payments.transactions: the status of each
    entry,      \* the client's cache: the status kept under each key
    query,      \* inflightRequests: the question under way for each key
    pending,    \* paymentPending of the page
    told,       \* what the page said of each payment
    dropped,    \* payments the page stopped following untold (history)
    dfaults     \* faults so far

depositVars == <<pay, entry, query, pending, told, dropped, dfaults>>

-----------------------------------------------------------------------------
Settled(status) == status \in {"COMPLETED", "FAILED"}
NoQuery == [stage |-> "idle", status |-> None, waiting |-> {}]
NoStatus == [status |-> None, stale |-> FALSE]

DepositInit ==
    /\ pay = [d \in Deposits |-> None]
    /\ entry = [d \in Deposits |-> NoStatus]
    /\ query = [d \in Deposits |-> NoQuery]
    /\ pending = None
    /\ told = [d \in Deposits |-> None]
    /\ dropped = {}
    /\ dfaults = 0

DepositFault == dfaults < MaxFaults /\ dfaults' = dfaults + 1
Following(d) == pending = d
Unfollowed(ds) == {d \in ds : told[d] = None}

\* getDedupeKey: one for each endpoint, so one for each payment.
DedupeKey(d) == d

\* BROKEN: what was fetched once is never fetched again.
NeverStale(k) == FALSE

\* Fetched more than CACHE_TTL ago.
IsStale(k) == entry[k].stale

-----------------------------------------------------------------------------
\* handleDeposit: the server stores the payment and the page follows it,
\* instead of the one it followed before.
StartDeposit(d) ==
    /\ pay[d] = None
    /\ pay' = [pay EXCEPT ![d] = "PENDING"]
    /\ pending' = d
    /\ dropped' = dropped \cup Unfollowed({pending} \ {None})
    /\ UNCHANGED <<entry, query, told, dfaults>>

\* The webhook of the provider (Payments).
SettleDeposit(d) ==
    /\ pay[d] = "PENDING"
    /\ \E status \in {"COMPLETED", "FAILED"} : pay' = [pay EXCEPT ![d] = status]
    /\ UNCHANGED <<entry, query, pending, told, dropped, dfaults>>

\* What the callbacks of the payments ds make of a status: a settled one is told
\* and ends the polling, of whichever payment the page follows by now.
Take(ds, status) ==
    IF Settled(status) /\ ds # {}
    THEN /\ told' = [d \in Deposits |-> IF d \in ds THEN status ELSE told[d]]
         /\ pending' = None
         /\ dropped' = dropped \cup Unfollowed({pending} \ ({None} \cup ds))
    ELSE UNCHANGED <<told, pending, dropped>>

\* The interval: a question under way is joined; what is kept is taken at once,
\* and asked for again when it is stale; what is not kept is waited for.
Poll(d) ==
    LET k == DedupeKey(d) IN
    /\ Following(d)
    /\ IF query[k].stage # "idle"
       THEN /\ query' = [query EXCEPT ![k].waiting = @ \cup {d}]
            /\ UNCHANGED <<told, pending, dropped>>
       ELSE IF entry[k].status = None
       THEN /\ query' = [query EXCEPT ![k] = [NoQuery EXCEPT !.stage = "sent", !.waiting = {d}]]
            /\ UNCHANGED <<told, pending, dropped>>
       ELSE /\ query' = IF IsStale(k) THEN [query EXCEPT ![k].stage = "sent"] ELSE query
            /\ Take({d}, entry[k].status)
    /\ UNCHANGED <<pay, entry, dfaults>>

\* GET /v1/payments/:id/status reads the row.
ReadStatus(d) ==
    LET k == DedupeKey(d) IN
    /\ query[k].stage = "sent"
    /\ query' = [query EXCEPT ![k].stage = "answered", ![k].status = pay[d]]
    /\ UNCHANGED <<pay, entry, pending, told, dropped, dfaults>>

\* The answer is kept and given to every callback that waits for it.
StatusArrives(k) ==
    /\ query[k].stage = "answered"
    /\ query' = [query EXCEPT ![k] = NoQuery]
    /\ entry' = [entry EXCEPT ![k] = [status |-> query[k].status, stale |-> FALSE]]
    /\ Take(query[k].waiting, query[k].status)
    /\ UNCHANGED <<pay, dfaults>>

\* The request fails: nothing is kept, and the page goes on polling.
QueryIsLost(k) ==
    /\ query[k].stage # "idle" /\ DepositFault
    /\ query' = [query EXCEPT ![k] = NoQuery]
    /\ UNCHANGED <<pay, entry, pending, told, dropped>>

\* Half a minute passes.
EntryAges(k) ==
    /\ entry[k].status # None /\ ~entry[k].stale
    /\ entry' = [entry EXCEPT ![k].stale = TRUE]
    /\ UNCHANGED <<pay, query, pending, told, dropped, dfaults>>

\* Five minutes pass, or the page is left: it stops without a word.
StopPolling ==
    /\ pending # None
    /\ pending' = None
    /\ dropped' = dropped \cup Unfollowed({pending})
    /\ UNCHANGED <<pay, entry, query, told, dfaults>>

DepositNext ==
    \/ \E d \in Deposits :
          \/ StartDeposit(d) \/ SettleDeposit(d) \/ Poll(d) \/ ReadStatus(d)
          \/ StatusArrives(d) \/ QueryIsLost(d) \/ EntryAges(d)
    \/ StopPolling

\* The interval fires, requests are answered or fail, and time passes. Nobody
\* has to stop polling, and no provider has to settle.
DepositFairness ==
    \A d \in Deposits :
        /\ WF_depositVars(Poll(d)) /\ WF_depositVars(EntryAges(d))
        /\ WF_depositVars(ReadStatus(d)) /\ WF_depositVars(StatusArrives(d))

DepositSpec == DepositInit /\ [][DepositNext]_depositVars

-----------------------------------------------------------------------------
Statuses == {"PENDING", "COMPLETED", "FAILED", None}

DepositTypeOK ==
    /\ pay \in [Deposits -> Statuses]
    /\ entry \in [Deposits -> [status : Statuses, stale : BOOLEAN]]
    /\ query \in [Deposits -> [stage : {"idle", "sent", "answered"}, status : Statuses,
                               waiting : SUBSET Deposits]]
    /\ pending \in Deposits \cup {None}
    /\ told \in [Deposits -> Statuses]
    /\ dropped \subseteq Deposits
    /\ dfaults \in Nat

\* A settled payment the page follows is told, and told as what became of it, in
\* the end: however old the cached status is, and whichever answers are joined
\* or late; unless the page stopped following it: the user left or started
\* another deposit, five minutes passed, or the late answer for an earlier
\* payment ended the polling of this one.
SettledIsTold ==
    \A d \in Deposits :
        Following(d) /\ Settled(pay[d]) ~> told[d] = pay[d] \/ d \in dropped
=============================================================================
