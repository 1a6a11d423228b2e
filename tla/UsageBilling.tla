---------------------------- MODULE UsageBilling ----------------------------
(***************************************************************************)
(* Usage billing of a paid session: SessionManager opens and ends it,      *)
(* ByteTrackerEngine bills each usage report against the counters kept in  *)
(* Redis. PostgreSQL holds the wallets, the earnings and the session row;  *)
(* Redis holds what a session has been billed for. No transaction spans    *)
(* the two, and every await lets another report or an end run.             *)
(*                                                                         *)
(* A report carries the device's cumulative count. Usage is counted in     *)
(* steps of Price units of money, and Cent units make one cent; wallets    *)
(* hold whole cents. Left out: the kill-switch message (best effort, read  *)
(* by the device) and the other writers of wallets and of the session's    *)
(* Redis key. An operator under the heading BROKEN is the one below it     *)
(* with a plausible fault: no action uses it, and a property that holds of *)
(* the module must fail when it is put in place.                           *)
(***************************************************************************)
EXTENDS Naturals, Sequences, FiniteSets, Functions

CONSTANTS
    Sessions,     \* calls of POST /v1/billing/sessions/start, and what they open
    Users,        \* buyers and sellers
    BuyerOf, SellerOf,
    Price,        \* units of money per step of usage
    Cent,         \* units of money in a cent
    FeePct,       \* PLATFORM_FEE_PCT, per cent
    MinBalance,   \* MIN_SESSION_BALANCE_USD, in cents
    InitBalance,  \* cents in each wallet at the start
    Reports,      \* usage reports that may be in progress at the same time
    Serves,       \* the session each of them is for
    MaxUsage,     \* bound on the steps a device uses
    FaultKinds,   \* the faults that may happen: "crash", "db", "redis", "loss"
    MaxFaults,    \* bound on their number
    Orphan,       \* the all-zero session id
    None

ASSUME UsageAssumption ==
    /\ IsFiniteSet(Sessions) /\ IsFiniteSet(Users) /\ IsFiniteSet(Reports)
    /\ BuyerOf \in [Sessions -> Users] /\ SellerOf \in [Sessions -> Users]
    /\ InitBalance \in [Users -> Nat]
    /\ Price \in Nat \ {0} /\ Cent \in Nat \ {0}
    /\ FeePct \in 0..50 /\ MinBalance \in Nat \ {0}
    /\ Serves \in [Reports -> Sessions]
    /\ MaxUsage \in Nat /\ MaxFaults \in Nat
    /\ FaultKinds \subseteq {"crash", "db", "redis", "loss"}
    /\ Orphan \notin Sessions /\ None \notin Sessions

VARIABLES
    wallet,    \* billing.wallets, in cents
    earnings,  \* billing.seller_earnings, summed by the session id they carry
    cache,     \* the Redis record of each session
    row,       \* billing.sessions
    opener,    \* each start call
    ending,    \* POST /v1/billing/sessions/end, one call at a time per session
    report,    \* the usage reports in progress
    used,      \* what each session's device has used (external)
    billed,    \* cents taken from the buyer for each session (history)
    faults     \* faults so far

vars == <<wallet, earnings, cache, row, opener, ending, report, used, billed, faults>>

-----------------------------------------------------------------------------
Counters == {"committed", "pending"}

\* The record createVpnSession writes has no price and no counters, which are
\* read as 0; the billing record takes its place under the same key.
Routed == [committed |-> 0, pending |-> 0, priced |-> FALSE]
Fresh == [committed |-> 0, pending |-> 0, priced |-> TRUE]

Waiting == [stage |-> "idle", v |-> 0, cost |-> 0, carry |-> 0,
            todo |-> <<>>, snap |-> None]

Init ==
    /\ wallet = InitBalance
    /\ earnings = [s \in Sessions \cup {Orphan} |-> [net |-> 0, fee |-> 0]]
    /\ cache = [s \in Sessions |-> None]
    /\ row = [s \in Sessions |-> [status |-> "ABSENT", bytes |-> 0, cost |-> 0]]
    /\ opener = [s \in Sessions |-> "new"]
    /\ ending = [s \in Sessions |-> "idle"]
    /\ report = [h \in Reports |-> Waiting]
    /\ used = [s \in Sessions |-> 0]
    /\ billed = [s \in Sessions |-> 0]
    /\ faults = 0

Fault(kind) ==
    /\ kind \in FaultKinds /\ faults < MaxFaults
    /\ faults' = faults + 1

-----------------------------------------------------------------------------
\* startSession: gate and routing record, row, billing record. Any failure on
\* the way leaves the parts already written: a seller without a relay is found
\* out only when the routing record is there.
OpenGate(s) ==
    /\ opener[s] = "new"
    /\ wallet[BuyerOf[s]] >= MinBalance
    /\ \/ /\ \E next \in {"row", "aborted"} : opener' = [opener EXCEPT ![s] = next]
          /\ cache' = [cache EXCEPT ![s] = Routed]
          /\ UNCHANGED faults
       \/ /\ Fault("redis")
          /\ opener' = [opener EXCEPT ![s] = "aborted"]
          /\ UNCHANGED cache
    /\ UNCHANGED <<wallet, earnings, row, ending, report, used, billed>>

OpenRow(s) ==
    /\ opener[s] = "row"
    /\ \/ /\ row' = [row EXCEPT ![s].status = "ACTIVE"]
          /\ opener' = [opener EXCEPT ![s] = "cache"]
          /\ UNCHANGED faults
       \/ /\ Fault("db")
          /\ opener' = [opener EXCEPT ![s] = "aborted"]
          /\ UNCHANGED row
    /\ UNCHANGED <<wallet, earnings, cache, ending, report, used, billed>>

\* setSession swallows a Redis error: the session then runs on the routing
\* record.
OpenCache(s) ==
    /\ opener[s] = "cache"
    /\ \/ cache' = [cache EXCEPT ![s] = Fresh] /\ UNCHANGED faults
       \/ Fault("redis") /\ UNCHANGED cache
    /\ opener' = [opener EXCEPT ![s] = "live"]
    /\ UNCHANGED <<wallet, earnings, row, ending, report, used, billed>>

\* The device of a started session uses the tunnel.
Consume(s) ==
    /\ opener[s] = "live" /\ used[s] < MaxUsage
    /\ used' = [used EXCEPT ![s] = @ + 1]
    /\ UNCHANGED <<wallet, earnings, cache, row, opener, ending, report, billed, faults>>

-----------------------------------------------------------------------------
\* processUsageUpdate.

\* settleCentCarry on what was pending and the delta since committedBytes.
Total(record, v) == record.pending + (v - record.committed) * Price
SettledCost(record, v) == Total(record, v) \div Cent

\* BROKEN: fractions of a cent are forgotten.
CarryDropped(record, v) == 0

CarryOver(record, v) == Total(record, v) % Cent

\* The writes to the Redis record that follow the money, and the single one of
\* a report worth less than a cent, which leaves committedBytes alone.
AfterMoney == <<"committed", "pending", "committed">>
BelowACent == <<"pending">>

\* Up to the first await after the Redis read. A report of nothing new, or for
\* a session without a record, changes nothing. Reports may repeat and arrive
\* in any order: v is any count the device has shown.
Arrives(h, v) ==
    LET s == Serves[h] IN
    /\ report[h].stage = "idle"
    /\ cache[s] # None /\ v <= used[s] /\ v > cache[s].committed

\* On a record without a price or a buyer the cost is not a number, the debit
\* matches no wallet, and the session is killed.
ReceiveUnpriced(h, v) ==
    /\ Arrives(h, v) /\ ~cache[Serves[h]].priced
    /\ report' = [report EXCEPT ![h].stage = "kill"]
    /\ UNCHANGED <<wallet, earnings, cache, row, opener, ending, used, billed, faults>>

Receive(h, v) ==
    LET s == Serves[h]
        cost == SettledCost(cache[s], v) IN
    /\ Arrives(h, v) /\ cache[s].priced
    /\ report' = [report EXCEPT ![h] =
          [stage |-> IF cost = 0 THEN "get" ELSE "debit",
           v |-> v, cost |-> cost, carry |-> CarryOver(cache[s], v),
           todo |-> IF cost = 0 THEN BelowACent ELSE AfterMoney,
           snap |-> None]]
    /\ UNCHANGED <<wallet, earnings, cache, row, opener, ending, used, billed, faults>>

\* computeFees: Math.round of the platform's share, the rest is the seller's.
PlatformFee(cost) == (cost * FeePct + 50) \div 100

\* BROKEN: the seller's share is rounded on its own.
SellerNetRounded(cost) == (cost * (100 - FeePct) + 50) \div 100

SellerNet(cost) == cost - PlatformFee(cost)

\* The row's id while it is ACTIVE, the all-zero id once it is not.
EarningsSession(s) == IF row[s].status = "ACTIVE" THEN s ELSE Orphan

\* BROKEN: any balance will do.
CanPaySomething(h) == wallet[BuyerOf[Serves[h]]] > 0

\* WHERE balance_usd >= $2.
CanPay(h) == wallet[BuyerOf[Serves[h]]] >= report[h].cost

\* The SQL transaction: buyer, seller and earnings together. The CHECK on
\* seller_earnings aborts it when rounding leaves the seller nothing.
Debit(h) ==
    LET s == Serves[h]
        cost == report[h].cost
        paid == [wallet EXCEPT ![BuyerOf[s]] = @ - cost] IN
    /\ report[h].stage = "debit"
    /\ CanPay(h) /\ SellerNet(cost) > 0
    /\ wallet' = [paid EXCEPT ![SellerOf[s]] = @ + SellerNet(cost)]
    /\ earnings' = [earnings EXCEPT
          ![EarningsSession(s)].net = @ + SellerNet(cost),
          ![EarningsSession(s)].fee = @ + PlatformFee(cost)]
    /\ billed' = [billed EXCEPT ![s] = @ + cost]
    /\ report' = [report EXCEPT ![h].stage = "usage"]
    /\ UNCHANGED <<cache, row, opener, ending, used, faults>>

\* BROKEN: the handler goes on as if the money had moved.
FallThrough(r) == [r EXCEPT !.stage = "usage"]

\* No money moved: the report is over, its counters stay.
Rollback(r) == Waiting

DebitAborts(h) ==
    /\ report[h].stage = "debit"
    /\ CanPay(h) /\ SellerNet(report[h].cost) = 0
    /\ report' = [report EXCEPT ![h] = Rollback(@)]
    /\ UNCHANGED <<wallet, earnings, cache, row, opener, ending, used, billed, faults>>

DebitRefused(h) ==
    /\ report[h].stage = "debit"
    /\ ~CanPay(h)
    /\ report' = [report EXCEPT ![h].stage = "kill"]
    /\ UNCHANGED <<wallet, earnings, cache, row, opener, ending, used, billed, faults>>

\* updateSessionUsage adds the CUMULATIVE count to bytes_used, and the cost,
\* while the row is ACTIVE.
RecordUsage(h) ==
    LET s == Serves[h] IN
    /\ report[h].stage = "usage"
    /\ row' = IF row[s].status # "ACTIVE" THEN row
              ELSE [row EXCEPT ![s].bytes = @ + report[h].v,
                               ![s].cost = @ + report[h].cost]
    /\ report' = [report EXCEPT ![h].stage = "get"]
    /\ UNCHANGED <<wallet, earnings, cache, opener, ending, used, billed, faults>>

\* updateCommittedBytes and updatePendingCost: read the whole record, then
\* write the whole record back with one counter changed.
AfterWrite(r) ==
    IF Len(r.todo) > 1 THEN [r EXCEPT !.stage = "get", !.todo = Tail(@), !.snap = None]
    ELSE IF r.cost > 0 THEN [r EXCEPT !.stage = "balance", !.todo = <<>>, !.snap = None]
    ELSE Waiting

CacheGet(h) ==
    LET record == cache[Serves[h]] IN
    /\ report[h].stage = "get"
    /\ report' = [report EXCEPT ![h] =
          IF record = None THEN AfterWrite(@)
          ELSE [@ EXCEPT !.stage = "set", !.snap = record]]
    /\ UNCHANGED <<wallet, earnings, cache, row, opener, ending, used, billed, faults>>

CacheSet(h) ==
    LET r == report[h] IN
    /\ r.stage = "set"
    /\ cache' = [cache EXCEPT ![Serves[h]] =
          [r.snap EXCEPT ![Head(r.todo)] =
              IF Head(r.todo) = "committed" THEN r.v ELSE r.carry]]
    /\ report' = [report EXCEPT ![h] = AfterWrite(r)]
    /\ UNCHANGED <<wallet, earnings, row, opener, ending, used, billed, faults>>

CheckBalance(h) ==
    /\ report[h].stage = "balance"
    /\ report' = [report EXCEPT ![h] =
          IF wallet[BuyerOf[Serves[h]]] = 0 THEN [@ EXCEPT !.stage = "kill"] ELSE Waiting]
    /\ UNCHANGED <<wallet, earnings, cache, row, opener, ending, used, billed, faults>>

\* BROKEN: the record is left in Redis.
KillRowOnly(h) ==
    /\ report[h].stage = "kill"
    /\ row' = [row EXCEPT ![Serves[h]].status = "KILLED"]
    /\ report' = [report EXCEPT ![h] = Waiting]
    /\ UNCHANGED <<wallet, earnings, cache, opener, ending, used, billed, faults>>

\* killInsufficientFunds: the row, whatever its status, then the record.
KillRow(h) ==
    /\ report[h].stage = "kill"
    /\ row' = [row EXCEPT ![Serves[h]].status = "KILLED"]
    /\ report' = [report EXCEPT ![h].stage = "remove"]
    /\ UNCHANGED <<wallet, earnings, cache, opener, ending, used, billed, faults>>

KillRemove(h) ==
    /\ report[h].stage = "remove"
    /\ cache' = [cache EXCEPT ![Serves[h]] = None]
    /\ report' = [report EXCEPT ![h] = Waiting]
    /\ UNCHANGED <<wallet, earnings, row, opener, ending, used, billed, faults>>

-----------------------------------------------------------------------------
\* SessionManager.endSession: nothing without a record; then record, then row.
EndRead(s) ==
    /\ ending[s] = "idle" /\ opener[s] = "live" /\ cache[s] # None
    /\ ending' = [ending EXCEPT ![s] = "remove"]
    /\ UNCHANGED <<wallet, earnings, cache, row, opener, report, used, billed, faults>>

EndRemove(s) ==
    /\ ending[s] = "remove"
    /\ \/ cache' = [cache EXCEPT ![s] = None] /\ UNCHANGED faults
       \/ Fault("redis") /\ UNCHANGED cache
    /\ ending' = [ending EXCEPT ![s] = "row"]
    /\ UNCHANGED <<wallet, earnings, row, opener, report, used, billed>>

EndRow(s) ==
    /\ ending[s] = "row"
    /\ \/ row' = [row EXCEPT ![s].status = "CLOSED"] /\ UNCHANGED faults
       \/ Fault("db") /\ UNCHANGED row
    /\ ending' = [ending EXCEPT ![s] = "idle"]
    /\ UNCHANGED <<wallet, earnings, cache, opener, report, used, billed>>

-----------------------------------------------------------------------------
\* PostgreSQL fails under a report: the transaction rolls back, or the call
\* ends where it was (a balance that cannot be read kills nobody). A COMMIT
\* whose answer is lost is Debit followed by this.
DbError(h) ==
    /\ report[h].stage \in {"debit", "usage", "balance", "kill"}
    /\ Fault("db")
    /\ report' = [report EXCEPT ![h] = Waiting]
    /\ UNCHANGED <<wallet, earnings, cache, row, opener, ending, used, billed>>

\* Redis fails under a report: the client swallows the error and goes on.
RedisError(h) ==
    /\ report[h].stage \in {"get", "set", "remove"}
    /\ Fault("redis")
    /\ report' = [report EXCEPT ![h] =
                    IF @.stage = "remove" THEN Waiting ELSE AfterWrite(@)]
    /\ UNCHANGED <<wallet, earnings, cache, row, opener, ending, used, billed>>

\* A restart of the backend drops every call in progress; a restart of Redis,
\* which keeps nothing on disk, drops every record.
Crash ==
    /\ Fault("crash")
    /\ report' = [h \in Reports |-> Waiting]
    /\ ending' = [s \in Sessions |-> "idle"]
    /\ opener' = [s \in Sessions |->
                    IF opener[s] \in {"row", "cache"} THEN "aborted" ELSE opener[s]]
    /\ UNCHANGED <<wallet, earnings, cache, row, used, billed>>

RedisLoss ==
    /\ Fault("loss")
    /\ cache' = [s \in Sessions |-> None]
    /\ UNCHANGED <<wallet, earnings, row, opener, ending, report, used, billed>>

\* The routing record has a time to live, the billing record none.
Expire(s) ==
    /\ cache[s] = Routed
    /\ cache' = [cache EXCEPT ![s] = None]
    /\ UNCHANGED <<wallet, earnings, row, opener, ending, report, used, billed, faults>>

OpenStep(s) == OpenGate(s) \/ OpenRow(s) \/ OpenCache(s)

EndStep(s) == EndRemove(s) \/ EndRow(s)

ReportStep(h) ==
    \/ Debit(h) \/ DebitAborts(h) \/ DebitRefused(h)
    \/ RecordUsage(h) \/ CacheGet(h) \/ CacheSet(h)
    \/ CheckBalance(h) \/ KillRow(h) \/ KillRemove(h)

Next ==
    \/ \E s \in Sessions : OpenStep(s) \/ Expire(s) \/ Consume(s)
                            \/ EndRead(s) \/ EndStep(s)
    \/ \E h \in Reports : \E v \in 1..MaxUsage : Receive(h, v) \/ ReceiveUnpriced(h, v)
    \/ \E h \in Reports : ReportStep(h) \/ DbError(h) \/ RedisError(h)
    \/ Crash \/ RedisLoss

Spec == Init /\ [][Next]_vars

\* A handler that waits on PostgreSQL or Redis resumes; nothing else is owed.
Fairness == \A h \in Reports : WF_vars(ReportStep(h))

FairSpec == Spec /\ Fairness
-----------------------------------------------------------------------------
\* Type invariant.
Stages == {"idle", "debit", "usage", "get", "set", "balance", "kill", "remove"}

CacheRecords == [committed : 0..MaxUsage, pending : 0..(Cent - 1),
                 priced : BOOLEAN]

ReportRecords == [stage : Stages, v : 0..MaxUsage, cost : Nat, carry : 0..(Cent - 1),
                  todo : Seq(Counters), snap : CacheRecords \cup {None}]

TypeOK ==
    /\ wallet \in [Users -> Nat]
    /\ earnings \in [Sessions \cup {Orphan} -> [net : Nat, fee : Nat]]
    /\ cache \in [Sessions -> CacheRecords \cup {None}]
    /\ row \in [Sessions -> [status : {"ABSENT", "ACTIVE", "CLOSED", "KILLED"},
                             bytes : Nat, cost : Nat]]
    /\ opener \in [Sessions -> {"new", "row", "cache", "live", "aborted"}]
    /\ ending \in [Sessions -> {"idle", "remove", "row"}]
    /\ report \in [Reports -> ReportRecords]
    /\ used \in [Sessions -> 0..MaxUsage]
    /\ billed \in [Sessions -> Nat]
    /\ faults \in 0..MaxFaults

\* Money is neither made nor lost, at every crash point and whichever reports
\* race: what left the buyers' wallets is in the sellers' wallets or in the
\* platform's fees, and every cent debited for usage is in seller_earnings,
\* under the session's id or, once the session has ended, the all-zero id.
BooksBalance ==
    /\ SumFunction(wallet) + SumFunction([s \in DOMAIN earnings |-> earnings[s].fee])
       = SumFunction(InitBalance)
    /\ SumFunction(billed)
       = SumFunction([s \in DOMAIN earnings |-> earnings[s].net + earnings[s].fee])

\* What a report has taken for a session and not yet added to its row.
Unrecorded(h, s) ==
    IF Serves[h] = s /\ report[h].stage = "usage" THEN report[h].cost ELSE 0

\* A session row never claims more cost than was debited for it: the cost of a
\* report reaches the row only after its money moved, and at most once.
RowCostIsBacked ==
    \A s \in Sessions :
        row[s].cost + SumFunction([h \in Reports |-> Unrecorded(h, s)]) <= billed[s]

Quiet(s) == \A h \in Reports : Serves[h] = s => report[h].stage = "idle"

\* Between reports the record accounts for the money to the unit: what was
\* debited and the carry-over are the price of committedBytes. A charge is
\* neither lost to rounding nor taken twice.
BilledExactly ==
    \A s \in Sessions :
        (Quiet(s) /\ cache[s] # None)
            => billed[s] * Cent + cache[s].pending = cache[s].committed * Price

\* byte-tracker.ts: "duplicate/reordered usage reports cannot double-bill the
\* buyer"; redis-cache.ts: "micro charges are never lost and never create
\* rounding errors". A buyer never pays more than the price of what was used.
NeverOverbilled == \A s \in Sessions : billed[s] * Cent <= used[s] * Price

\* A buyer who cannot pay is cut off for good: once a report has found the
\* wallet short or empty, its session's record goes away and never returns,
\* and the row is ACTIVE no longer.
BankruptIsCutOff ==
    \A h \in Reports :
        (report[h].stage = "kill") ~>
            [](cache[Serves[h]] = None /\ row[Serves[h]].status # "ACTIVE")
=============================================================================
