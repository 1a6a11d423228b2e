# DRAVIO in TLA+

DRAVIO sells mobile data between people: a buyer tops up a wallet through
Stripe or M-Pesa, picks a seller from the marketplace, opens a tunnel through
the seller's relay and is billed by the megabyte. The production system is one
Fastify backend (`src/backend`), PostgreSQL, Redis and, optionally, Kafka; the
trees under `src/services` are its retired predecessors
(`docs/architecture-audit.md`).

Its clients are a web application for buyers (`src/apps/buyer-web`) and a mobile
application for both sides (`src/apps/mobile-app`).

This directory holds TLA+ modules of the backend's components and of the parts
of the clients that keep state, the configurations that model-check them with
TLC, and theorems checked by TLAPS. Paths below are
relative to `src/backend/src/modules` unless they start with `src/` or `docs/`.
`PROJECT.json` maps every definition to the lines it models.

## 1. Inventory

The backend is one Node process: handlers interleave at every `await`, and
several instances may run. PostgreSQL statements and transactions are atomic,
Redis commands are atomic one by one, and nothing spans the two. A page of the
web client and the mobile application are event loops of their own: timers,
answers and touches interleave, and `localStorage` is shared by the pages of a
browser.

| Component | State | Operations | Hard behaviour | Should be true |
|---|---|---|---|---|
| Payments (`payment/`) | `payments.transactions`, `billing.wallets`, `billing.ledger_entries` | initiate, Stripe webhook, M-Pesa callback | racing calls with one key, late, repeated or reordered callbacks, restarts | one credit per paid row, none without payment; retries settle what was paid |
| Transaction lifecycle (`payment/core`, `transaction.service`) | row status, `compliance.transaction_events` | dispute, refund, cancel, reverse | two operators on one stale read; disputes racing callbacks | settled is final; the audit trail is a path of the table |
| Usage billing (`billing/core`) | wallets, `seller_earnings`, `billing.sessions`, Redis `session:<id>` | start, usage report, end, kill | racing reports, a crash between COMMIT and Redis, arithmetic below a cent | money conserved; used bytes billed once; the bankrupt are cut off |
| Session routing (`session/`) | Redis `session:<id>`, the same key as billing | create, handoff, end, `createVpnSession` | whole-record read-modify-write of four routes and billing | an ended session stays ended, a count never falls back |
| Wallet routes, consumption processor | wallets, payouts, consumer offset | withdraw, deduct, consume | repeated requests, a credit racing a deduction without a wallet, dropped and redelivered messages, rounding | what left a wallet was paid out or deducted; who is told of a deduction paid it |
| Auth: tokens | `auth.refresh_tokens` | sign in, refresh, logout, expiry, erasure | two uses of one token, a logout half-way through a refresh | one usable token per sign-in; logout is final; refreshing signs nobody out |
| Auth: accounts | `auth.users`, `auth.providers`, profiles | register, OAuth, phone | rollback that fails, racing sign-ins of one identity | one account per identity, with a profile, that does not vanish |
| Users | profiles, a cache in each process | read, update | a slow read refills the cache after an update, other processes | nothing older than a minute is served |
| Privacy requests | `privacy_requests`, what is held of a person | file, withdraw, review | the erasure runs before the compare-and-set | erased if and only if asked and completed, and what the plan leaves is known |
| Marketplace, Relay screen | Redis `seller:<id>`, geo set, the screen | heartbeat, expiry, stop sharing | three commands per heartbeat, repeated requests overtaken, Redis not ready and a 200 all the same | a stopped seller is unlisted, every listing expires |
| Metering, analytics, audit consumers | counters, metrics, audit rows, offsets | consume | at-least-once delivery, swallowed errors, first start at the end of a topic | an event takes effect once and none is skipped unnoticed |
| Web client: sign-in | token and user in `localStorage`, page state, timers | sign in and out, refresh, requests | timers, late answers, other pages | a dead sign-in does not stay on the screen |
| Web client: wallet page | request cache, questions under way, polling | deposit, poll, stop | a stale cache, a joined question, an answer for an earlier deposit | a settled deposit is told as what it is |
| Mobile client: VPN | tunnel counter, reports under way, stored session | connect, report, disconnect, recover | asynchronous counter reads, calls that outlive a session, a sign-out that takes the screen and leaves the tunnel, a second Disconnect | no charge for bytes not carried, no session left open |
| Compliance tables, provider intake, admin, fraud, ISP, one-time passwords, invoicing | versions, intake rows, rules | gates, review, dispatch, scores | see section 6 | (not modelled) |

**How they interact.** A wallet is written by payments, usage billing, the
wallet routes and the consumption processor; each statement locks its row, so
each is modelled with the others left out, and the promises are stated on what
each adds or takes. `session:<id>` is written by two modules: `SessionStore`
has both, with what a counter is worth left to `UsageBilling`. A sign-in is
`SignUp` followed by `RefreshTokens`; its end at the browser is `WebClient`.
The erasure of `PrivacyRequests` deletes the account and its tokens, which is an
action of `SignUp`, `RefreshTokens` and `ProfileCache`. A heartbeat goes from
the Relay screen to Redis within `SellerListing`; a usage report from the
tunnel's counter to the bill within `UsageReporting`, which has the phone, the
screen and the server's count.

The hazards of this code, each at its line and with the properties that cover
it, are listed under `hazards` in `PROJECT.json`.

## 2. Modules

| Module | What it is |
|---|---|
| `TransactionMachine` | the transition table of `transaction-machine.ts` and `assertTransitionAllowed`, as operators |
| `Payments` | the payment module: initiate calls, both providers' callbacks, dispute and status routes, restarts |
| `Settlement` | the abstract promise of the payment module: a payment opens once and is credited, fails or is set aside |
| `UsageBilling` | sessions and usage reports over PostgreSQL and Redis, with faults |
| `Platform` | what the modules below share: the accounts and the bound on faults |
| `SessionStore` | the Redis record of a session and everybody who writes it |
| `WalletOps` | withdrawals and their repeats, the deduction route, the consumption processor, while payments credit |
| `RefreshTokens` | the lines of refresh tokens, query by query |
| `SignUp` | registration, OAuth and phone sign-in, rollback and links |
| `ProfileCache` | the profile cache of each process |
| `PrivacyRequests` | filing, withdrawal, review and the erasure |
| `EventBus` | the metering, analytics and audit consumers |
| `SellerListing` | heartbeats, stored, failed or ignored, expiry and the Relay screen |
| `WebClient` | sign-in, timers, shared storage and requests of the web client |
| `DepositWatch` | the wallet page after a deposit, through the request cache |
| `UsageReporting` | the phone's VPN service and Marketplace screen, sign-outs and restarts, and what the server counts |
| `MCPayments`, `MCUsageBilling`, `MCServer`, `MCClients` | instances for TLC |
| `PaymentsProofs`, `UsageBillingProofs`, `SessionStoreProofs`, `WalletOpsProofs`, `PrivacyRequestsProofs` | theorems about the module each extends |
| `AuthProofs` | theorems about `RefreshTokens` and `SignUp` |
| `ServerProofs` | theorems about `EventBus`, `ProfileCache` and `UsageReporting`, and about `MCServer` |
| `ClientsProofs` | theorems about `SellerListing`, `WebClient` and `DepositWatch`, and about `MCClients` |

`MCServer` and `MCClients` extend several modules at once. Their state is the
product of their components', and a behaviour follows one component, picked at
the start (`focus`): the components have no variable in common, so their
interleavings would add states and no behaviour. `Users` and `None` mean the
same in all of them. The phone's rides are a component of `MCServer`: their
promise is about what the server counts.

**Conventions.** An action is the stretch of a handler between two `await`s, or
one SQL transaction. A stage field says where a handler is. A fault is a failed
query, a lost answer or a process that stops, which drops the handlers in
progress and keeps what is committed. Variables marked (history) record what no
code stores; properties read them and no guard does. An operator under the
heading BROKEN is the one below it with a plausible bug; no action uses it.
`PROJECT.json` names, for every property, the one that breaks it (`mutants`):
put in place of the original, the property's run fails. The promises that fail
in a known window say so with a history variable (`forked`, `crossed`,
`overtaken`, `ignored`, `astray` ...): they say exactly which overlap of steps loses, and
that nothing else does.

### Payments

| Variable | Code |
|---|---|
| `req` | a call of `POST /v1/payments/initiate`: where `initiatePayment` is |
| `tx` | `payments.transactions`, a row named after the call that inserted it |
| `wallet`, `ledger` | what payments added to `billing.wallets`; `billing.ledger_entries` |
| `events` | `compliance.transaction_events` |
| `hook` | a webhook or callback in progress |
| `acked` | references whose callback was answered with 200 |
| `published` | `dm.payment.completed` messages per row |
| `call` | a dispute or status call |
| `intent` | the provider's side (external) |
| `crashes` | restarts so far, at most `MaxCrashes` |

`Submit` … `RecordRef` are `initiatePayment`. `CallProvider` includes the
provider that opens an intent whose answer is lost. `StripeCredit`,
`StripeIgnore` are `handleVerifiedStripeEvent`; `MpesaFind` and what follows are
`handleMpesaCallback`, split at its awaits. `FeesFit` is the CHECK of
`migrations/001_hardening.sql` that makes a Stripe credit of more than the
stored amount abort. `ReadForTransition` and `ApplyTransition` are the two
halves of `transition()`. `Settle`, `Delivers` and `Redelivery` are the
providers: they deliver any settled reference late, repeatedly, in any order or
never.

### UsageBilling

Wallets are whole cents. Usage is counted in steps of `Price` units, `Cent`
units to the cent, so that prices with fractions of a cent are integers. (The
code computes in floating point and rounds the carry to a millionth of a dollar;
the model is exact.) `Receive` is everything up to the first await after the
Redis read; `Debit` is the SQL transaction; `RecordUsage`, then three
`CacheGet` / `CacheSet` pairs, then `CheckBalance`, follow it in the code's
order. The cache record has a flag `priced`: the routing record of
`createVpnSession` lives under the same key, and when `setSession` fails
(its error is swallowed) the first report finds no price and no buyer in it,
computes NaN, matches no wallet and kills the session (`ReceiveUnpriced`).
`DbError`, `RedisError`, `Crash`, `RedisLoss` are the faults, at most
`MaxFaults` of the kinds in `FaultKinds`.

### SessionStore

`rec` is `session:<id>`: who buys, who sells, running or not, a count.
`StartLink`, `WriteRoute`, `Announce` and `OpenBilled` are the two ways in:
`POST /v1/sessions`, and the billing module, which calls `createVpnSession` and
then replaces the record. An update is a read (`ReadRecord`; `upd` holds the
copy), an await (`ResolveVendor` of a handoff) and a write of the whole copy
(`WriteRecord`); an end through billing is a read and a delete. `crossed`
holds the sessions one of whose writers overlapped another.

### WalletOps

Amounts are in mills; a wallet column rounds to cents, a payout column keeps
mills. `press` is a withdrawal as the client and the server see it, sent at
most twice (the mobile client repeats a request whose answer is lost and the
route has no key). `deduct` is a call of the deduction route, statement by
statement (`DeductFirst`, `DeductLook`, `DeductCreate`), with what it was
answered and, as history, whether it took anything (`took`) and whether its user
had a wallet when it began (`had`). `CreditArrives` is a verified payment: it
adds `TopUp`, and makes the wallet when there is none, between any two of those
statements. `metering` is a message, its debit and the commit of its offset; a
debit that fails is caught, and the message is done with. `drops` counts the
debits that were not whole cents.

### RefreshTokens and SignUp

A sign-in starts a *line* of tokens. `tcall` is a refresh between its lookup,
its revocation and its insert. `SignUp` has every query of the three ways to
sign in, the INSERT that is committed and whose answer is lost among them;
`AfterFailure` is what follows a failed query: an account this call has
created is deleted again (`Rollback`), nothing else is. `early` holds accounts somebody was let
into before their creator was done, `spoiled` those a failure left half-made,
`tangled` the identities two of whose calls overlapped.

### ProfileCache, PrivacyRequests, EventBus

`ProfileCache` counts time in ticks, `Ttl` of them to the minute; a lookup that
started before an update may fill the cache after it. `PrivacyRequests` has
for each call what it read, whether the erasure or the access envelope was done,
and the compare-and-set that follows; `held` is what is kept of a person, store
by store, and `Erasable` what the erasure's transaction takes away: the person's
id in the session rows (`customer`) goes, that of the device in the same rows
(`device`) stays. `EventBus` has for each group its
topic, its committed offset and its consumer, which swallows an event it fails
on.

### SellerListing, WebClient, DepositWatch, UsageReporting

`SellerListing`: `StoreGeo`, `StoreHash`, `StoreExpiry` are the three Redis
commands of a heartbeat, `HeartbeatIgnored` is one that finds Redis not ready
(answered 200 like the others), and `screen` is the Relay screen that sends it.
`WebClient`: `kept` is `localStorage`, `page` the React state of a page, `pass`
the access tokens at the server. `DepositWatch`: `entry` is the cache, `query` a
question under way with the pages' callbacks that joined it. `UsageReporting`:
`tunnel` is the native counter, `tick` the interval's callback between the
reading and what follows, `letter` a report on its way, `server` what was
counted. `shown` is the `activeSessionId` of the screen, which a sign-out takes
with the screen (`SignOut`) while `vpn` and `tunnel` go on; `joining` and
`ending` are the calls of `handleConnect` and `handleDisconnect` in progress,
which outlive the screen, and of which the second may be begun twice for one
session (`PressDisconnect`).

## 3. Runs

Passing runs (distinct states, time with two workers):

| Run | Instance | Shows |
|---|---|---|
| `payments_race` | 2 calls with one key (amounts 1, 2; either provider), 2 callbacks at once, 1 operator call, 1 restart | types, `CreditedExactlyOnce`, `CreditsArePaidFor`, `MpesaCreditsReconciled`, `OneRowPerKey`, `AnnouncedAtMostOnce`, `WalletMovesWithCompletion` |
| `payments_operators` | 1 payment, 3 operator calls, callbacks with and without amount, 1 restart | `EventsTracePath`, `SettledIsFinal` |
| `payments_buyers` | 2 buyers, 2 calls, both providers, 1 operator call, 1 restart, under `FairSpec`; 190,271 states, 45 s | `ImplementsSettlement`, `PaidIsSettled` |
| `usage_serial` | 2 sessions of one buyer with 5 cents, one report at a time each, 2 steps of use of 1.5 cents, Redis may lose its records once, under `FairSpec`; 384,521 states, 45 s | `BilledExactly`, `BankruptIsCutOff` |
| `usage_faults` | 1 session, 2 reports at once, 3 steps of use, fee 50 %, 3 faults of all kinds; 49,932 states | types, `BooksBalance`, `RowCostIsBacked` |
| `server` | the eight components of `MCServer`, each with 2 users, 2 calls at once and 1 fault (2 and 1 also of tokens' lines, requests, addresses, amounts, processes; logs of 3 events; 2 rides, 2 presses of Disconnect, 2 reports on their way, 2 bytes a ride); 633,353 states, 2 min | types and the properties of `RefreshTokens`, `SessionStore`, `PrivacyRequests`, `WalletOps`, `SignUp`, `ProfileCache`, `EventBus` and `UsageReporting` (17) |
| `clients` | the three components of `MCClients`: 1 seller with 3 heartbeats, 2 pages with 2 tokens, 2 deposits; 2 faults, under fairness; 89,752 states, 25 s | types, `StoppedIsUnlisted`, `ListingsExpire`, and in the end `SilentSellerLeaves`, `DeadSignInEnds`, `SettledIsTold` |

Runs that end in a violation, each of something the sources say:

| Run | Property | What happens |
|---|---|---|
| `payments_ack` | `AcknowledgedIsHandled` (`payment/index.ts:72`) | the callback overtakes `updateProviderRef`, is answered 200 with UNKNOWN_REF and not retried; the paid row stays PENDING |
| `payments_dispute` | `PaidCanBeDisputed` (`payment/index.ts:147`) | a paid row is COMPLETED, which the machine does not know: every dispute and refund of it is refused with UNKNOWN_STATE |
| `usage_race` | `NeverOverbilled` (`byte-tracker.ts:13`) | two reports in progress read the same `committedBytes` and bill the same bytes |
| `usage_micro` | `NeverOverbilled` (`redis-cache.ts:35`) | a report below a cent keeps the carry but not `committedBytes`; the next one charges its bytes again. One report at a time, no faults |
| `usage_deltas` | `UsageIsReconciled` (`VpnService.ts:147`, `docs/architecture-audit.md:60`) | the phone reports what was added since its last report, the server takes it for the total so far: of two equal reports the second counts as a replay |

**Why the bounds are enough.** A race over a row needs two calls, over a status
two callbacks or a callback and an operator; three operator calls reach every
chain of the transition table that starts in PENDING and that the routes can
ask for. Two amounts are what a mismatch needs. One restart per run interrupts
any handler once; what a second would interrupt is a handler of the same shape.
In `usage_serial` the buyer's 5 cents pay for a part of what two devices use, so
that refused debits and empty wallets both occur; `usage_faults` takes fee 50 %
because with it a one-cent charge leaves the seller nothing and the CHECK of
`seller_earnings` aborts the transaction. In `server` three tokens are a line
that is refreshed twice or two lines that are refreshed and crossed; the amounts
4 and 15 mills are a rounding down and a rounding up; one user opens with a
wallet and one without, and a payment credits each once (`CreditArrives`, the
bound on credits), which is what a deduction without a wallet can race; a
withdrawal or a deduction that is answered and one that is not are two calls.
Three ticks outlive the minute of two. Two rides are what it takes to report
one's bytes for the other, to open one behind the other's back, and for the
second of two presses of Disconnect to meet the next session; a sign-out is
bounded like a fault (`MaxFaults`), though it is none. In `clients` three
heartbeats are a start, its repeat and a stop that overtakes it. What the theorems of
section 4 prove does not depend on these bounds. Deadlock is not checked: calls,
uses and faults are bounded, so every instance stops.

**Fairness.** A handler that waits on the database, Redis or a provider resumes
(weak fairness of its steps): the event loop and the clients' timeouts give
that. A provider redelivers until it is answered with 200: strong fairness of
`Redelivery`, strong because `Hooks` bounds the callbacks in progress and
another delivery may take the free slot again and again, which the server does
not do. `ShopFairness`: Redis expires a key in time, and a heartbeat that runs
goes on; no seller has to send one. `ClientFairness`: a timer that is set fires
and a token expires; nobody has to answer a request. `DepositFairness`: the
interval fires, questions are answered or fail and cache entries age; no
provider has to settle and nobody has to stop. Nothing is assumed of buyers,
devices, operators, of the end of a session, or of faults. `PaidIsSettled`
speaks of references the row still carries: one that was overwritten by a racing
call, or acknowledged before it was recorded, is what `payments_ack` is about.
The instance of `payments_buyers` gives all calls one amount, so the CHECK on
the fees never aborts a credit; with a racing call of another amount a Stripe
event for more than the stored amount is refused on every retry.

## 4. Proofs

Every theorem is about the specification without fairness, for any set of users,
calls, records or messages (`UsageBilling`'s are finite: it sums over them) and
any number of faults. It rests on the named ASSUMEs of its module only:
`PlatformAssumption` (`None` is not a user) and the like, well-typed inputs,
positive amounts. Every run on a module evaluates them.

| Module | Theorems, beside type correctness and the invariant itself |
|---|---|
| `PaymentsProofs` | `CreditOnce`, `CreditsPaid`, `OneRow`, `AnnouncedOnce`, `MpesaReconciled`, `EventsTrace`; the action properties `SettledStays`, `WalletMoves`; the refinement `Spec => Promise!Spec` |
| `UsageBillingProofs` | `MoneyIsKept`, `RowsAreBacked`; `SerialBillsExactly` and `SerialNeverOverbills` under `Calm` |
| `AuthProofs` | `OneLineHolds`, `LogoutHolds`, `SignedInHolds`; `EveryAccountHasProfileHolds`, `OneAccountPerIdentityHolds`, `OpenedStaysHolds` |
| `SessionStoreProofs` | `RecordIsKeptHolds` |
| `WalletOpsProofs` | `WalletAccountsHolds`, `DeductionsAreRealHolds` |
| `PrivacyRequestsProofs` | `CompletedDeletionErasedHolds`, `ErasedHadAskedHolds`, `TerminalIsFinalHolds` |
| `ServerProofs` | `TakesEffectOnceHolds`, `StaleForAMinuteHolds`, `OwnWriteSeenHolds`; `CountedIsUsedHolds`, `OpenRideIsCarriedHolds`; `ServerTypesHold`, `ServerIsSafe` |
| `ClientsProofs` | `StoppedIsUnlistedHolds`, `ListingsExpireHolds`, `ShownIsTimedHolds`, `ToldIsTrueHolds`; `ClientsTypesHold`, `ClientsAreSafe` |

With them every invariant and every action property of a passing run is a
theorem, `BilledExactly` under the hypothesis `Calm` that its run meets. `ShownIsTimed` and `ToldIsTrue` are checked by no run: they are the
safety that the liveness properties `DeadSignInEnds` and `SettledIsTold` count
on, stated and proved beside them.

**Payments.** `TypeOK` is not inductive: `RecordRef` needs the row it writes
to exist, and `ApplyTransition` needs the status it writes to be one the table
leads to. `Shape` adds what a stage says of its handler (`StagesOK`, `CallsOK`).
`CreditedExactlyOnce` and `CreditsArePaidFor` are not inductive over `Shape`
either: a credit could go to a row whose reference was opened for another, an
insert could hit a row that already has entries, and a callback could resume a
credit that nobody paid. `Books` adds that a call which has not inserted has no
row (`RowsNamed`) and that a reference was opened for the row that carries it
and is paid when a callback is about to credit it (`RefsOK`). Each layer has
one lemma per action. For the action properties and the refinement, `StepKinds`
sorts every step into one of five kinds - nothing, a row inserted, credited,
failed, moved by an operator - and each theorem looks at five cases instead of
at every action. Three invariants rest on these layers: `Keyed` (rows with one
key are one row, and a call has the row of its key) for `OneRowPerKey`, `Sends`
(a callback about to announce is the only one, for a row credited and not
announced) for `AnnouncedAtMostOnce`, `Compared` (a callback past the
comparison is for the row's amount) for `MpesaCreditsReconciled`;
`EventsTracePath` is inductive with them, since the compare-and-set ends every
trail in the status it starts from. The refinement maps a row to a payment,
COMPLETED to "credited", FAILED to "failed", and everything an operator can make
of a row to "aside".

**Usage billing.** Three layers.

- *Sums.* `BooksBalance` and `RowCostIsBacked` add up over wallets, earnings and
  reports with the community modules' folds. What a fold returns cannot be had
  by an induction theorem (those take an operator as a parameter); it can by a
  smallest counterexample. The fold's own CHOOSE is shown to pick a table of
  sums, one entry per subset (`SumIsTabled`), and two tables that disagree would
  disagree on a smallest subset, which its last element contradicts
  (`SumsAgree`). From there: a sum of naturals is a natural, depends on the
  function only, gains what one entry gains, and grows by a new entry's value.
- *Books.* `BillInv` is the types and what a report's stage says of what it still
  has to write (a record it has read, a counter that is left). Over it each of
  the two properties is inductive: the SQL transaction moves the same amount out
  of one wallet, into another and into the earnings, or nothing; and it is also
  what hands the row a cost, which `RecordUsage` takes once. Nothing else, and
  no fault, touches either side.
- *Exactness.* `SerialInv` says, of a session that is reported one report at a
  time, where the money of that report stands against the counters: not moved,
  moved and not accounted for, accounted for in bytes, in bytes and carry
  (`Accounted`); and that a session that has not started has cost nothing.
  It is inductive under `Calm`: `Serial` (one report of a session at a time; the
  two it takes otherwise are `usage_race`), no fault but the loss of Redis (after
  a crash or a failed query between COMMIT and the counters the next report
  charges the bytes again) and `Price >= Cent` (a step of use worth less than a
  cent takes the path of `usage_micro`, which charges it again). The loss of
  Redis needs no exception: a session without its record is billed no more. The
  hypotheses are those of the instance `usage_serial`, so some state satisfies
  them, and each of the three is needed: dropping it gives one of the recorded
  overbillings.

**The others.** None of the properties is inductive, because a handler that is
half-way knows something the state does not; each invariant says what.

- `TokenInv`: every token and call has the line of a sign-in that happened
  (`Placed`); a line that has not forked has one carrier, a token or a call
  (`UnforkedCarry`); nothing is left of a closed line (`ClosedIsEmpty`).
  `SignedInStays` needs a second layer: the account of a line that has not ended
  exists, or the next token could not be inserted (`StaysInv`).
- `EnrolInv`: an identity whose calls never overlapped has one call, which finds
  no link until it makes one (`OneAtATime`); whoever is let into an account whose
  creator is busy is early (`OpenedSound`).
- `LinkInv`: a copy in progress is the record unless the session was crossed
  (`Fresh`); a record about to be replaced holds nothing to lose (`Opening`).
- `WalletInv`: a wallet holds whole cents whenever it is debited (`Whole`), so
  one debit is off by half a cent at most; a deduction call that began with a
  wallet still has one, because nothing here removes a wallet, so that its
  second look cannot take an empty wallet for a missing one and its INSERT is
  never reached (`DeductsSound`).
- `AskInv`: a call read an open request and an erasure was done for a DELETION
  about to complete (`CallsSound`); what is held of an erased person was written
  afterwards (`ErasedStays`).
- `BusInv`: what a consumer has passed is accounted for (`Behind`), what is ahead
  had no effect unless the group has gone back (`Ahead`).
- `ShopInv`: a seller waits for one heartbeat at most and its screen says which
  (`OneAwaited`); an "offline" that was stored is still what is stored, but for
  sellers whose last stored heartbeat was an abandoned one or who were told of
  one that Redis never saw (`StoppedStays`).
- `ProfileInv`: an answer on its way was the stored profile when its lookup began
  or later (`ReadSound`), so that an entry lasts a time to live from there; one
  that is not the stored profile is at a process that missed the change or has
  yet to drop it (`EntrySound`).
- `RideInv`: a session that is open at the server and that no failure, restart,
  sign-out or older call took (`RideHeld`) is the only one the phone is at, and
  no Disconnect of another is past its end (`HeldAreCarried`); a counter, what
  the service remembers of it and every report on its way are bounded by what
  the session carried, unless it is mixed (`BytesSound`). What a session carried
  only grows, so a report may be as late as it likes.
- `ClientInv`: a request on its way is a page's and somebody's (`FetchSound`), so
  that a late answer can only revive a page, which the history marks.
- `DepositInv`: a settled status is true wherever it is kept, in the cache, in an
  answer on its way or on the page (`KeptIsTrue`), since a settled payment does
  not change; a question is joined for its own payment only.

**The whole.** `MCServer` and `MCClients` are products: every step of the
composition is, for each component, a step of its own or a stutter
(`PartsBehave`, `ClientsBehave`), so that each component's theorems hold of the
composition, all at once (`ServerIsSafe`, `ClientsAreSafe`). This is what
justifies following one component per behaviour, as far as safety goes.

**Model-checked only.** Liveness under fairness is out of the prover's reach:
`PaidIsSettled`, `BankruptIsCutOff`, `SilentSellerLeaves`, `DeadSignInEnds`,
`SettledIsTold`. The properties that the violating runs refute have no theorem as
they stand; `SerialNeverOverbills` is what remains true of one of them.
The inductive invariants of `UsageReporting`, `WebClient` and `DepositWatch` and
that of `ProfileCache` were checked with TLC on the instances of `clients` and
`server` before they were proved.

## 5. What the models say besides

Payments and billing

- `reasonRequired` of the transition table is never read: `assertTransitionAllowed`
  does not get the reason, and REASON_REQUIRED is never thrown.
- A crash between COMMIT and the Redis counters bills the same bytes on the next
  report; PostgreSQL's own books stay consistent (`usage_faults`).
- Two reports in progress can also undercharge: the carry of one overwrites the
  carry of the other.
- `updateSessionUsage` adds the device's cumulative count, not the delta, so
  `bytes_used` overstates use after the second report.
- A provider error after the row was inserted leaves a PENDING row without a
  reference, which every retry with the same key is then given.
- A withdrawal below a cent is rounded by the wallet and not by the payout.
- A deduction for a user without a wallet that loses the race for its INSERT to
  a payment or to another call is answered as deducted, and nothing was taken
  (`wallet.deduct.ts:15`). `DeductionsAreReal` says that nobody else is.
- A metering debit that fails is logged and its message committed; one whose
  consumer stops before the commit is debited twice. No document promises
  otherwise, so no property does: `WalletAccounts` says that the books follow.

Sessions and the marketplace

- The owner of a record the billing module wrote gets 403 from the session
  routes, and an administrator's end of such a record does not stop its billing.
- Handoff writes `seller_id` beside the `sellerId` billing reads.
- `createVpnSession` stores an ACTIVE record and announces the session before it
  finds that the seller has no relay, and leaves both behind.
- The search by place returns sellers that went offline; nothing ever leaves the
  geo set.
- A heartbeat that finds the Redis connection not ready is dropped and answered
  200 (`marketplace.repository.ts:59-63`, `marketplace/index.ts:16-18`): the
  screen says "Node Listed" of a node nobody finds, or "no longer listed" of one
  that stays listed until the key expires. `StoppedIsUnlisted` excepts it
  (`ignored`).

Accounts

- Neither client sends a `refresh_token`, although `auth/index.ts:208-211` says
  they do: every page is signed out when its first token ends.
- The access envelope of a person stays after a DELETION; the wallet goes with the account; completing a CORRECTION changes nothing.
- A DELETION rewrites the `customer_id` of the session rows and leaves their
  `hardware_id` (`privacy.service.ts:117-120`), although the plan's comment
  (`privacy-rights.ts:117`) and
  `docs/compliance/data-subject-rights-implementation.md:101` list both;
  `docs/security/data-lifecycle-audit.md:186` records it as a contradiction.
  `CompletedDeletionErased` says what does go, and that the device ids stay.
- Nothing moves a provider intake on after it was filed (`transition()` has no
  caller), and the SELL gate is enforced nowhere.

Clients

- The request cache outlives a sign-out; a profile answer that arrives after it
  shows the user again, on a page without a timer; a late 401 clears the token of
  a new sign-in.
- The mobile client awaits between its single-flight check of a refresh and the
  assignment (`api.ts:60-67`), so two refreshes may run.
- After a restart the screen does not show the session the phone recovered; a
  report that arrives after the end of its session is dropped.
- A sign-out, or a session that expires, takes the Marketplace screen away and
  leaves the tunnel up and the billing session open (`AuthContext.tsx:50-53`,
  `App.tsx:193-199`); after the next sign-in nothing can end it from the screen,
  and the next connect replaces its tunnel. The repository's audit
  knows of it (`docs/security/mobile-privacy-audit.md:105`, M-18).
- `handleDisconnect` (`Marketplace.tsx:119-133`) has no guard: the second of two
  presses goes on after the first and takes down a session opened in between,
  which stays open at the server. `OpenRideIsCarried` names both (`astray`) and
  says that nothing else loses a session without a failure or a restart.
- The web page stops polling a deposit after five minutes without a word; the
  late answer for an earlier deposit ends the polling of the next; the balance it
  fetches after "Wallet updated." comes through the same cache. No backend code
  emits `balance_update`.

Messages

- Nothing in the backend produces `dm.usage.ticks` or `dm.metering.update`, and
  nothing consumes `dm.admin.lockdown` or `dm.admin.command`. The admin rules are
  evaluated without an await or a catch (`admin/index.ts:157,164`).
  BALANCE_BELOW is never raised; `checkSessionExhaustion` has no caller.

## 6. Not modelled, and why

The abstractions of each module are in its header. Signatures, schemas, roles,
passwords, codes and identity are taken as checked; row locks of PostgreSQL are
not modelled, so its deadlock detection appears only as an error of the
statement. A few overlaps of two components are left out: an erasure deletes a
wallet under a deduction, which `WalletOps` does not see, and a provider link that
is committed with its answer lost is not among the faults of `SignUp`. Floating point is modelled as exact arithmetic.

- **Pure tables and predicates** (policy versions, retention, redaction, fees,
  sanctions): functions without state, which unit tests reach.
- **Adapters** (Twilio, Firebase, ISP vendors, fraud scores, the PostgreSQL and
  Redis clients): a call in, a call out.
- **Code nobody calls** (`generateInvoice`, `killSession`, the escrow functions,
  the intake's `transition()`) and messages nobody consumes (admin).
- **Legacy services** under `src/services`: deprecated and not built.
- **Screens**: most of the repository's lines are forms, lists and layout of the
  web and mobile applications. Those that keep state across an await (sign-in,
  wallet, Marketplace, Relay) are modelled in that part; the rest only show what
  a call returned. They are why the map covers a small share of all lines: a
  definition that stood for layout would say nothing.

What would add most next: the mobile wallet's counted poll beside `DepositWatch`;
an abstract ledger that `UsageBilling` and `WalletOps` both implement; what is
left of exactness when a session's reports race.
