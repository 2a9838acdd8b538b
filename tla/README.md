# Verification of the delivery and money protocols

The repository is a delivery marketplace.  Two Go services carry its core:
**DSH** (`src/services/dsh`: orders, dispatch, delivery) and **WLT**
(`src/services/wlt`: payment intents, wallets, payouts, settlement); a third,
**identity**, owns actors and sessions.  Each has its own PostgreSQL database.
They call each other over HTTP with idempotency keys, and an outbox table with a
retrying reconciler keeps DSH and WLT consistent.  Within a service a handler is
one database transaction; between services nothing is atomic.  The applications
(`src/apps`, `src/services/*/clients`, TypeScript) keep little state of their
own, with three exceptions that are protocols: the session manager, and the two
screens that store an attempt before they send it, so that a checkout or a
completed delivery survives a lost answer.  The models here are about what all
that leaves open: interleaved transactions, calls that repeat, arrive late or
stop half-way, code that goes on after its screen is gone, and rows that must
not be forgotten.

## Inventory

| Component | State it keeps | Operations | Interacts with | What is hard, and what makes it correct |
|---|---|---|---|---|
| WLT captain wallet (`captain_wallet.go`) | COD reservations and their events, ledger | reserve, release, finalize | payment intents, earnings, payouts (same balance) | holds and balance of one captain under concurrent orders; release racing collection; a debit exactly once.  *No overdraft, collected cash covered, one charge per order* |
| WLT payment intents (`payment.go`, `payment_allocation.go`) | intent state, collector, split of balance and cash | create, collect, cancel | checkout, reconciler | cancel racing collect, replays.  *Collected only with cover* |
| WLT earnings and commissions (`partner_order_earning.go`, `partner_store_cash_commission.go`) | earning rows, ledger | finalize earning, store commission | reconciler | credit exactly once, to the right captain; rounding.  *Earner is collector, double entry* |
| WLT payouts and settlement batches (`payout_*.go`, `settlement_*.go`) | payout status, hold, batch, transfer, statement | request, prepare, approve, batch, transfer, verify, reconcile | captain, partner and customer wallets | several people on three linked state machines, batches that share rows, counts outdated by concurrent commits.  *No payout twice, hold and payout agree, only earnings leave* |
| WLT official wallet destinations (`official_wallet_destination.go`, `identity_facts.go`) | the wallet a beneficiary is paid to, with a version | create, verify, activate, mark stale | payouts pin it, every later step rereads it | goes stale between any two steps of a payout |
| WLT cash-in and customer balance (`cash_in_funding.go`, `customer_withdrawal.go`) | funding intents, customer balance | create, apply result, withdraw, compensate | provider, checkout | late and repeated provider results |
| DSH dispatch (`captain_dispatch_offers.go`, `captain.go`, `captain_assignment_mutations.go`) | offers, assignments, handoffs, outbox rows | offer, answer, expire, redispatch, reassign, hand off, pick up, complete, recover | orders, admission, WLT through service and outbox | parallel offers, expiry racing answers, suspension at any time.  *One captain per order, custody chain, every ended offer releases* |
| DSH admission (`captain_admission.go`) | eligibility, availability | availability, suspend, restore | dispatch, identity | taken and given back by offers.  *A captain is neither lost nor double-booked* |
| DSH captain service (`internal/captain/service.go`) | none | accept: reserve in WLT, respond, undo | DSH and WLT | crash or race between the calls.  *No hold without an owner* |
| DSH reconciler (`internal/financialhandoff`) | outbox row state | apply a row in WLT, mark it posted or failed | all of the above | repeated, late, reordered effects.  *Paid in DSH means settled in WLT* |
| DSH cart and checkout (`internal/cart/service.go`, `order_checkout.go`) | cart, order, the key of an attempt | resolve an earlier attempt, create the order with its payment intent, compensate | client screen, WLT intents | copies of one request at once, an intent made inside a transaction that does not commit, COMMIT with an unknown outcome.  *One order, the confirmed total, no intent without an owner* |
| Client cart and checkout screen (`features/cart-checkout`) | the stored attempt, the mounted screen, activities that outlive it | load, edit, confirm, resend, read back | checkout | kill, sign-out and reopening at any await; an answer that means nothing.  *The attempt is kept as long as it may take effect; the client gets out of an unknown result* |
| Captain deliveries screen (`features/captain-operations`) | the stored completion attempt, the listed assignment | load, pick up, complete, retry, replace | dispatch (`CompleteCaptainAssignment`) | the same, with an operator who moves the assignment on.  *No result is forgotten or decided twice* |
| Client session manager (`identity/clients/session.ts`) | tokens, state, the stored session with its pending refresh | restore, refresh, adopt, log out, on phone and browser | identity sessions | callers that overlap at every await, a lost answer of a rotation, failed writes of the key store.  *A session the app took up and nobody ended can be taken up again; a logout is final and ends* |
| Identity sessions (`internal/session/service.go`, `client_web_session.go`) | session rows, token generations, browser cookie | resolve, refresh, revoke, log out | session manager, every service | telling a repeated request from a stolen token |
| DSH order lifecycle (`order_transitions.go`) | order, inventory, promotion use, payment state | accept, reject, cancel, prepare, adjust, pick up | WLT intents, outbox | cancellation racing adjustment |
| DSH notifications (`internal/notification`) | push outbox with leases | claim, send, retry, receipt | push provider | lease expiry racing a late answer |
| Identity challenges, passkeys and actors (`internal/challenge`, `passkey`, `lifecycle`) | challenges, credentials, roles | verify, enrol, disable | every service | one row each under a lock; disabling a role across services |
| Catalog, marketing, joining cases, HR, location, media | single records under version checks | edit, review, publish | transport | no protocol between actors |
| Other client screens, packages, infra, tools | presentation and build | | | read, or send one request under a version check |

## Modules

| Module | Models | Kind |
|---|---|---|
| `CaptainWallet` | the captain side of WLT, open to arbitrary callers | component |
| `CaptainWalletProofs` | its theorems | proofs |
| `SumTheorems` | what a sum over a finite set is, whatever is summed | proofs |
| `Dispatch` | dispatch, admission, availability and the outbox rows dispatch writes | component |
| `DispatchProofs` | its theorems, with the refinement of `OrderCustody` | proofs |
| `OrderCustody` | what dispatch promises, as a specification of its own | abstract |
| `CodDelivery` | `Dispatch` and `CaptainWallet` composed by the acceptance requests and the reconciler | composition |
| `CodDeliveryProofs` | its theorems, from those of the two services | proofs |
| `PayoutSettlement` | payouts, holds, batches, transfers, statements and destinations of WLT | component |
| `PayoutPromise` | what the payout chain promises about the money, as a specification of its own | abstract |
| `PayoutSettlementProofs` | its theorems, with the refinement of `PayoutPromise` | proofs |
| `ClientSession` | the session manager of an app or a browser with the Identity rows it talks to | composition |
| `ClientSessionProofs` | its theorems | proofs |
| `CartCheckout` | the cart screen with what it leaves running, the checkout of DSH and the intent of WLT | composition |
| `CartCheckoutProofs` | its theorems | proofs |
| `CaptainDelivery` | the captain's deliveries screen with the assignment it completes | composition |
| `CaptainDeliveryProofs` | its theorems | proofs |
| `MC*` | values of the constants and symmetry for TLC | model checking |

### CaptainWallet

One action per WLT transaction.  The handlers lock the intent, then the captain
wallet, and read after they lock, so a transaction is one step.  A request that
is refused or replayed changes nothing and is a stuttering step; whether it
*answers* success matters only to callers, and `ReserveReplays` and
`TransitionReplays` say when it does.  Reservations are named by their reserve
key (unique in the schema), `event` is the table of recorded keys, `balance` and
`receivable` are the sums of the ledger entries of the two accounts.  The payout
and cash-in actions are the wallet's view of longer protocols: a payout hold is
ACTIVE from request to reconciliation whatever its approval status, and the
statuses are the subject of `PayoutSettlement`.

### Dispatch

An offer is named by its captain and its rank, and the assignment and handoff by
the offer they come from (`accepted_offer_id` is unique).  `Marked`, `Restored`,
`Enqueued` and the `Canonical...` operators are the helpers the Go transactions
share; a transaction that first expires overdue offers starts from the
`Canonical...` values, so the expiry is part of its action and is undone when it
fails, as the rollback does.  Dispatch presence (GPS), profile review, store
membership and the goods custody limit only narrow who may be offered or may
accept; the choice is left open.  `FAILED` outbox rows are retried and are
`PENDING` here.  A store captain invited without any admission row (such a
captain may accept for his store) is not modelled.

### CodDelivery

The unit of interleaving is one call.  An acceptance request moves through
*reserving, responding, rereading, releasing*, as `RespondToOffer` does; several
requests, also for one offer, run at once.  The reconciler keeps no state between
its calls, except that a release may have been applied and not yet posted.  A
fault ends a request anywhere (a crash, or a call whose answer is lost after it
took effect) or restarts the reconciler.  Idempotency keys are pairs of call
site and offer, as `DerivedIdempotencyKey` builds them.  The orders are cash
orders of platform captains (`OrdersAssumption`): only their acceptance reserves.

### PayoutSettlement

`payout[p]` joins the request and its approved snapshot, `batch[b]` a batch and
its items, `transfer[p]` is the one transfer the schema admits per payout.  Most
transactions lock what they read and are one action.  Verification and
reconciliation are not: they lock the transfer, and their last statement counts
the rows of the batch in the state committed when it starts, which under READ
COMMITTED misses what others commit before it gets the lock on the batch.  So
`CountVerified` and `CountReconciled` take the count and `writing[p]` holds what
the open transaction is about to write; `VerifyManualTransfer` and
`ReconcileManualTransfer` commit it, and `Rollback` loses it.  `Reverified` is
the comparison of pinned destination and Identity facts that every step up to
the export repeats; that a stale destination keeps its version in the model is
of no consequence because it is never active again.  The current payout
recipient of a store (checked by the export) only narrows what can be exported.
Nothing is fair: the protocol waits for people.

### ClientSession

`refresh`, `restore`, `logout` and `adopt` are the promises the manager keeps
in flight, `caller[c]` the callers inside `getUsableAccessToken`; `pc` is the
await an operation stands at, `snap` what it read from the store before that
await.  One action is the code from one await to the next, so every read that
may be outdated when it is used is outdated in the model too.  A token is the
session and the number of its rotation; `srv` is the row of
`session/service.go` with the age of each rotation in the classes the code
compares with (the 5 s race grace, the 5 min reconciliation window) and the
remaining life of each access token (inside the 60 s skew or not).  A callback
of an ended promise runs before any new call (`Settled`), as microtasks do.
With `web` the refresh token is the cookie, the store is memory, and logout is
the one that waits.  A login is three steps: Identity creates the session
(`Login`); the answer comes and the pair is written (`KeepLogin`) or the answer
is lost (`LoseLogin`); the pair is read back and shown (`AdoptPair`).  A lost
answer, a kill before it, or a key store that refuses the pair leaves a session
that lives on at Identity and that no device holds.  So two things are
histories: `owned`, the sessions the app took up (the pair written, the cookie
set) and nobody asked to end since, and `taken` (two operations of the manager
overlapped in the way of the findings below, or a login began while something
of the session before it was still under way: `adopt` waits for nothing).

### CartCheckout

The phone side is the mounted screen and two activities: `cur`, and `old`, what
a closed screen left inside an await (a load or a checkout that goes on and still
writes the secure store).  `confirmed[k]` is what the client saw when he pressed
the button, `stored` the attempt in the secure store.  `net[c]` is one copy of
a request, from leaving the phone to its answer; at the server it is
*resolved, held, paid, undo* between the calls of `Checkout` and the statements
of `CreateOrderFromCart`, because the payment intent is made by a call to WLT
inside the transaction, and a rollback releases the locks before the
compensation cancels the intent.  `CartFree` and `KeyFree` are the row lock of
the cart and the advisory lock of the key.  Rejection codes are the classes
`definitiveCheckoutRejection` tells apart, and the ones outside it that matter:
`closed` (the store), `note` (the note of the request, which `Checkout` reads
before anything else; `confirmed[k].note` says whether it passes) and `unknown`.
`wlt` is what WLT makes of a new intent: it takes it, the balance is short (a
definitive rejection), or it refuses it otherwise, which
`externalMutationOutcome` and the handler turn into codes the phone does not
take for the end of the attempt.  `overtaken` records that a copy was
refused while another one of the same attempt was still running.

### CaptainDelivery

The same shape: `op["cur"]` and `op["old"]` are mutations inside an await,
`load` the latest readback of the mounted screen (older ones are dropped by the
sequence number, quiet ones also give way to a mutation).  `stored` and
`attempt` are what `SecureStore` keeps, `done` the rows of
`captain_operation_idempotency`, `assignment` the row with its version, which
pickup, completion and an operator's recovery advance.  `crossed` records that
a screen was opened over a running mutation, or that an attempt was given up by
a readback while a copy of it was still on its way.

## Runs

| Run | Asks | Bounds, and why they are enough |
|---|---|---|
| `captain_wallet` | is money and cover accounted for under any calls? | 2 orders competing for 2 captains, 4 reservation keys (two full attempts per order), 2 payouts, one top-up size, balance up to 4: enough for a hold, a debit, a payout and a refusal to meet |
| `dispatch` | do offers, assignments, handoffs, admission and outbox agree, and is `OrderCustody` implemented? | a platform and a store order, 2 captains, 2 offers each: every captain can lose an offer and get another, be suspended and return |
| `cod_delivery` | is only the deliverer charged, has every hold an owner, does *paid* in DSH mean *settled* in WLT, do offers end and covered deliveries settle? | 1 order, 2 competing captains with one offer each, 1 request at a time, 1 fault anywhere |
| `payout_settlement` | do money, payout, batch and transfer agree, and is `PayoutPromise` implemented? | 2 payouts of one partner (no wallet lock keeps them apart), so they can pin different destination versions, share a batch or be in two; 2 batches, so they can overlap; 2 operators, the fewest the separation of duties admits; 2 destination versions |
| `client_session` | can a session the app took up and nobody ended always be taken up again, is the honest device trusted, is a browser logout final, does a logout end? | 1 session on either host, 2 callers (the fewest that overlap), 1 rotation, 2 request ids and 1 fault: one rotation is enough for a lost answer, its replay and its reuse; lost messages, a login's among them, and the passing of time are free |
| `cart_checkout` | one order, at the confirmed total, no forgotten intent, and does the client get out of an unknown result while the store is open, WLT takes the intent and the note is valid? | 2 totals, 2 attempts (the second overwrites the first), 2 copies (one running behind the other), 2 changes of cart, price, store, wallet or screen, 2 faults; the store, a short balance or a refusing WLT can change back once; the note of each attempt is valid or not |
| `captain_delivery` | is no result forgotten or decided twice, and does a stored attempt get its result? | 2 attempts, 2 copies, 2 faults, 5 versions: pickup, failure, recovery and a second completion of one assignment |
| `cod_orphan`, `dispatch_suspend`, `payout_frozen`, `session_overlap`, `completion_stuck` | claims of the documents, comments and tests the code does not keep, see below | the smallest that show it; `session_overlap` has 2 rotations and 5 ids so that two requests really go out |

The bounds in guards are `MaxOffers`, `MaxBalance`, `MaxVersion`, `MaxGen`,
`MaxReq`, `MaxAttempt`, `MaxEdits` and `MaxFaults`; `Copy`, `Caller` and
`Requests` are sets of places for what runs at once.  `Reopen = FALSE` (cart) is a
restriction, not a bound: the screen is not opened over a checkout of its own
that is still running, see Findings.  Deadlock is not checked: a behaviour ends
when its offers or attempts are used up, its orders are delivered, its keys are spent or its
payouts are paid.  Every property of a passing run is
violated by a mutant of the code's definition (the operators marked *mutant* in
the modules), so none holds by the shape of the model.

Fairness is assumed only of what the running programs do by themselves or the
property is about:

* `CodDelivery`: the reconciler's calls (a 5 s ticker, failed rows are taken up
  again 15 s later), the dispatch worker (a 30 s ticker) and the passing of time;
  nothing of captains, stores, operators or acceptance requests.
* `ClientSession`: an operation under way takes its next step, because every
  call of the client is aborted after 8 s and every outcome is handled; nothing
  of Identity, callers or users.
* `CartCheckout` and `CaptainDelivery`: awaits end (the same time limits), the
  server finishes what it began, and the person comes back to the screen and
  presses the one button it offers for an unresolved attempt.  The last is the
  point of `Resolves` and `AttemptResolvesUnlessMoved`: without it the attempt
  just stays.  Strong fairness of the captain's two buttons: they come and go
  with every readback.
* Nothing is fair in `CaptainWallet`, `Dispatch` and `PayoutSettlement`: these
  protocols wait for people.

## Findings

Shown by a run that violates the quoted claim:

* `cod_orphan`: a release that arrives before the reservation it should end finds
  nothing and is posted; the reservation made afterwards is ended by nobody when
  the request stops.
* `dispatch_suspend`: a suspension misses an offer that commits between its two
  reads.
* `payout_frozen`: verifying the first transfer of a batch before the other rows
  are recorded moves the batch to AWAITING_VERIFICATION, where no further
  transfer is accepted.  The payouts of those rows stay FROZEN with an ACTIVE
  hold; they can be neither cancelled nor batched again.
* `session_overlap`: a second caller finds the refresh request the first has
  just stored and takes it for an interrupted one; the two refreshes overwrite
  each other and a live session is lost.  Variants of the same overlap: a caller
  that waited for a restore finds a token near its end and signs out; a store read
  before an await overwrites the pending request stored meanwhile.
* `completion_stuck`: a failed delivery whose answer was lost and which an
  operator recovers leaves a stored attempt that can be neither confirmed nor
  replaced, and it blocks every later pickup and completion on that phone.

Stated in the modules, known not to hold, without a run of their own:

* `CodDelivery!AssignmentCovered`: the release of an earlier offer, still in the
  outbox, ends the reservation of a later offer of the same order to the same
  captain, because `transitionCaptainCOD` picks the hold by order, intent and
  captain.  The same happens when the reserve call replays its key and answers
  with a reservation released meanwhile: the answer is not looked at.  The
  captain then delivers uncovered cash, which WLT refuses to collect for ever.
* `Dispatch!FailedDeliveryResumable`: suspending a captain after a failed
  delivery leaves goods that can neither be recovered nor the captain readmitted.
* `PayoutSettlement!SettledBatchIsCompleted`: two reconciliations of one batch
  under way at once both count without the other's row, and the fully paid batch
  stays AWAITING_RECONCILIATION for ever.  The money is right
  (`HoldFollowsPayout`); the batch is not.
* `ClientSession!LogoutTerminal`: a native logout does not wait for a restore or
  refresh in flight (`session.ts:423`), whose answer authenticates the app again.
  Nor does the next login wait for them (`session.ts:305`): with two sessions, what
  is left of the first one may store its own pair over the new one, which is lost
  then (`Recoverable` is false in the model when such a login does not set `taken`).
  And a restore that begins while the answer of a login is awaited, such as the one of
  the captain's background location task (`captain-mission-location-background.ts:112`),
  may have read the empty store before the pair is written and signs the app out over
  the new session; it counts as an overlap (`taken`).
* `CartCheckout!Resolves` without its exception for the note: the screen sends any
  text of up to 500 characters (`cart-checkout.tsx:481`, `:655`), while the server
  refuses every control character but the line feed
  (`order_customer_note.go:18`), a pasted tab for instance.  It does so before it
  looks at the attempt, with a code (`INVALID_CUSTOMER_NOTE`) that is not in
  `definitiveCheckoutRejection`: the attempt is taken for undecided, stays stored,
  and is sent again with the same note for ever, so the client cannot order from
  that store on that phone again.  TLC finds the loop as soon as
  `~confirmed[stored].note` is taken out of the property.  Likewise for
  `wlt = "refuses"`, for as long as WLT refuses the stored request: a request WLT
  calls invalid is refused for ever too.
* `CartCheckout!IntentAccounted` with `Reopen = TRUE`: the guard of a running
  checkout belongs to one mounted screen and the attempt is stored after awaits
  (`cart-checkout.tsx:480`).  A screen opened meanwhile finds none, confirms a second
  attempt, and its token overwrites, or the first one's end deletes, the other.

Seen while reading, not modelled: availability set by the captain and taken by an
offer are one column (`captain.go:411`); two frozen batches that share a payout
can both be exported (`settlement_batches.go:39`), and the one that did not
execute the shared row stays open (`settlement_statements.go:261`); marking a
destination stale may collide with a newer candidate's version
(`identity_facts.go:155`); a payout approved for a destination that went stale
can only be cancelled (`payout_requests.go:162`); a release row that WLT refuses
is retried for ever (`financialhandoff/service.go:157`); a closed store is no
definitive rejection, so an attempt waits until it opens
(`cart-checkout.tsx:51`); a login whose answer is lost, or whose pair the key store
refuses, leaves a live session no device holds (`session.ts:313`); nothing on the server looks for intents without an
order; a device offline for more than five minutes after a lost rotation is
signed out as compromised (`session/service.go:350`).

## Proofs

`CaptainWalletProofs` proves, for any orders, captains, keys, payouts, cash and
fee amounts, that the type invariant, `CollectedCashCovered`, `ChargedOnce` and
`EarnerIsCollector` are invariant and that `CoverEndsByDebit` holds of every
step.  None but the type invariant is inductive alone: that a collected order
stays covered needs to know that the hold is the only live one of its order
(`ChargedOnce`), that no debit precedes collection, and who earned.  `IInv` is
their conjunction; `Invariance` shows that it is initial and preserved, one
step per action, and the safety theorems follow from it.  The assumptions are
those of the module: amounts are natural numbers and `None` is none of the
values it stands beside.

The three invariants about money, `NeverOverdrawn` (`WalletCovered`),
`ReceivableIsUndebitedCash` (`BooksBalance`) and `OnlyEarningsPaidOut`
(`PayoutsAreEarned`), compare sums over the tables.  `MoneyInv` adds two facts to
them.  `DebitedIsEarned`, a captain is debited for an order only after its
earning was posted, is what the receivable needs: otherwise a debit before the
earning would leave it short for ever.  `FiniteTables` says that each table has
finitely many rows in every state, so the sums are defined although nothing is
assumed of the number of orders, keys and payouts.  For each table a lemma says
that a row added, ended or changed alters the sum of one captain by one amount,
and one step per action adds these up.  The lemmas rest on `SumTheorems`: a sum
over a finite set does not depend on the order of summation, and adding an
element adds its amount.  An induction over the set is out of reach (below), so
those proofs take a smallest subset for which the claim fails, which exists
because proper inclusion is well-founded on the subsets of a finite set, and
find a smaller one.

`DispatchProofs` proves every property of the run `dispatch`, and the type
invariant, for any orders, captains, fulfillment modes and number of offers.
`IInv` adds to the checked invariants `Named` (an offer has an order, an accepted
one an assignment, and nothing is owed for an offer never made), `OneLoad` (one
assignment at work per captain) and `OneStoreOffer`.  The transactions of
dispatch expire, supersede, accept and make offers in different combinations, so
the proof first says what such a transaction leaves behind: `Moves` for the
offers, `Releases` for the outbox rows, `Pool` for availability.  The `...Kept`
lemmas derive each conjunct of `IInv` from these effects, and the `...Step` lemmas
show that each action has them.  `CustodyStep` says what a step can do to
assignments; from it follow `CustodyStays` and `CustodyChain`, where an order's
server is read from its one live assignment (`OneServes`).  The assumptions are
that every order has a mode, `MaxOffers` is a natural number, and `None` is no
order or captain.

`CodDeliveryProofs` proves the safety properties of the run `cod_delivery` for any
orders, captains, amounts, number of offers, concurrent requests and faults.  It
instantiates the proof modules of the two services, so every transaction brings
the invariant of its own service with it (`Services`), and what remains is what
runs between them.  `Base` holds of every history: a request names an offer that
was made, and past the reservation its key is used (`Requested`); a used key
tells who reserved, that every acceptance reserved before, that an undone hold
is gone and that an applied release was owed (`Recorded`); a finalize that was
carried out has debited (`Finalized`); the reconciler works on pending rows only
(`Applied`); and a settlement marked posted is complete in WLT
(`PostedIsSettled`).  The last with `SettledByDeliverer` of dispatch gives
`PaidMeansSettled`.  As long as there was no fault, `HeldFor` holds too: every
uncollected hold has a reason (`Kept`), namely its offer is open, its assignment
is at work or delivered, a release row will still be carried out (`Owes`: pending,
its key unused, not applied yet), or a request of an offer not accepted will
come to its end.  Each step that takes one reason away leaves another or ends
the hold, which is why the request may stop looking after an accepted offer and
no other one.  A collected hold is its deliverer's, by the invariants of the
wallet, which gives `HoldAccountedUnlessFault`.  The instances TLC can exhaust
have one captain with several offers or several captains with one; the theorem
has no such limit.  The assumptions are those of the module: cash orders of
platform captains, positive cash, and a `None` that is none of the values.

The same module carries over what each service promises alone.  `ServicesKept` is
the invariants of `Dispatch` and `CaptainWallet`, which in the composition also
hold while releases are posted late.  `MoneyKept` is `NeverOverdrawn` and
`ReceivableIsUndebitedCash`: every step is a step of the wallet or leaves it alone
(`WalletServed`), and the sums of the opening state are those of the opening
balances.  `CustodyKept` is the refinement of `OrderCustody`: every step moves
custody as dispatch does or leaves it alone (`CustodyServed`).

Two theorems are the part of `CoveredDeliverySettles` that needs no fairness.
`SettlementProceeds`: whenever a settlement is pending and its cover survives, WLT
accepts one of the reconciler's four calls for it (`CanSettle`), whatever was
retried, released late or cut off before.  `SettlementOnward`: no step of anybody
takes back a call that has taken effect, and each call of the reconciler for it
adds one to the four (`Done`).  They rest on `FinalizeKeys`, the finalize key of an
assignment is used only for its own order and captain, and on the fact that no
intent is cancelled here.  What remains for TLC is that the reconciler runs.

`PayoutSettlementProofs` proves every property of `payout_settlement`, for any
payouts, beneficiaries, batches, operators and versions.  `IInv` adds to the
checked invariants `RowsMoveOn` (a row enters a batch approved and never goes
back, which is why an export need not look at it), `PayoutHands`, `BatchHands`
and `TransferHands` (who acted at each stage), and `OpenWork`: the transfer an
open transaction locked is still as it found it, and a count that found every
other row completed cannot become wrong, since completed payouts stay so.  That
is why an outdated count may leave a batch open but never closes it too early
(`CompletionSafety`), and why no step rewrites a COMPLETED batch
(`CompletionStays`).  Four general lemmas (`EarlyStep`, `DraftStep`,
`TransferStep`, `OpenStep`) carry the invariant over the actions that change a
payout before its transfer, a batch before its release, a transfer, and a
transaction.  `KeepsPromise` maps each step to a step of `PayoutPromise` or a
stutter, reading the money from the stage of the payout (`MoneyFollowsStage`).
The assumptions are that every payout has a beneficiary, `MaxVersion` is a
natural number and `None` is no operator or batch.

`CartCheckoutProofs` proves, for any totals, attempts, copies, edits and faults,
`TypeCorrect`, `OrderedOnce`, `PaysConfirmed`, and, when no screen is opened over
a running checkout, `AttemptAccounted`.  The invariant has three layers, each
proved on the ones below.  `Base` adds to the types that an idle activity names
nothing, who listens to which copy, and that a listener has the key of its copy.
`Placed` adds what the screen shows, which attempts are used, and the locks: a
copy inside the transaction is the only one, its cart is open at the confirmed
version and its total is the confirmed one, and there is an order only of a
cart that is closed.  `OneOrder` and `ConfirmedTotal` follow.  `Safe` is about
the phone: an attempt that may still take effect is the stored one; who
confirms has no attempt stored; a copy that is refused leaves no intent unless
another one runs; and a load, or a checkout left behind, never forgets an
attempt that is not its own.  The last is why `Reopen = FALSE` is needed:
`deleteItemAsync` names the client and the store, not the attempt.  The actions
are first reduced to a dozen effects (an activity leaves, enters an await or
shows a view; a copy is freed, sent, or changes its state), and the invariant
is carried over the effects, not over the actions.  The invariant was checked
with TLC before it was proved.

`CaptainDeliveryProofs` proves the type invariant, `AttemptAccounted`
(`ResultAccounted`) and `DecidedOnce` (`OneDecision`) for any attempts, copies,
versions and faults.  `Base` holds of every history: a mutation names an attempt
once it is stored, listens to at most one copy and to one of its own attempt,
attempts are confirmed in order, and an executed attempt moved the assignment
past its version.  `Safe` holds until something is `crossed`: mutations run one at
a time; the one that names an attempt names the stored one, which is the last
confirmed; a new one begins with none stored and under a version that no
executed attempt ended, because the listed assignment is past every executed
attempt but the stored one (`Read`); and a readback that is to replace an
attempt found it at rest (`Seen`).  So only the stored attempt can still be
executed, which is the step that both properties turn on.  Here too lemmas say
once what each action does to each part, and one step per action carries each
layer.

`ClientSessionProofs` proves, for any number of sessions, callers, rotations and
faults, the type invariant (`SessionTypes`), `WebLogoutTerminal`
(`BrowserLogoutIsFinal`), `Recoverable` (`SessionRecoverable`) and
`HonestDeviceTrusted` (`HonestDeviceIsTrusted`).  The second needs little: once a
browser logout has ended nothing is left of a restore or a refresh (`Ended`).  The
others rest on `KeptInv`: until operations overlap, every live session that the app
took up and nobody asked to end (`Live \cap owned`) is `Kept`.  While a login awaits
its answer nothing else is held or under way and the new row is as Identity made it
(`Waiting`); what the app owns, Identity has created (`Created`), so no login can
meet a session that is owned.  From the step that writes the pair on, the session is
kept like any other; one whose answer or write is lost is never owned.  `RowGood` is about its row: a rotation names its request,
and what it gave is good until the rotation is old.  `Home` is the heart: the cookie
of a browser, or the pair a native device stores, is current or one rotation
behind together with the id of that rotation, which is why a request is stored
before it is sent.  `StateOf`, `CallerOf`, `RefreshOf` and `RestoreOf` say where each
operation stands, that a refresh holds only tokens the store has recorded, and that
what a restore read is still what is stored; so none of them can write back
something older.  `Recoverable` follows with the one limit of Identity: a lost answer
older than the reconciliation window is not given again (`Lapsed`).  A kept session
never enters the conflict branch (`NoConflict`) and a logout, a revocation or a recovery takes it out of `Held`.
`HonestDeviceTrusted` is inductive beside this: who comes with what `Home` allows is
taken for stolen only when the rotation he missed is old (`ReuseIsOld`).  The run
has one session, which is what TLC can exhaust with two callers; the invariant was
checked with two sessions and one caller before it was proved, and the theorem has
no such limit.  The assumptions are the named bounds and that `NoSession` is none of
the sessions.

The same module proves the part of `LogoutEnds` that needs no fairness.  `AllAt` says
at which steps, with which answers, the refresh, the restore and the logout can
stand; it is inductive.  From it, `LogoutProceeds`: a logout can take its next step,
or it is a browser's, which awaits the restore and the refresh under way, and one
of these can take its own.  `LogoutAdvances` counts what is left to do: every step of
a logout lowers `LogoutLeft` and no other step raises it, and while a browser waits to
log out every step of the restore or the refresh lowers `Ahead`, which nothing
raises: nothing may begin then but the refresh that a restore hands over to, which is
why `Ahead` counts a restore's turns above a refresh's.  What is missing to
`LogoutEnds` is the weak fairness of the three, and that last step is TLC's.  The
theorems state when a step can be taken by its guards (`LogoutReady`,
`RefreshReady`, `RestoreReady`); TLC compared them with `ENABLED` on the run's
constants.  They assume that a request id is left (`NewId # {}`): ids are random in
the code and numbered up to `MaxReq` in the model.

Every safety property of the passing runs is thus stated by a theorem.  What stays
with TLC is liveness: `CoveredDeliverySettles` and `OffersEnd` of `CodDelivery`,
`LogoutEnds` of `ClientSession`, `Resolves` of `CartCheckout` and
`AttemptResolvesUnlessMoved` of `CaptainDelivery`.  These rest on fairness and
`ENABLED`, which are out of the prover's reach, as is induction over data:
`SumTheorems` does without it.

## Plan

1. (done) `CaptainWallet` with proofs, `Dispatch` with proofs and its refinement of
   `OrderCustody`, `CodDelivery` with proofs.
2. (done) `PayoutSettlement` with its abstract specification and proofs.
3. (done) `ClientSession`, `CartCheckout` and `CaptainDelivery` with proofs.
4. `OrderLifecycle`: order states, inventory and promotion use, adjustments,
   cancellation; its payment rows; composed with the intents of WLT.
5. `FinancialHandoff`: the outbox as a queue with failures, head-of-line blocking
   and rows that WLT refuses for ever.
6. `PushOutbox`: leases and late answers of the push provider.
7. (done) Proofs of the sums of the wallet, by facts about sums over finite sets.

## Not modelled

Wording, HTTP, authorization of roles, formatting and pagination; GPS presence
and maps; catalog, marketing, HR, joining cases and media, which edit single
records under version checks.  Of the modelled screens: recipient, address,
promotion and option editing, and checkouts of several stores at once (cart);
attempts stored by an older version without a total or unreadable in the store;
arrival, conversation and the mission location of a delivery.  Of the other
screens of the applications, most of the TypeScript of the repository, nothing:
they read, or send one request under a version check, and have no state another
step can contradict; so the share of the TypeScript that the models cover is
small and will stay so.  Components with the status `not_modelled` in
`PROJECT.json` say why, or where in the plan they come.
