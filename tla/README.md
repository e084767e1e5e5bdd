# Ivy server: a TLA+ verification project

Ivy server is the backend of a fashion shop: a NestJS application over MongoDB
(mongoose), Redis (keyv), VNPAY (payments), GHN (delivery), SMTP and
socket.io. This directory models its core, checks it with TLC and proves its
safety with TLAPS. Paths below are relative to `src/src/` unless they say
otherwise.

## 1. Inventory

| Component | State | Operations that change it | Hard behaviour |
|---|---|---|---|
| `services/order.service.ts` | `Order`, `OrderTransaction`, `OrderItem` documents | `createOrder`, `processOrder`, `orderTransactionCallback`, `requestCancelOrder`, `cancelOrder` | awaits between read and write, cached reads, external calls inside transactions, mails before commit, concurrent tasks in one session |
| `services/payment.service.ts` | none | `createPaymentUrl`, `paymentCallback`, `refundTransaction` | callbacks that are late, repeated or contradict each other, an outcome taken from the query string, a request that may never be answered |
| `services/delivery.service.ts` | none | `calcFee` (asks GHN) | no timeout |
| `services/cart.service.ts` | `CartItem` | `addCartItem`, `deleteCartItem` | stock checked in a cached view |
| `services/repository.service.ts`, `cache.service.ts` | Redis keys by prefix, filter and selection | `create`, `find`, `findMultiple`, `findMultiplePaging`, `update`, `delete`, `safeDelete`, `refreshCache` | fill races invalidation; invalidation is not awaited and precedes the commit |
| `utils/schema-transaction.util.ts` | one MongoDB session per call | `withMutateTransaction` | abort, conflict, lost commit answer; no retry |
| `services/product.service.ts`, `product-option.service.ts`, `cost.service.ts` | `Product`, `Option`, `Cost` | `createProduct`, `updateProduct`, `safeDeleteProduct` | parallel writes, one of them outside the session; a stock entered while it is being sold |
| `services/category.service.ts`, `collection.service.ts`, `collection-group.service.ts` | trees of ids | creations that push an id into the parent, replacement of a group's list, deletions | a list pushed to and replaced at once; ids left behind |
| `services/auth.service.ts`, `jwt-*.service.ts`, guards, strategies | token pairs, revoked tokens, OTP transactions in Redis | sign in, refresh, sign out, forgot and reset password, lock | check-then-act over awaits, un-awaited revocation |
| `services/user.service.ts` | `User`, `AccessRecord` | create, update, `findAndUpdateUser` | one update bypasses the cache |
| `gateways/chat.gateway.ts`, `services/contact.service.ts` | `connectedClients`, socket.io rooms, `ChatRoom`, `ChatMessage` | join, send, typing, disconnect | handlers of one socket interleave at awaits; a push that nobody awaits |
| `gateways/rating.gateway.ts`, `services/rating.service.ts` | `Rating` | `onComment` | depends on a status nothing sets |
| controllers, payload models, modules, mail templates | none | routing, validation | none of their own |

How they interact. A controller calls one service method per request, so the
unit of concurrency is the call; the event loop interleaves calls at every
`await`, and several server processes would only add to the interleavings.
`OrderService` calls `DeliveryService` and `PaymentService`; VNPAY calls back
through `PaymentService.paymentCallback`. All services read through
`RepositoryService.find` (Redis first) and write MongoDB, inside
`withMutateTransaction` or without a session.

What makes each part correct:

* orders: the documents agree with each other and with what was reported: an
  order is prepared only after a reported payment was recorded, canceled only
  after a refund request, refunded only for a settled transaction; an amount is
  computed from the order it is committed to; a transaction that can be paid is
  in the database;
* checkout: the stock, the order items and the order agree with each other when
  the call succeeds, and nothing is left when it fails; the stock is what was
  last entered less what was sold since;
* prices: the totals are those of the costs the items refer to, and so is every
  amount asked or refunded, but for its own fee;
* cache: what is read was committed; staleness ends;
* products and collections: an update happens as a whole or not at all, and what
  was created is found;
* authentication: who signs in gave the current password; a used OTP does not
  serve again; a replaced token pair gets into the revocation lists;
* chat: the gateway's map and the server's rooms agree, a room is announced
  before its first message, a reply reaches somebody, pages miss nothing recent.

`PROJECT.json` lists under `hazards` where each of these can go wrong.

## 2. Modules

| Module | Models | Role |
|---|---|---|
| `OrderPayment` | the life of one order after checkout | detailed specification |
| `OrderLedger` | what that promises, seen in the database | abstract specification |
| `OrderPaymentProofs` | | inductive invariants and theorems; the refinement of `OrderLedger` |
| `MCOrderPayment` | | instances for TLC |
| `Views` | what a read of a collection shows, by cache key | shared operators |
| `ReadService` | what `RepositoryService` promises its callers | abstract specification |
| `RepositoryCache` | the read-through cache with its invalidation | detailed specification |
| `RepositoryCacheProofs` | | inductive invariants and theorems; the refinement of `ReadService` |
| `MCRepositoryCache` | | instance for TLC |
| `Checkout` | carts, concurrent `createOrder` calls and their tasks | detailed specification |
| `CheckoutProofs` | | inductive invariant and theorems |
| `MCCheckout` | | instances for TLC |
| `Pricing` | costs, totals, amounts, refunds | detailed specification |
| `PricingProofs` | | what `calculateTotalCost` computes; inductive invariant and theorems |
| `MCPricing` | | instance for TLC |
| `ProductCatalogue` | products, options, costs and the tree above them | detailed specification |
| `ProductCatalogueProofs` | | inductive invariant and theorems |
| `MCProductCatalogue` | | instance for TLC |
| `Authentication` | calls of `AuthService` on one account | detailed specification |
| `AuthenticationProofs` | | inductive invariant and theorems |
| `MCAuthentication` | | instance for TLC |
| `ChatGateway` | sockets, rooms and messages of the support chat | detailed specification |
| `ChatGatewayProofs` | | inductive invariant and theorems |
| `MCChatGateway` | | instance for TLC |
| `DataInduction` | | induction over finite data, sums, sorting and pages: lemmas of the other proofs |

`OrderPayment` implements `OrderLedger`, `RepositoryCache` implements
`ReadService`. `Authentication` uses that contract: a read through the cache
that is not forced gives any row the account has had. The other modules keep
the few cached views their calls depend on.

### OrderPayment

One step is the code between two awaits. Calls on different orders share no
state, so one order is enough. `order`, `txStatus`, `dated` are the committed
documents; `cache`, `sweep` the Redis views of the order and the deletions
`refreshCache` has started; `lock` the open transaction that has written the
order; `stale` the `processOrder` calls whose snapshot is outdated; `pc`, `row`,
`said` the local state of each call; `refund` what it has asked of VNPAY.

| Actions | Code |
|---|---|
| `Lookup`, `Query`, `Populate`, `Fill` | `RepositoryService.find`: hit, miss, populate, fill; each kind of call has its own key, because the key contains the selection |
| `ProcessStart`, `ProcessRefused`, `ProcessUpdate`, `ProcessCommit`, `ProcessFails` | `processOrder` |
| `CallbackStart`, `CallbackSettle`, `CallbackThrows`, `CallbackPrepare` | `paymentCallback`, `orderTransactionCallback` |
| `RequestStart`, `RequestRefused`, `RequestWrite` | `requestCancelOrder` |
| `CancelStart` .. `CancelFails` | `cancelOrder`, `refundTransaction`, `sendCancelOrderEmail` |
| `Sweep`, `Expire`, `TransactionTimeout`, `Crash` | Redis, MongoDB, the process |

MongoDB is modelled by what the code relies on: a transaction that writes a
document another open transaction has written, or that changed after its
snapshot, fails; a write without a session waits; the answer of a commit can be
lost after it was applied. Pending deletions of one key are merged into one:
`Expire` may remove the entry at any time, which is all a second deletion could
do. Redis is assumed to answer.

`paymentCallback` checks no signature and takes the outcome from the query string
of a `GET` that anybody can make (`payment.service.ts:57`). So a callback of the
model begins at any time, also before anybody was given a URL, and says `paid` or
`failed` as it likes; nothing here says what VNPAY knows. What the properties
promise is therefore relative to what callbacks said, and `OutcomeIsFinal` speaks
of callbacks that say the same. `cancelOrder` (`accept`) and the owner of a
request are chosen freely.

### Checkout

`createOrder` starts one task for every id of its payload; the tasks share one
session. `task` is where each is, `taken` and `made` are the decrements and
order items written in the transaction, `txn` and `outdated` its state, `placed`
the calls whose order document exists (it is created without the session).
`Take` is `updateOne` with `$inc`, `TakeConflict` MongoDB's refusal,
`SessionFails` any operation of a session that has ended, whose transaction was
aborted, or that the server does not know yet. `DeleteCartItem` is outside the
session. The guards of `createOrderItem` on the stock and on `isDeleted` never
refuse, because the populate before them does not select those fields, and the
one on a missing option never refuses, because options are only marked
`isDeleted`.
`AddLookup` .. `AddRefused` are `addCartItem`, `RemoveFromCart` is the shopper's
deletion. Of `updateProduct` a checkout can meet what writes options: `EditOption`,
`EditStock` and `EditLeavesStock` are an update in its transaction and how that
ends, `RemoveOption` the deletion outside it. The stock it enters is absolute, so
`entered` and `before` remember the last entry and what had been sold by then. A
quantity is any number, as the payload allows.

### Pricing

Whole dong for costs and fees, hundredths of a dong for amounts, so that a
percentage is exact (JavaScript's rounding is not modelled). Quantities, costs
and percentages are whole numbers of either sign. A cost document is never
changed; `updateProduct` gives the product another, whose numbers may be missing:
then the totals are not numbers and the order is refused (`PlaceRefused`). An
order is processed any number of times in any status; `Callback` and `Refund`
take any of its transactions, because the order they read may be an old one. `AddItem` is the
reducer of `calculateTotalCost`; `CreatePaymentUrl` and `RefundTransaction` are
what VNPAY is asked, in hundredths as `vnp_Amount` is.

### RepositoryCache

`log` is the history of the collection's committed states, `cache` the value
under each key, `scan` and `found` the two halves of a deletion by pattern (SCAN
collects keys, DEL removes them later). Readers look up, query and fill; a
forced read does not look up. A page asks twice (data, then count), so its
answer may join two states. Writers create, update, delete or safeDelete, in a
session (invalidation starts before the commit) or not. `create` caches the new
document under its bare id, a key no read uses. `late` records the keys that were
filled, or left, with what no deletion will find.

### Authentication

One account, calls of any kind. Commands to Redis leave over one connection in
order, so a SET or GET that nobody awaits takes effect before the commands
issued after it: in `refreshToken` the GET of the revocation precedes the SET of
the new pair. `pair` is the cached pair, named by the call that made it; `otp`
the cached reset transaction, also named by its call. `Begin` stands for the
routes and `LetThrough` for the guards before them: `isRevoked` returns a promise
and is not awaited (`jwt-access-auth.guard.ts:28`,
`jwt-refresh-auth.guard.ts:23`), so that the revocation lists are written but
refuse nobody. `AnswerPair` and `IssuePair` are the two halves of a sign-in,
between which another may issue a pair too.

### ProductCatalogue

`docs`, `gone`, `children` are the tree; `option`, `cost`, `product` what hangs
below a product; `call` the uncommitted writes of each call. `Task` is one of the
operations `updateProduct` awaits together, `RemoveOption` the `safeDelete` it
does not await and gives no session. MongoDB's conflicts are as in
`OrderPayment`; a commit that is applied may be answered (`done`) or not (`lost`,
and the call fails). `DetailQuery`, `ProductsQuery`, `FilterQuery` and
`CategoriesQuery` are what the reads of the storefront find when they miss the
cache. The cache in between, which shows what it holds for longer, is that of
`RepositoryCache`; each service sweeps its own prefix only, so that
`getCategories` may miss a new collection until its list expires.

### ChatGateway

The socket adapter is in memory, so `join`, `leave`, `emit` and `fetchSockets`
take no time and handlers give way only at `loadRoom`, `createMessage` and
`sendMail`. `rooms` is socket.io's, `connectedClients` the gateway's map;
`listed` the ids in each room document, `created` and `stored` the messages,
`pushing` the pushes nobody awaits. `OnJoinRoom` .. `Joined` is a join,
`OnSendMessage` .. `MailMessage` a message. `GetRoomMessages`, `Pages`,
`GetChatRooms`, `RoomPages` are the listings; `ByCreatedAt` is MongoDB's sort. The
payload of a join is one address, as its declared type says; nothing validates
it, and what another type does is not modelled.

## 3. Runs

Passing runs, with the bounds:

| Run | Instance | Shows |
|---|---|---|
| `order_payments` | 2 `processOrder`, 2 callbacks, 1 `cancelOrder`, 1 crash | what was reported is recorded, finally unless callbacks contradict each other; amounts are current; what a payment URL and a refund presuppose |
| `order_cancels` | 1 `processOrder`, 1 callback, 2 `cancelOrder`, 1 crash | what a cancellation presupposes |
| `order_ledger` | 1 `processOrder`, 1 callback, 1 request, 1 `cancelOrder`, 1 crash | `OrderPayment` implements `OrderLedger`; callbacks and requests are answered |
| `checkout_concurrent` | 2 `createOrder`, 2 positions, 2 items of 2 options, one quantity negative | atomicity and isolation of checkouts |
| `checkout_cart` | 1 `createOrder`, 2 positions, 2 items of one option, one added meanwhile, the option edited and removed | the stock follows what is entered and sold; the call and its tasks end, those that outlive the answer included |
| `pricing` | 3 items of 2 products, one quantity negative, a price and 2 discounts or none, 2 fees, 2 costs per product, 2 transactions, 2 refunds | totals and amounts |
| `repository_cache` | 1 document, 1 value, 1 reader that asks for ever, 2 writes, keys of `find` and `findMultiplePaging` | what was answered was committed, what is outdated has one of two causes, staleness ends; `RepositoryCache` implements `ReadService` |
| `authentication` | 3 calls of any kind, 2 passwords | sign-in, codes, revocation lists |
| `catalogue` | 2 calls of any kind, 1 document of each kind at the start | what a call leaves, whether or not its caller was told; what queries find; calls and removals end |
| `chat` | 3 joins or messages, an administrator's and a customer's socket, 2 rooms, pages of 2 messages and of 1 room | rooms, announcements, replies, pages |

The largest is `order_payments` with 5.9 million states; each takes less than
three minutes on two cores.

Why the bounds are enough: the hazards are races of two calls (a reader and a
writer, two writers, a duplicate), so two calls of the kinds that race and one
of each other kind contain them; one crash can fall between any two steps;
payloads of two positions contain the repeated item, the shared option and the
half-failed `Promise.all`; a pair refreshed, replaced and revoked, or a code
asked for, used and used again, takes three calls; three messages leave a room
with an incomplete page. `CHECK_DEADLOCK FALSE` everywhere: a finite number of
calls ends and then nothing is left to do. Symmetry is used in runs without
liveness, on calls and positions, which no action tells apart.

Violation runs (`says_*`) check one claim each, taken from an error message of the
code, that the code does not keep; `findings` in
`PROJECT.json` quotes the lines:

| Run | The code |
|---|---|
| `says_canceled_not_refunded_again` | two cancellations that read the order before either commits both refund it |
| `says_no_oversell` | the stock goes below zero |

Other disagreements met while modelling, which no run checks: the mail of a
cancellation (`order-canceled.hbs:93`) leaves before a commit that can fail
(`order.service.ts:291`); an order that was not paid cannot be canceled, because
`format` throws without a `payDate` (`payment.service.ts:79`), although
`order-canceled.hbs:95` speaks of that case; after a rejected request the order
stays `CANCELING`, although `order-cancel-request-rejected.hbs:97` says it goes
on (`order.service.ts:276`); the discount is subtracted from a total that is
already net of it, and the mail's subtotal is that net total
(`order.service.ts:142`, `:350`); a FAIL
transaction has a `payDate` and is refunded although nothing was paid
(`order.service.ts:216`); `accept = false` on an order without a request mails
that it was canceled (`order.service.ts:380`); the mail of a first successful
payment says it failed, because it is made from the order read before the update
(`order.service.ts:242`); `finalCost` joins a number and a text
(`order.service.ts:241`); the refund is of the last transaction's amount, while
the URL of an earlier one may have been paid (`order.service.ts:284`); products
and options marked `isDeleted` are ordered (`order.service.ts:313-319`);
an edit of the stock forgets what was sold since the page was read
(`product.service.ts:221`); `addCartItem` accepts an item whose option has been
sold out since its view was cached (`cart.service.ts:34`); an aborted checkout has emptied the cart, and one
whose commit fails leaves an order document without items
(`order.service.ts:98`, `:329`). In the other parts: signing in again after
signing out returns the cached pair, which is revoked (`auth.service.ts:37`), and
no guard asks the revocation lists; of two sign-ins that overlap both may issue a
pair, and a later sign-out lists only one;
two resets that overlap can use one code, and finishing a reset deletes
whatever transaction is cached, a newer one too (`auth.service.ts:139`); an
aborted `updateProduct` has removed its options (`product.service.ts:231`);
`updateCollectionGroup` drops the ids pushed since the list was read
(`collection-group.service.ts:60`); `deleteCollection` leaves its id in the group
(`collection.controller.ts:44`); `getTopProductsByCategory` counts the sales of
a product once for every path to it and lists deleted ones
(`product.service.ts:78`); an orphaned id shifts the pages of a room by one and
the rounded page count hides its oldest messages (`contact.service.ts:129`,
`:139`); a failed push hides a message for ever (`contact.service.ts:106`); a
join answered after the disconnect leaves an entry in `connectedClients`
(`chat.gateway.ts:78`).

Every property of a passing run has a mutant: a changed form of one definition,
written next to it in the module under a comment `Mutant`, for which TLC
violates the property. The mutants are plausible mistakes: a forgotten session,
swapped outcomes, `Promise.race` for `Promise.all`, a forgotten quantity.

### Fairness

The event loop resumes a call whose awaited operation has answered; MongoDB and
Redis answer or fail. Hence weak fairness of the steps of each call. GHN and
VNPAY are called without a timeout, so nothing is assumed of `ProcessStep`
(which waits for GHN) and `RefundAnswered`. MongoDB aborts a transaction at its
lifetime limit: `TransactionTimeout` is fair, and `WritersAnswered` needs it. A
cancel request is owed its refusal if the status refuses it and its write
otherwise: the model may also refuse any request (another user's), and fairness
of that would answer a request that in the code waits for the order. Nothing is
assumed of expiry, sweeps or crashes, nor that a callback ever comes.

`RepositoryCache`: readers and writers that have begun go on, and keys with a
TTL expire, which alone ends staleness: nothing is assumed of the deletions,
whose failure nobody notices. `Authentication`: every step of a call
that has begun. `ProductCatalogue`: MongoDB accepts or refuses the next
operation of every call, and an un-awaited removal takes place once nobody holds
the option; nothing is assumed of other failures. `ChatGateway` states no
liveness: a push may be lost and the mail server silent.

## 4. Proofs

`OrderPaymentProofs` proves, for any sets of calls and any number of crashes,
from `CallsAssumption` (the kinds of calls are disjoint) and
`MaxCrashesAssumption`:

* `TypeSafe`, `PayableTransactionsAreCommitted`, `CanceledOrdersAreRefunded`,
  `AmountsAreCurrent`, `PreparedOrdersAreRecorded`, `PaymentsAreRecorded`,
  `RefundsAreOfSettled`, `OutcomesAreFinal`: the properties `TypeOK`,
  `PayableIsCommitted`, `CanceledIsRefunded`, `AmountIsCurrent`,
  `PreparedIsRecorded`, `PaymentRecorded`, `RefundIsOfSettled`, `OutcomeIsFinal`
  of the runs `order_payments` and `order_cancels`;
* `Refinement`: `Spec => ImplementsLedger`.

Nothing is assumed of callbacks: any of them may say anything at any time. None of
these properties is inductive as it stands. The argument is a chain:

1. `TypeInv`: types, with the cache's rows typed as rows.
2. `LockInv`: who holds the order's lock is in the steps of a transaction.
3. `CommittedInv`: every transaction named by the order, a cached row or a
   reader's row is committed. A stale row can name an old transaction, but never
   one that does not exist.
4. `RefundInv`: a `cancelOrder` past its refund has posted one, of a transaction
   with a `payDate`; what is settled stays settled and keeps its `payDate`
   (`SettledStays`).
5. `SettlementInv`: a callback past its write has read a transaction, which is
   recorded as it said unless one that said otherwise wrote over it; the recorded
   outcome of a transaction is what some callback said that had read it. `Quiet`
   says once what every step that is not a callback's leaves alone.
6. `UnpostedInv`: one `cancelOrder` posts one refund, so that the step at which
   VNPAY receives it is the ledger's `Refund`. A callback's start is the ledger's
   `Report`; commits and settlements map to its other steps, all else to stutters.

`RepositoryCacheProofs` proves, for any documents, values, readers and writers,
from `AskedAssumption` (readers ask for keys there are) and `WriterAssumption`
(there are finitely many writers):

* `Refinement`: `Spec => ImplementsReadService`, whose safety part it is: an
  answer shows states committed since its call began (forced) or since the
  start. By `SeenInv`, what is under a key that reads use, and what a read has
  in hand, is the view of a committed state, or of two for the two halves of a
  page. That `create` caches uncommitted documents does no harm because it uses
  a key that no read looks up (`CacheKey`).
* `StalenessHasCause`: the property `StaleHasCause` of the run
  `repository_cache`, as `Spec => []P`. Its invariant `CauseInv` joins `WriteInv`
  (open transactions write different documents, and what a transaction creates
  was never there before: nothing is cached of it, `NeverCached`), `SweepInv` (a
  deletion belongs to a write that has refreshed, and finds keys once, after its
  scan) and `CausedInv`: an outdated key is in `late` or some write has it to
  drop (`PendingKey`). A write outdates its own document and the listings only
  (`ViewsChange`), which are what its patterns cover (`CoveredKeys`).
* `TypesKept`: `TypeOK`. That no more states are committed than there are writers
  is `CountInv`: each writer is in `Spent` after its one commit. `CallInv` and
  `EntryInv` say what calls, deletions and cached listings are made of; what is
  cached under the other keys is a view of a committed state by `SeenInv`.

`ChatGatewayProofs` proves, for any sets of calls, sockets and addresses, from
`ChatGatewayAssumption` (the admin room is no customer's address, `None` is
neither):

* `TypeSafe`, `RoomsAlwaysAgree`, `RoomsAreAnnouncedFirst`,
  `RepliesAlwaysReachSomebody`, `PagesAreAlwaysComplete`: the properties `TypeOK`,
  `RoomsAgree`, `RoomAnnouncedFirst`, `RepliesReachSomebody`, `PagesAreComplete`
  of the run `chat`, as `Spec => []P`.

One lemma for each handler step says what it does to its call (`JoinEnds` ..
`MessageIsMailed`); the parts of the inductive invariant `IInv` use those:

1. `TypeInv`: types; a call that has begun has a socket and an address.
2. `RoomsInv`: a customer's socket is in no room but the mapped one. It needs no
   knowledge of the calls, which is why answers may come in any order.
3. `MessageInv` and `AnnouncedInv`, together: `onSendMessage` announces a room
   only if `loadRoom` showed no message, so one must know that a listed id was
   created, by a call whose room was announced, before a room that is not empty
   can be known to be announced.
4. `RepliesReachSomebody` is inductive beside the types.
5. `PlaceInv`: there are finitely many rooms, each room lists and `created` holds
   a message once, and a room that lists one has a document. A push is pending
   only for messages that are not listed, and a call creates once.

From `PlaceInv` the listings follow without further steps of the system: `Sorted`
(the sort shows every message of a room once, in the order of creation),
`PageShows` (what `skip` and `limit` leave of it), `RoomIsShown` (the pages go
back to the remainder of the number of messages by the page size) and
`RoomsAreShown`.

`AuthenticationProofs` proves, for any sets of calls and passwords, from
`AuthenticationAssumption` (the default password is one, and `None` is neither
a call nor a role nor a row):

* `TypeSafe`, `SignInAlwaysSeesCurrent`, `CodesServeOnce`: the properties
  `TypeOK`, `SignInSeesCurrent`, `CodeServesOnce` of the run `authentication`,
  as `Spec => []P`.

Lemmas `AccountKept` .. `SignInSet` say when a step leaves a part of the
invariant alone, `SignUpStep` .. `BeginStep` what each step does to its call.
The parts of `IInv`:

1. `AccountInv`, `OwnerInv`: once there is an account there always is; codes,
   and the calls that write to it, presuppose it.
2. `TokenInv`: tokens in use were issued.
3. `CodeInv`: the cached code is never a spent one. A code is mailed by a call
   that has then ended and can never cache it again; who checks it against the
   cached one finds it unspent, and keeps what was spent when it began.
4. `SignInInv`: from the forced read on the row of a sign-in is one of the rows
   the account has had since the call began.

`CheckoutProofs` proves, for any sets of calls, positions, items and options and
any quantities, stock and entries, from `CheckoutAssumption` (the constants have their
types, quantities being integers of either sign; the set `Slot` of the positions of a payload is finite, and `None` is
neither an item nor an integer; the set of calls may be infinite):

* `CommittedAlwaysComplete`, `FailedAlwaysLeavesNothing`,
  `OrderedItemsAlwaysLeaveCart`, `StockAlwaysMatches`, `TypesKept`: the properties
  `CommittedIsComplete`, `FailedLeavesNothing`, `OrderedItemsLeaveCart`,
  `StockMatchesOrders`, `TypeOK` of the runs, as `Spec => []P`.

The parts of `IInv` relate the three automata of a checkout, which move apart
once a task has failed: `ProgressInv` the call and its tasks, `WriteInv` the
tasks and what the transaction holds, `CallInv` the call and the transaction
(one that MongoDB aborted while the call runs has a failed task, hence
Promise.all cannot succeed), `CartInv` the tasks and the cart (an item that a
task has found was added, which happens once). `StockInv` says that
finitely many calls have committed and that the stock is what was entered less the
quantities of the positions committed since the last entry, which starts the count
anew (`EditCounts`). Only a commit or an entry changes the stock, and the positions
a commit adds were not committed before, so the sum over all of them splits
(`SumUnion`).

`PricingProofs` proves, for any cart, prices, discounts and fees, from
`PricingAssumption` (the numbers are integers, of either sign, and a product can
be given at least one cost):

* `CalculatedTotals`: the reducer of `calculateTotalCost` gives the sum of
  `saleCost * quantity` after discounts, and the sum of the discounts, in whatever
  order it meets the items;
* `TypesKept`, `TotalsAlwaysMatchItems`, `PaymentsAlwaysDifferByFee`: the properties
  `TypeOK`, `TotalsMatchItems`, `PaymentsDifferByFee` of the run `pricing`, as
  `Spec => []P`.

`CostInv` (costs are only ever added; what a view or an order item refers to is
a cost of its product), `TotalInv` (once an order is placed its totals are the
two sums) and `AmountInv` (every transaction asks for the totals and its own fee
less the discount, and a refund is of one that a callback has settled) are proved together as
`PricesKept`; each is preserved given the ones before it. A cost that an item refers to stays
what it was (`ItemCostStays`), which is why `updateProduct` does not touch the
totals.

`ProductCatalogueProofs` proves, for any set of calls, from
`ProductCatalogueAssumption` (the document there is at the start is no call's,
and `None` names no document):

* `TypeSafe`, `UpdatesAreWhole`, `CreationsAreFound`: the properties `TypeOK`
  (which says that open transactions are isolated), `UpdateIsWhole`,
  `CreatedIsFound` of the run `catalogue`, as `Spec => []P`.

The inductive invariants:

1. `TypeInv`, with the `Shape` of a call (what it may have written by the time
   it is where it is), and `HeldInv`: open transactions hold disjoint documents,
   none of them changed since. `WriteIsolated` says why a write keeps that.
2. `PartsInv`, `FreshInv` and `AddedInv`: the options and costs there are, are
   those of the products; a call that has not committed has left nothing, and one
   that has, answered or not, has added all it was asked for. They change only by
   commits (`OnlyCommitsWrite`).
3. `ParentInv` and `ListedInv`: a creation pushes to a parent that is there
   unless it found it gone, and its id stays in that list but for a `PUT` of the
   list, recorded in `replaced`, or the removal of the parent (`ListsLose`).

`DataInduction` holds what these proofs need to know of finite data. The library
states induction for an operator, which the provers cannot instantiate, so here
it is stated for a set: `FiniteGrow` (a set of sets that has `{}` and with a set
that set with one more element has every finite set, from the well-foundedness of
strict inclusion) and `NatGrow`. From these: `FiniteRecursion` (there is a function
defined by recursion over the subsets of a finite set, hence the `CHOOSE` in the
folds of the community modules is that function), `SumStep` .. `SumPlus` (sums over
finite sets), `Sorting` and `ShowsAll` (a finite set can be put in order, and a
sequence as long that repeats nothing shows all of it), `SkipAndLimit` (pages of a
sequence).

Every safety property of the passing runs is proved. Only model-checked are the
liveness properties, which are out of the prover's reach
(`WritersAnswered` and its like), and that the properties of the runs `says_*` are
violated. The proofs hold for the models' steps: what MongoDB, Redis, VNPAY and
SMTP may do is part of those and is assumed, as section 2 says.

## 5. Not modelled

* Guards, strategies and decorators, but for what `LetThrough` says of a token:
  tests of one request, such as its role.
* The ranking of `getTopProductsByCategory`: one aggregation, which no other call
  disturbs. The caches between the queries of the catalogue and the storefront
  are modelled for one collection at a time (`RepositoryCache`).
* The mails about orders: nothing but their reader depends on them.
* What VNPAY knows, and whether a callback is VNPAY's: the code does not ask.
* Ratings: `addComment` requires an order that is `COMPLETED`, and nothing in
  the repository sets that status; the gateway otherwise forwards events.
* `onTyping` and `onStopTyping` forward an event; `sendEmail` sends a mail.
* Creating a category and editing names, images or a user's profile: one plain
  write of fields that no other operation reads. Access records are appended
  without waiting and read only for display.
* Controllers, payload validation, Swagger, module wiring, socket adapter, mail
  transport, request signing, encodings and search filters: no state.
* Several server processes behave like one with more calls, since shared state
  is in MongoDB and Redis; only the chat's map and rooms are per process, and
  the model is of one. The "not found" branches for orders are left out: nothing
  deletes an order.

## 6. Plan

The modules are written and their safety is proved. What could be added: an
abstract specification of a checkout that `Checkout` implements, the views of
several collections in one cache (`getCategories`), and ratings, once something in
the code completes an order.
