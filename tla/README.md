# A TLA+ model of the applications in this repository

The repository is a collection of Kubernetes exercises: manifests, charts,
notes, and a few programs that the exercises deploy. The programs with state
and concurrency of their own are

* `src/microservices-demo` (the "Online Boutique"): a cart service in C# over
  three kinds of storage, a checkout service, a catalog, a shipping service and
  a frontend in Go, a currency and a payment service in Node, and some
  stateless services around them;
* `src/retail-store-sample-app`: carts and orders in Java, a catalog in Go, and
  a checkout in TypeScript with a generated client of the orders API;
* `src/Istio-Samples/bookinfo`: a ratings service in Node, and a product page
  that ships `bootstrap.js` for its login dialog.

This directory models what a customer can lose in the first shop, the cart and
the order, with the money of an order on its way through the currency and the
payment service; the checkout of the second shop down to the list of orders;
the ratings service; and the plugins of the page that wait for transitions and
timers. TLC checks the properties on small instances; TLAPS proves every safety
property that a passing run checks, of the services and of the page, for every
value of the constants. Liveness is model-checked only.

## 1. The system

### Components, their state and how they talk

| component | code | state | operations | talks to |
|---|---|---|---|---|
| cart service | `cartservice/src` | none of its own | AddItem, GetCart, EmptyCart | one of the stores |
| Redis store | `RedisCartStore.cs` | one cached value per user: the whole cart | GetAsync, SetAsync | `IDistributedCache` (Redis, or memory) |
| Spanner store | `SpannerCartStore.cs` | a row per user and product | a retried transaction, a SELECT, a DELETE | Spanner |
| AlloyDB store | `AlloyDBCartStore.cs` | a row per user and product | SELECT then INSERT, SELECT, DELETE | PostgreSQL |
| checkout service | `checkoutservice/main.go` | only what each PlaceOrder holds | PlaceOrder | cart, catalog, currency, shipping, payment, email |
| money | `checkoutservice/money/money.go` | none | Sum, MultiplySlow, Must, IsValid | |
| currency service | `currencyservice/server.js` | the table of rates | convert | |
| payment service | `paymentservice/charge.js`, `server.js` | none; reads the clock | charge | |
| product catalog | `productcatalogservice` | the parsed catalog, the reload flag | ListProducts, GetProduct, SearchProducts | a file, signals |
| shipping, email, ad, recommendation | `*service` | none that changes | quote, ship, send, ... | |
| frontend | `frontend` | a session cookie in the browser | HTTP handlers | all of the above |
| retail checkout | `retail-store-sample-app/src/checkout` | a checkout per customer, in memory or in Redis; two lazily opened Redis clients | get, update, submit | Redis and its replica, the orders service |
| orders client, orders service | `checkout/src/clients/orders`, `orders` | orders and their lines in two tables | createOrder, listOrders | each other |
| retail carts, catalog | `retail-store-sample-app/src` | carts, the catalog's table | item operations, lists | their databases |
| ratings service | `bookinfo/src/ratings/ratings.js` | ratings in memory, two flags on a timer | POST and GET ratings, health | MySQL or MongoDB, the kubelet |
| product page | `productpage/static/bootstrap/js/bootstrap.js` | classes and attributes of the page, instances of plugins | clicks, keys, mouse, timers, transition ends | the browser |
| circuit breaker, stock API | `networking-workshop`, `Labs-and-exercises/hackathon` | a tripped flag, a cache file | | |

Every call between services is remote: it may fail, may be executed although its
answer is lost, and runs beside others: each service answers several requests at
once and may have several replicas. Nothing in the repository takes a lock across
calls. On the page everything runs in one thread, but each transition and timer
ends later, after whatever the user has done by then.

### What is hard, and what makes each component correct

* **Stores.** `AddItemAsync` of the Redis and AlloyDB stores reads and writes in
  two awaited steps; two calls of a user interleave between them (two browser
  tabs, a double click, two replicas). The Spanner store does both in a
  transaction which the client library runs again when it is aborted. *Correct*
  means: to the callers the cart is what `ICartStore` promises, a quantity per
  product that `AddItem` increases and `EmptyCart` clears; and where a store
  cannot promise that, an acknowledged add may only disappear, or a removed item
  only come back, for a reason that can be named.
* **Retail checkout.** `submit` reads the checkout, creates the order and removes
  the checkout, three awaits apart, with no transaction around them; reads go to
  the reader's endpoint, writes to the writer's; a client is kept before it is
  connected. *Correct* means: one checkout is ordered once, an acknowledged
  update is kept until it is ordered or replaced, no call acts on what was
  replaced before it began, and each exception has a cause that can be named.
  Between the checkout and the list of orders the attributes are renamed four
  times and the lines are sorted once; *correct* means that they arrive, which all
  of them do but the product's id (see section 3).
* **Ratings.** Answers may be delayed by 7 seconds, the service switches itself
  off and on, the kubelet kills what fails its probes, and SIGTERM closes the
  server under the requests in flight. *Correct* means: a GET shows what was
  posted before it, and every request ends, with its connection closed.
* **The page.** A dialog opens and closes in up to four steps that each wait for
  a transition; panels, slides, tips and tabs take one or two; the user clicks in
  between. *Correct* means: when nothing moves any more, the page is what the
  plugin's own state says, assistive technology has been told so, and a closed
  dialog has uncovered the page.
* **Currency and payment.** Units and nanos are divided apart, so fractions carry
  down and whole units carry up; month and year of today come from two Dates.
  *Correct* means: what is charged is the order's total at the exact rate, but
  for the roundings, and a card is judged by a moment of the call.
* **Money.** Units and nanos carry one sign, the nanos are an int32, and `Must`
  panics on what `Sum` rejects, in a service without a recover. *Correct* means:
  the total is exact, valid, and reached.
* **PlaceOrder.** Up to nine kinds of calls in sequence without a transaction:
  read the cart, price the lines, quote and convert the shipping, charge, ship,
  empty the cart, send a mail. The cart and the catalog change meanwhile,
  other orders of the same user run beside, the caller may go away, and every
  call may fail before or after it took effect. *Correct* means: the reply says
  what happened, what is shipped was paid, nothing leaves the cart unless it was
  ordered, and each unit is ordered once. Where the code does not guarantee
  that, the properties say exactly when it does.

## 2. The modules

| module | models | extends or instantiates |
|---|---|---|
| `CartStore` | the contract of `ICartStore`: the abstract specification | |
| `CartCalls` | gRPC calls in flight on the cart service | |
| `RedisCartStore` | `RedisCartStore.cs` | `CartCalls`; `CartStore` by refinement |
| `SpannerCartStore` | `SpannerCartStore.cs` | `CartCalls`; `CartStore` by refinement |
| `AlloyDBCartStore` | `AlloyDBCartStore.cs` | `CartCalls`; `CartStore` by refinement |
| `Money` | `money.go` | |
| `OrderTotal` | the total in `PlaceOrder` and the loop of `MultiplySlow` | `Money` |
| `Currency` | `convert` and `_carry` of `currencyservice/server.js` | `Money` |
| `Payment` | `charge` and its handler | |
| `Billing` | an order from dollar prices to the charge | `Currency`, `OrderTotal`, `Payment` |
| `Checkout` | `PlaceOrder` with the services it calls and the users' AddItems | |
| `RetailCheckout` | get, update and submit of the retail checkout | |
| `OrdersClient` | the generated client and what the orders service keeps and lists | |
| `RetailOrders` | the two together: the order of a submitted checkout, as listed | `RetailCheckout`; instance of `OrdersClient` |
| `Ratings` | `ratings.js` | |
| `Modal`, `Collapse`, `Carousel`, `Tooltip`, `Tabs`, `Dropdown` | the plugins of `bootstrap.js` | |
| `ProductPage` | the page with all its plugins | all six |
| `MCPage` | the page with one plugin at a time in use | `ProductPage` |
| `MC...` | instances of each for TLC | the module of that name, or `RetailOrders` |
| `..._proofs` | theorems and their proofs | the module of that name; `RetailCheckout_proofs` extends `RetailOrders`, `Bookinfo_proofs` extends `Ratings` and `ProductPage` |

A definition that a comment calls a *slip* is not part of the model. It is the
definition below it with a plausible mistake; `PROJECT.json` says which property
notices the mistake.

### Calls and stores

`CartCalls` has the variables all stores share: `req[c]`, the request of call
`c`, chosen in the initial state so that every choice is explored; `pc[c]`, the
point its store method has reached; and the history variable `preceded[c]`, the
calls that had returned when `c` began. Two calls *overlap* if neither had
returned when the other began. The users in `Patient` wait for each
reply; `StorageFaults` lets every access throw, before or after it took effect
(`FailedPrecondition` to the caller in either case).

A method is as many steps as it has awaits on the storage. In `RedisCartStore`
`GetAsync` stores the cached value in `seen[c]` and `SetAsync` writes
`CartWithItem(seen[c], req[c])`, or for `EmptyCart` a new cart without a user
id, as the code does. `SpannerCartStore` has `Lookup`, `Commit`, `Retry` and
`Delete`; what Spanner does is external and modelled by the rule the code relies
on: a transaction whose row was written since it was read does not commit but
runs its delegate again. It may not abort for other reasons here (a deadlock, a
lost session); those look like `Retry` without a conflict, which
changes nothing the safety properties see. `AlloyDBCartStore` has `Select` and
`Insert`, and `InsertDuplicate` for an INSERT that meets the primary key of the
documented table (`kustomize/components/alloydb/README.md`).

`merged`, `seenMerged` and `by` are history variables: which adds the stored
value contains. They are not read by any guard.

### Money and the total

`Money` is `money.go` operator by operator, with Go's truncating division and
the int32 sum of the nanos (`Int32`). `NanosMod` and `Int32Half` stand for
10^9 and 2^31. `OrderTotal` runs `Sum` once per step, so that a panic in the
middle of `MultiplySlow` is a state. `due` is the exact value of what was added,
kept in plain integers.

### PlaceOrder

In `Checkout` a unit in a cart *is* the AddItem request that put it there, so a
unit that is ordered twice, or removed without being ordered, can be told from
an equal one. `AddReads` and `AddWrites` are the two halves of the Redis store's
AddItem; with `AtomicAdd` an add is one step, as in the Spanner store. Each
action of an order is one call of `PlaceOrder` in the order of the code;
`ChargeCard` and `ShipOrder` may take effect and still report an error.
`prepOrderItems` may take its lines in any order (the code takes them as the
cart service returned them) and the price of a product may change between them
(`Reprice`). `Cancel` is a caller that gives up: calls made with `ctx` are then
not sent, the two currency conversions, made with `context.TODO()`, still are.
`charges`, `shipments` and `mails` are what the payment, shipping and email
services have done for each order; `known`, `emptied`, `swept` and `during` are
history variables.

Left out of `Checkout`: an `EmptyCart` that the user asks for (it would be a
second way for units to leave the cart, which the store modules cover), the
limits of int64, the address and the card. `Total` is the exact sum; that the
code reaches exactly this sum, or panics, is what `OrderTotal` shows.

### Currency, payment and the bill

`Convert` is `convert`: to euros, rounded to a nano, then to the other currency,
rounded down, with `Carry` for `_carry` on units and nanos apart. The program
computes with doubles between the roundings; the model takes exact fractions
over one denominator, so it shows what the algorithm does and not what the last
bit of a double does. A currency that the table lacks gives NaN, which the
response encodes as 0. `Payment` keeps the two Dates of `charge` as two steps;
`Tick` is a month that passes. `Billing` is the whole way: dollar prices,
`Convert` for each, `OrderTotal`, then `charge`.

### The retail checkout and its orders

In `RetailCheckout` a checkout *is* the update that built it: `stored`, `replica`
and `held` name that call, and `CheckoutOf` computes the object (tax, shipping,
total). Each await of `checkout.service.ts` and of the repositories separates two
steps: `ReadForGet`, `ReadForSubmit`, `Write`, `Remove`, `Reply`. The Redis
repository opens a writer and a reader client when they are first needed
(`OpenClient`, `Connected`, `ConnectFails`): whoever opens one awaits it, whoever
comes later takes it as it is, and a client that failed is kept. `lag` is what
the replica behind the reader's endpoint has yet to apply. An order is `posted`
when `createOrder` is called and `ordered` when the orders service has committed
it; the answer may be lost before either. `Restart` is the end of the process.
`preceded`, `stale` and `wiped` are history.

`OrdersClient` is `ObjectSerializer` with the attribute maps of the model classes
as records, and what the orders service keeps of the JSON and lists. `OrderEntity`
is the entity the mappers make, `Rows` what `repository.save` makes of it and
`FindAll` what is found: the list of items is mapped with `product_id` for its key
column (`OrderEntity.java:36`), which is also the column of the item's
`productId`, and Spring Data JDBC gives an inserted row the key, the index of the
line. The column is text, and the rows of an order are sorted by it. A number
stands for its text; `TextOrder` is the database's order of the texts, of which
only `TextOrderAssumption` is assumed: it is strict and total, and digits are in
the order of their values. `serialize` calls itself
for the parts of what it is given; here `SerializeOnce` is one call, and there is
one operator for each depth that the classes have (orders, an order, its items,
an item), so that it can be proved about. `RetailOrders` composes the two: the
order that a submit posted, as `listOrders` returns it.

### Ratings

`Ratings` takes `SERVICE_VERSION` and `DB_TYPE` from the initial state, so one run
explores all versions. A handler runs to its end or to its next callback in one
step; delays, connections and selects are callbacks. `Sigterm` stops listening and
`Exit` is the callback of `server.close`; between the two requests still arrive on
connections that were kept open (`Accept`). `Kill` is the kubelet's. `epoch`
counts starts, for the history variables `endedIn` and `killed`.

### The page

Each plugin keeps its state in a record: the instance's fields and the classes
and attributes it sets. An operator per function maps that record to what
the function makes of it, so that `Show` calling `Backdrop` calling `Await` reads as
in the code; handlers that wait for a transition are a sequence in the record.
Without CSS transitions (`fade`, `transition`, ... false) they run at once.
`emulateTransitionEnd` makes a transition end although the browser's event does
not come; in `Modal` its timers are counted in ticks, since there a timer
started earlier decides which callback runs first. What a transition's end
runs is a fold: over the handlers in the order they were bound (`RunDue` over
`Queue` in `Modal`, `EndsAt` in `Collapse`, `NextPane` in `Tabs`).

`ProductPage` is the page: handlers run one at a time, so its step is a step of
one plugin and leaves the others alone. `MCPage` restricts it for TLC: one plugin
at a time is in use, as they share no state but the browser, and the product of
their states would only be larger. The theorems are about the whole page.

Only the dialog is live in the shipped template, with one opener
(`productpage.html:42`); the navigation bar with its panel and menu is in a
comment there (lines 48 to 71). The other plugins are modelled as the page ships
them, for a page that uses them. The template loads `bootstrap.min.js`; the model
reads `bootstrap.js`, the same library unminified.

## 3. What TLC checks

| run | instance | shows |
|---|---|---|
| `redis` | 2 users, the first of whom waits for replies, 1 product, quantities 1 and 2, 4 calls, faults | for the user who waits the store implements `CartStore` (`Serialized`); for the other, quantities are sums of merged requests, and updates are lost, and emptied items come back, only to overlapping calls |
| `redis_owner` | 1 user, 3 calls, one at a time | *violation:* a cart that has items after an EmptyCart has no user id |
| `spanner` | 1 user, 2 products, quantities 1 and 2, 3 overlapping calls, faults | the Spanner store implements `CartStore` (`Atomic`), and every call returns |
| `alloydb` | as `redis` | the AlloyDB store implements `CartStore` for the user who waits; for the other, adds are not overwritten and inflated rows need an overlapping EmptyCart |
| `alloydb_second_add` | 1 user, 1 product, 3 calls, no faults | *violation:* a second AddItem of a product fails |
| `order_total` | dollar amounts of 0 to 2 units, up to 2 lines, quantities up to 3, four currencies, cards and moments around a new year | totals are exact and at the exact rate but for the roundings; from one unit up they are valid and computed without a panic; cards are judged by their expiry |
| `sub_unit_prices` | amounts below 2 units | *violation:* `MultiplySlow` does not multiply an amount below one unit |
| `checkout_atomic` | 1 user, 2 orders, 2 adds of 2 products, 2 prices | replies, charges, shipments and the cart agree; every order returns |
| `checkout_redis` | 1 user, 2 orders, 3 two-step adds | a unit is ordered again only if an add was half done when the cart was emptied |
| `retail_checkout` | 1 customer, 3 requests, 3 bodies, every environment, 1 restart | second orders, lost updates and outdated reads need a cause that is named; an order keeps its lines but for the product ids; every request ends, unless a Redis client is broken |
| `ratings` | 3 requests, 1 product, every version, 1 restart, 1 toggle | a GET shows the POSTs before it; every request ends, with its connection closed |
| `page` | each of the six plugins | at rest the page is as the plugin's state says; a closed dialog uncovers the page |

**Bounds of the services.** Calls, adds and orders are each made at most once,
which bounds every run. Calls of different users touch different keys, so one
user suffices for interleavings; two are there where a mix-up of users, or of
one who waits with one who does not, could show. Every excuse in the properties
names one other call, and a violation needs at most one more to expose it: three
calls (add, empty, add; update, submit, submit) reach each case, four leave room.
Two orders are the least that can order a unit twice; a third add lets one be
half done, one be merged and one be late. For money, 10 nanos to the unit keep
what matters: a carry from 9+1, none from 4+5, the int32 limit at just over two
units of nanos, which is where it is in the program (2^31 against 10^9). The
rates have a currency with a small unit, one with a large one and one that the
service does not know (UAH). `MaxTicks` is 1: a year begins once. `MaxRestarts`
and `MaxToggles` are 1: a second restart meets a process that has forgotten the
first. One checkout has eleven lines, the least of which one is listed out of
order (the text 10 is between 1 and 2), and one has two.

**Bounds of the page.** `MaxShows` 3 opens the dialog again after it was closed,
twice, while transitions last; after one opening that came too early (`rushed`)
none follows. `PanelCount`, `Items`, `TabIds` and `MenuIds` are 3: the one that goes,
the one that comes and the one asked for meanwhile. `MaxItems` 3 gives the arrow
keys a first, a middle and a last item. `MaxWaiting`, `MaxPending`, `MaxFades` and
`MaxJumps` bound how many handlers the user can pile up before a transition ends.

**Restrictions.** Symmetry is used on calls in runs without liveness. Where calls
are numbers instead, `Sorted` keeps one of the ways to hand the same requests to
them. `Environments` checks the mock orders service without a replica.
`MCBilling!Tried` varies card and moment on the shortest orders only, as the total
does not depend on them. `MCPage!Init` lets at most one of the dialog's options
differ from the page's.

CHECK_DEADLOCK is off: after its calls are made, each service rests, and so does
a page nobody touches.

**Fairness.** Always about what the program or its libraries do by themselves,
never about users, about calls that have not begun, or about which outcome a
call has:

* `SpannerCartStore!FairSpec`, `Checkout!FairSpec`: each step of each started call;
  gRPC and the storage clients complete an awaited call with a result or an
  error. `EveryCallReturns` is then about the retry loop: a transaction is
  aborted only when another one has committed.
* `RetailCheckout!Fairness`: the event loop serves each call, `connect()` resolves or
  rejects, and an exchange with the orders service ends, by its answer or with
  its connection. A command on a broken client may hang, which the property says.
* `Ratings!Fairness`: callbacks run, timers fire, the database answers, and the
  callback of `server.close` runs once no connection is left.
* `ModalFairness`: timers advance and transitions end.

**What fails** (three findings in `PROJECT.json`):

1. `RedisCartStore.EmptyCartAsync` stores a cart without a user id, and
   `AddItemAsync` sets one only on a cart it does not find: after an EmptyCart
   the id never comes back. A test and a comment say otherwise.
2. `AlloyDBCartStore.AddItemAsync` INSERTs the total where it ought to update:
   on the documented table a second add of a product always fails.
3. `money.Sum` of two amounts with 0 units and positive nanos yields 1 unit and
   negative nanos (or a carry that happens to be right), which the next `Sum`
   rejects and `Must` turns into a panic. No shipped price is below one unit in
   any currency, so the shop as shipped does not reach this.

**What holds only with an excuse.** No document contradicts the following, and the
properties, or a comment in the module, say exactly when it happens:

* The Redis store loses overlapping adds. An order's EmptyCart removes units that
  were added after it read the cart; a failed shipment leaves the card charged;
  two simultaneous orders both order the cart; a charge may stand behind an
  `Internal` reply. No property forbids the last two.
* A retail checkout is ordered twice by two submits that overlap, by a submit
  after one whose order was posted but not answered, and from a replica that is
  behind. A submit removes whatever is stored by then, also a newer update.
  A Redis client whose `connect()` failed is kept for every later request
  (`RedisCheckoutRepository.ts:36`).
* The list of orders has lost the products. `OrderEntity.java:36` takes the column
  of `productId` for the key of the list of items, so the table holds, and
  `listOrders` returns, "0", "1" and so on in the place of the product ids (the
  answer to the POST and the event still have them, as they come from memory).
  This is a defect of the code. `OrderKeepsLines` states it: the id of a
  listed line is its index in the checkout, and everything else is that line's.
  From eleven lines on, the lines are listed out of order, since the index is
  sorted as text.
* Nor is the unit cost of a line kept: the client sends it as `price`, the entity
  reads `unitCost` and stores 0. `OrderKeepsLines` leaves this attribute out.
* The ratings service answers a failed MySQL connection with status 200
  (`ratings.js:111`).
* A dialog that is opened again before it was hidden may leave a second backdrop
  and a wrong padding. Two panels of a group stay open if one is clicked for the
  first time while another is on its way. A tip
  that is entered while it still goes away may be lost, or stay without
  `aria-describedby`. A tab clicked during a fade leaves two panes active. On touch
  screens a click into an input of an open menu takes the menu's backdrop away.

## 4. What is proved

| module | theorems |
|---|---|
| `CartCalls_proofs` | lemmas: calls keep their types; overlaps and histories stay; calls in flight at once overlap |
| `RedisCartStore_proofs` | `TypeCorrect`, `LossCorrect`, `ResurrectionCorrect`, `QuantityCorrect`, `SerializedCorrect` |
| `SpannerCartStore_proofs` | `TypeCorrect`, `AtomicCorrect` |
| `AlloyDBCartStore_proofs` | `TypeCorrect`, `LossCorrect`, `InflationCorrect`, `SerializedCorrect` |
| `Billing_proofs` | `TypeCorrect`, `TotalCorrect`, `ChargeCorrect`, `PanicCorrect`, `RateCorrect`, `ExpiryCorrect` |
| `Checkout_proofs` | `TypeCorrect`, `ReplyCorrect`, `ShippingCorrect`, `ReorderCorrect`, `SilentLossCorrect`, `CartKeptCorrect` |
| `RetailCheckout_proofs` | `TypeCorrect`, `ReadCorrect`, `LossCorrect`, `SecondOrderCorrect`, `LinesCorrect` |
| `Bookinfo_proofs` | of the ratings: `TypeCorrect`, `ReadsCorrect`; of the page: `PageInvariant`, `PageTypes`, `DialogSettles`, `PanesSettle`, `SlidesSettle`, `TipSettles` |

The assumptions are the named ASSUMEs of the modules: quantities are positive,
the null value is no cart (no number, no call), prices are non-negative valid
amounts of the bill's currency, rates are fractions, an int32 holds two units of
nanos, months are 1 to 12, requests belong to users, bodies have an integer
subtotal and a list of items, a database sorts text in a strict total order with
the digits by value, an opener is not the dialog or the body, and panels,
slides and items are counted by naturals, with a slide at least. TLC evaluates
them on every run. Sets of users, calls, products and orders need not even be
finite, and the bounds on restarts, toggles, openings, clicks and waiting handlers may be any.

Each proof rests on an inductive invariant, stronger than what it shows:

* **Redis.** `LossNeedsOverlap` is about the stored cart only, but an AddItem in
  flight is about to replace it: `WriterLoss` says of the cart each writer has
  seen what `LossNeedsOverlap` says of the stored one. When a writer writes, the
  excuse passes from the one to the other; when a call is acknowledged while a
  writer is in flight, the two overlap. `WriterResurrection` is the same for
  `ResurrectionNeedsOverlap`. The refinement needs only that nobody else of the
  user is in flight (`Alone`), so what was seen is what is stored.
  `QuantityIsMergedSum` needs that what a writer has seen is a merged sum too, that
  merged sets are finite, and what one request more does to the sum: lemmas about
  `SumFunctionOnSet`, by the well-foundedness of finite sets.
* **Spanner.** `SeenIsCurrent`: an open transaction that is not stale has seen the
  row's quantity. That makes a commit exactly the contract's `AddItem`.
* **AlloyDB.** `SeenOrDeleted`: a quantity that was read is still in the row, or an
  EmptyCart that overlaps the reader deleted it; and a row that does not exist
  was made by nobody.
* **Total.** `Running`: a partial sum is a non-negative valid amount, or one that
  `IsValid` rejects but whose value is exact, and from one unit up the former;
  `OutRuns`: after k additions `out` is worth the cost times k + 1. `SumExact`
  is the arithmetic: one lemma per branch of `Sum`.
* **Rate.** `ConvertAtRate` bounds what one conversion is off by: half a nano of
  euros at the rate, and a nano. `RateInv` adds these bounds up: what is added so
  far is off from the exact rate by the bound times the number of units added.
* **Expiry.** `PaymentInv` orders the moments: the month that was read was the
  month of a moment between the call and now, though perhaps of an earlier year
  than the one that will be read; only a new year in between makes a card that is
  good look expired.
* **Checkout.** `Ledger` says for each point of `PlaceOrder` what the services
  have done; `Emptying`, that an order empties once and late; `Units`, that a
  cart holds acknowledged adds of its user; `Known`, that what an order could
  have seen and did not order is not in the cart; `Gone`, that what was emptied
  while no add was half done is in no cart, stored or read, any more.
* **Ratings.** `Latest`: while its process lives, an acknowledged POST is what is
  kept for its product, or what is kept was not there before that POST began; the
  answers given since are no older. `Waiting`, `PrecededAnswered` and `Answers`
  say what has been answered, in which epoch, and what a waiting call waits for.
* **Retail checkout.** The step is taken apart once: `Evolves` says how any step
  moves at most one call and what that does to the stored checkout, and each
  conjunct is then shown to survive `Evolves` instead of each action. `Owned`: a
  checkout that is anywhere, in the stream to the replica too, was written by an
  update for that customer. `Orders`: who has posted holds a checkout.
  `Removed`: what an acknowledged submit held is no longer stored, since only the
  update that built it could put it back, and that one has already written.
  `Replaced`: likewise for what an update wrote over. `Losses` is
  `UpdateLossNeedsCause` from the moment an update has written, and says also that
  a later submit which did not read a stale replica holds that update, or there
  is a cause.
* **Orders.** `OrderListed` follows a checkout's order on its way: `WireItem` is an
  item as posted, `StoredItem` as the service's GET returns it, `ListedItem` as it
  is read back; a lemma for each conversion, from the names in the maps.
  `IndexesPlaced` is about the sort: the number of indexes sorted before one is
  different for each, so by counting it takes every value once, and every line
  has its place; among ten indexes or fewer it is the index itself.
* **The page.** `PageInv` is an invariant for each plugin; a step of one leaves the
  others. The handlers are folds over sequences of any length. `FoldRuns` says
  what a fold reaches: if each handler leads from the i-th set of states to the
  next, all of them lead from the first set to the last. It comes from induction
  over the naturals, which is stated for sets (`NaturalsBySteps`), as the
  library's theorem takes an operator.
  * *Dialog.* A dialog that was not rushed is in one of six phases: closed,
    revealing, open, interrupted (dismissed while the backdrop came), hiding and
    removing. Each phase says which handler waits at which element
    (`OnlyWaits`), whether the one backdrop made last is all there is
    (`Covered`), and what the padding, the guard and the focus are; each function
    leads from a phase to a phase. That is why `SettledPage` holds at rest.
  * *Panels.* `OnTheirWay`: the panels on their way are those a handler waits
    for; `ToldRight`: what assistive technology was told is the last handler's.
    In a group, `Ready` or `Opening`: at most one is open and none opens, or none is
    open and the one that opens waits last.
  * *Slides.* `OneMove`: a slide that moves comes from the one that is active;
    `TimerRuns`, `JumpsWait`: the timer and the clicks that wait are not forgotten.
  * *Tip.* `TipInStep`: a tip that is attached but not shown is going away, or its
    timer will decide; a reason to show it has shown it, or the timer will.
  * *Tabs, menus.* The pane of the active tab waits last; at most one menu is open,
    and what assistive technology was told is what is open.

Only model-checked: the liveness properties `EveryCallReturns`, `EveryOrderReplies`,
`EveryCallAnswered`, `EveryCallEnds` and `PageUncovered`, as the prover cannot
reason about fairness. `Total` in `Checkout` is opaque to the proofs: they show that
the amount charged is the one of the lines shipped; what the sum is, is
`TotalCorrect`.

## 5. What is not modelled

No program state: manifests, charts and exercises; the shipping, email, ad and
recommendation services (a constant, a random number, a template); tracing and
start-up code; the load generator.

Left out, although a model could be made:

* the product catalog (`parseCatalog` runs up to three times per turn of a loop
  while a signal switches reloading on and off) and the handlers of the frontend:
  in `Checkout` their effects appear as prices that change at any time and a user
  who orders again;
* the carts and the catalog of the retail store: one repository call per
  operation, with the hazards that the cart stores of the other shop show;
* the created event of the retail orders service, published after the commit and
  lost by a crash in between;
* the stock API and the circuit breaker: demonstrations of a few lines that cache
  a fact and act on it later;
* of `bootstrap.js`: alert, button and popover (a step or two each), scrollspy and
  affix (layout), and the placement of tooltips;
* of `ObjectSerializer`: dates, enums and discriminators, which no model class of
  this client has.

The hazards of the catalog and of the circuit breaker are in `PROJECT.json` with a
note. A next step would be the catalog
composed with `Checkout`, so that a price that changes has its cause in a reload.
