# A TLA+ model of hortalink

hortalink is a marketplace for vegetables: sellers list products and the places
and times where they can be picked up, customers put them in a cart and reserve
them, and both chat.  This directory models the parts of the program whose
correctness depends on an order of steps that no single function shows, checks
the models with TLC on small instances, and proves every safety property that holds
with TLAPS for every instance.

Paths are relative to `src/`; `api/` stands for `rest-server/src/api/v1/` and
`pages/` for `web/src/components/pages/`.

## The system

| Component | State | Operations | Talks to |
|---|---|---|---|
| websocket gateway (`websocket/`) | the list of connections with their user, a command channel, a frame channel and a timer per connection | accept, identify, pong, close, heartbeat, route an event | clients by sockets, the database by LISTEN and by queries |
| REST server (`rest-server/`) | a pool of five database connections, shared with the session store | about fifty handlers under `api/` | the database, image files, OAuth providers |
| database (`rest-server/migrations/`) | users, sellers, customers, schedules, places, listings, offers, reviews, cart, notifications, sessions, followers, chats, messages | keys, triggers that keep counters and notify | the gateway, by NOTIFY |
| cdn-server | none, it reads files | resize and serve an image | the files the REST server wrote |
| core, common | none | the pool's options, image files; entities and settings | |
| web client (`web/`) | per page: its components' state, its stores, timers, calls under way; one socket | event handlers, continuations of calls, effects; identify on open, show events | REST, gateway |

A message travels through all of them: a handler inserts a row, a trigger
notifies, the gateway's listener turns the notification into a command, the main
loop finds the addressee's connection and queues a frame, and the connection's
task writes it.

A page of the web client runs one handler at a time.  A handler that awaits a
call lets every other handler run before its continuation, and what it captured
is of the drawing it was made in: React keeps a component's state between
drawings, but a closure sees that of its own.

What is hard:

* the gateway's parts only share queues, and its handlers name connections by a
  peer address that the operating system gives again, so a command may be
  handled long after what it names is gone;
* a REST handler is several SQL statements, mostly without a transaction: it
  reads who owns a row and later writes by id, and other handlers run in between;
* a transaction that is held while another connection is asked for, from a pool
  that the others of its kind have emptied;
* writes that block, peers that vanish, commits whose answer is lost, processes
  that panic and are restarted;
* counters that triggers keep beside the rows they count;
* files and sessions that are written outside the transaction they belong to;
* calls of a page that are answered late, in another order, or in vain: the
  server did what was asked and the page is told that it failed;
* state that a closure captured and uses after an await, timers that outlive the
  state they were set for, objects that two stores share, component state that
  React finds again by a key;
* lists that are filled by a drawing of the server, by calls and by the socket,
  in an order nothing fixes.

## Modules

| Module | What it is |
|---|---|
| `Delivery` | what the gateway promises about an event |
| `Gateway` | the gateway, its queues, and the database as its source of events; implements `Delivery` |
| `GatewayProofs`, `DeliveryProofs` | theorems about `Gateway` alone, and as an implementation of `Delivery` |
| `Orders` | cart, orders, listings and offers, one SQL statement per action |
| `OrdersProofs` | theorems about `Orders` |
| `SignUp` | sign-up, the pool and the session's queries |
| `SignUpProofs` | theorems about `SignUp` |
| `Calls` | what a page is told of a call: done, or failed, also when it was done |
| `CartTable` | the rows of a customer's cart, as the two pages below see them |
| `CartPage`, `ProductPage` | the page of the cart, and of a product with its dialogs |
| `ShopProofs` | theorems about these two |
| `ScheduleForm`, `ProductForm`, `SettingsForm` | the forms of a schedule, a listing and an account, with the handlers they call |
| `SearchPage`, `ShelfPage` | the search of the home page with its filter, and a shelf of it |
| `ChatPage`, `ChatList`, `ChatSearch` | a conversation, the list of chats, and the box that opens one |
| `FormProofs` | theorems about the forms and the search |
| `ListProofs` | theorems about the shelf and the chats, and about all pages together |
| `Filters` | what is kept of a list, for the modules of pages |
| `SequenceFacts` | lemmas about filters, sequences and finite sets that proofs share |
| `MC*` | the values of the constants for TLC; `MCShop` and `MCPages` also put pages together |

The comments that begin with "Mutation:" mark operators that no specification
uses: each is a way the definition below it could plausibly be wrong, and shows
that a property notices.

### Gateway and Delivery

`server/mod.rs` has one loop that accepts connections and handles commands, one
task per connection and one listener task.

* `Accept`, `HandshakeOk`, `HandshakeFail`: the loop awaits the handshake itself;
  until it is over no command is handled.
* `RecvIdentify`, `RecvPong`, `RecvClose`, `Vanish`, `SendFrame`, `BlockWrite`,
  `UnblockWrite`, `Expire`, `Tick`: a connection's task.  `recv()` that returns
  an error only disables its branch, so a peer that vanished is noticed by the
  heartbeat alone, and nothing but the write runs while a write waits.
* `HandleDisconnect`, `HandleIdentify`, `HandleEvent`: `commands::handle`.  The
  entry is searched by address, the addressee by user, the first match wins.
  `HandshakeOk` gives an address again as soon as the peer that had it is gone or
  its task has ended: after a reset the entry and the task of the old connection
  are still there for up to 45 seconds, and the commands of the new one find that
  entry first.
  `Panic` is the `unwrap` of a session without user or of a chat that is gone;
  `Restart` is the container's policy.
* `Notify`, `ListenerFails`: the listener.  `Variant` is the untagged enum, tried
  in order, and `Arms` the match on channel and variant.
* `PostMessage`, `UpdateMessage`, `DeleteMessage`, `DeleteAccount`,
  `CreateNotification`: the REST handlers and triggers that cause notifications.

`connections` is a vector that grows at its end; since connections are numbered
as accepted, the set of numbers represents it and "first" is "smallest".
`shown`, `route`, `discarded`, `delivered` and `identifies` are history.

| Property | What it says |
|---|---|
| `RegistryMatchesTasks` | at every address there are as many entries as running tasks and Disconnects on their way, and a task whose peer is there has its own |
| `IdentityEarned` | a connection whose peer is there is bound only to a user whose session that connection presented; only an entry nobody is at can be bound by another's Identify |
| `NoSilentDrop` | an event queued to a working connection is in its channel or written |
| `DeliverySpec` | `Gateway` implements `Delivery`: at most once, to the addressee only, in commit order |
| `GoneIsCollected` | the entry of a vanished peer is removed |
| `RoutedIsSettled` | a queued event is written, or its task ends or blocks or its peer is gone |
| `EditsForwarded` | refuted: edits and deletions are notified and discarded |

### Orders

`req` holds the requests in progress: what each has read and the statement it
executes next.  `PostCart` (look the schedule up) and `InsertCart`; `CheckOrder`
(`get_customer` or `get_seller`) and `Reserve`, `PatchCart`, `CancelOrder`,
`PickupStatus`, `RemoveFromCart`; `CheckAuthor` and `PatchListing`;
`CheckOpenOrders`, `DeleteCart` and `DeleteListing`, the last two in one
transaction, whose deleted rows others wait for (`Locked`).  `PostListing`,
`ViewListing` and `DeleteSchedule` are one step, for they write once or in one
transaction and decide on nothing read before.  Foreign keys are guards.  `Drop`
is a client that goes away: axum drops the handler where it stands.

| Property | What it says |
|---|---|
| `ActedByOwner` | an order is changed or removed only for its customer or its seller, although ids are compared in one statement and used in a later one |
| `PlacedOnOffer` | an order is for a schedule its listing offers, unless it was patched |
| `LossWindow` | a confirmed order is lost to its listing's deletion only if it was reserved between the deletion's check and its transaction |
| `OpenOrdersKept` | refuted: that window exists |
| `OrderedOnOffer` | refuted: PATCH sets a schedule without the look-up that POST makes |

That no listing with offers can be deleted (nothing removes its
`products_schedules` rows: a removal by PATCH sends `IN $2`, a syntax error) is
what makes `PlacedOnOffer` hold; the mutant `ReplaceOffers`, a PATCH whose
removals work, breaks it.  Whoever repairs that statement must look after the
orders that are placed on the schedule removed.

### SignUp

`api/auth/post.rs` opens a transaction (`Begin`), looks the e-mail up on the pool
(`Lookup`, with a second connection), and either signs an existing account in
(`Relogin`, inside the transaction that is then dropped), refuses it, or goes on
with `InsertUser`, `InsertRole`, `Commit`, `Login` and `Save`.  With an OAuth
token in the session the look-up is skipped and the INSERT updates an existing
row.  A point in `Queries` first waits (`Take`, `Timeout`) and then runs.
`InUse` counts what transactions and queries hold; Rust returns a connection when
its owner is dropped, so it is a function of where the requests stand.  A retry
is another request with the same form.

| Property | What it says |
|---|---|
| `AccountsWhole` | an account and its role's row appear together |
| `AnswersTrue` | 201: there is an account that the password sent enters; 409: there was one with another password.  So a retry after a lost answer is not refused |
| `Answered` | every sign-up that arrived ends, even when all connections are held by sign-ups that wait for one more |

### Pages

In the modules of pages a handler is the action up to its await, the server's
work on a call is another (`Answer...`), and the continuation a third
(`...Answered`), so that anything may happen between them.  A call ends with one
of `Outcomes`: "rejected" also when it was done and the answer was lost.  No call
has a timeout.  State variables have the names of the code's states and stores;
`stored`, `bought`, `clicked`, `confirmed`, `told`, `asked`, `picked`, `reported`,
`backdated`, `overtaken` and the like are history.

The site has a page per address: a page that is opened starts anew and shares
only the server with the others.  `MCShop` and `MCPages` therefore check a group of
pages together, with one page open in each behaviour.

**Cart** (`CartTable`, `CartPage`, `ProductPage`).  `CartTable` is the rows; unlike
`Orders`, which interleaves statements of several customers, it has their amounts.
A handler that changes an order looks for it first, and answers 200 also when its
statement finds the order gone (`FindPatched`, `AnswerPatch`; `FindReserved`,
`AnswerReserve`).  `CartPage` is `pages/cart/`: the list that is loaded
when the page is drawn and after a purchase, `toggleItem`, the counters of the rows with their
two-second timers and the call they send, the dialog that picks another schedule,
`finalizePurchase` with its loop of one reservation after another, and what
happens `Elsewhere`: a seller removes a listing, another tab reserves.  A row's
counter is found by React by its key, the seller's id, which two rows may share;
`Reused` is React's search.  `ProductPage` is a listing's page with its two
dialogs: the confirmation stores a schedule and orders with the one stored before.

| Property | What it says |
|---|---|
| `BoughtWasSelected` | only what was selected at the click is reserved, although the selection changes while reservations are awaited |
| `SuccessMeansAll` | the dialog of success means that every order of the click has left the cart |
| `AmountsWereStored` | an amount that the total counts has been in the table for that order, unless the order was removed |
| `SelectedIsShown` | the number beside the total counts orders that the total is about |
| `PurchaseEnds` | "Processando..." ends |
| `OrderedWasConfirmed` | an order is sent with a schedule that is offered and that was confirmed |
| `ToastIsTrue` | the toast says the product is in the cart only if it was put there |

**Forms** (`ScheduleForm`, `ProductForm`, `SettingsForm`).  The first is
`ScheduleForm.tsx`: an address that is typed and searched after a pause, answers
in any order, a choice from a list, or the device's position when the form is
sent.  The second is `SellerProductsEditForm.tsx` with POST and PATCH of a listing:
photos are added while others are read, and fetched again one by one when the
form is sent, twice perhaps; an edit that fails is rolled back in the table and not
in the directory of its photos.  The third is `SettingsForm.tsx` with PATCH and
DELETE of the account: saves overlap each other and the deletion, and the server
changes the picture's directory before the row.

| Property | What it says |
|---|---|
| `CoordsAreTheAddress` | the coordinates kept are those of the address shown, whatever search comes back when |
| `SentIsOnePlace` | what is sent is one place, although the form changes while the position is awaited |
| `SendingEnds` | a form that was sent is answered or left |
| `SentIsShown` | a submission carries the photos shown at its click, all and once each |
| `EditIsOfTheListing` | refuted: an edit changes listings by the wrong column |
| `AvatarIsThere` | the file of the account's picture exists, unless a save failed half-way or two overlapped |
| `SavedOnce` | a picture reported as saved is not sent again |

**Search and shelf** (`SearchPage`, `ShelfPage`).  The filter is one object in a
store; its modal starts from the same object, takes fields away from it and
copies it when it adds one, and the store's listeners hear only of another object.
The search box has late answers too.  The shelf of recent products is drawn a
slide at a time and fetches more; a click works on the list of its own drawing.

| Property | What it says |
|---|---|
| `FilterWasChosen` | the filter holds no value that was not confirmed or chosen, although the modal shares it |
| `ListsWereTold` | the filter has no field that the list was not asked for last |
| `NoTwins` | no product is on the shelf twice although the server's pages move |
| `SlideHasProducts` | a slide begins at a product, unless an answer took products back |

**Chats** (`ChatPage`, `ChatList`, `ChatSearch`).  The first two keep what the server
drew, what calls return and what the socket brings in stores; the gateway is here
only what `Delivery` promises: in order, to who is connected, possibly nothing.
The third is the search among users and POST chats, statement by statement, of
this page and of the other user's.

| Property | What it says |
|---|---|
| `DrawnStays` | no step loses a message of the other user that is drawn or about to be drawn, but for two: a component that finds messages in the store draws them in the place of the server's, and an import that ends overwrites what came meanwhile |
| `PreviewIsFresh` | a chat's last message is never older than one the socket brought, unless an older reading was stored after it |
| `TwinsWereConcurrent` | two users get a second chat only from requests that overlapped |
| `OpenedWasChosen` | the page goes only to a chat with a user that was picked |
| `SearchingEnds`, `ChoiceLeaves` | "Procurando..." ends; who picks a user is taken elsewhere |

The properties with an "unless" or a "but for" name what the code cannot rule out;
each of those cases does occur in the runs.

## Runs

| Run | Instance | Why it is enough |
|---|---|---|
| `gateway_registry` | four connections, all but the second from one address, two Identify frames, no events; the peers of the first and the third may vanish | an address that is used again twice: the Disconnect of one newcomer removes the oldest entry, and the next newcomer finds what is left; the second connection stands between them as another user's.  1.8 M states |
| `gateway_delivery` | two connections, two identifies, two events, created and updated | order and at-most-once need two events, replacing a session two connections.  1.3 M states |
| `gateway_liveness` | two connections from one address, one identify, two events, deleted account, panic and restart, fair | the second takes the address of the first while its task runs, or after.  207 k states |
| `gateway_edits` | one connection; finds the counterexample | |
| `orders` | two customers, a seller, a listing, a schedule, two orders, two requests in progress | every hazard listed is a race of two requests over one listing; the second order shows that ids are not confused.  1.3 M states |
| `orders_open`, `orders_schedule` | one customer and one order; two schedules in the latter; find the counterexamples | |
| `signup` | three requests with any form over two e-mails, two passwords and both roles, two connections | two requests empty the pool and a third waits for it.  264 k states |
| `signup_pool` | three requests for one e-mail, fair | all three share the pool and the row.  192 k states |
| `shop` | two listings of one seller and one of another, two schedules; a cart of two orders; one change, one purchase and one event elsewhere; amounts to 2, two additions | two rows with the same key need two listings of one seller; a purchase of two orders can fail between them; one removal falls between a look-up and its statement.  443 k states |
| `pages` | eight pages, the bounds below, fair | each hazard is a race of two calls, or of a call and one or two handlers.  422 k states |
| `listing_edit` | the page of the listing's form alone; finds the counterexample | |

Bounds of the pages: `MaxAmount`, `MaxEvents`, `MaxAdds`; `MaxSearches` 2 (two
searches can cross) and `MaxInputs` 3 (type, search, type over); `MaxPreviews` 2 and
`MaxChanges` 2 with two `Submits` and two listings whose products are each other's
ids (`ImageLimit` is the code's 5 made 2); `MaxChoices`, `MaxSaves` 2,
`MaxDeletions` 1, `MaxActs` 4; one value per field of the filter, for a second one
behaves like the first; `MaxMessages` 3; five products on pages of two
(`PerPage`), two fetches, slides of one and two; two chats and two texts; two
other users and three searches or requests.

Bounds of the server's modules: `MaxConns`, `MaxIdentifies`, `MaxEvents`, `Flaky` (connections whose peer
may misbehave), `Kinds`, `Leaving`; `Req`, `MaxOrders`, `MaxListings`; in SignUp the
set `Req` itself, since a request is made once.  `MaxConn` is the code's 5 made 2.
Runs of `Orders`, `SignUp` and the pages do not check deadlock: a server that no
client calls stands still, a user may stop or leave the page, and ids run out.  Symmetry is used in runs of safety properties only.

### Fairness

`Gateway`: strong fairness of `HandleCommand`, as `select!` picks among ready
branches at random and the loop may be between handshakes; weak fairness of
`SendFrame` and `Tick`; time passes for a vanished peer, and the write to one
fails in the end.  Nothing is assumed of a handshake or of a write to a living
peer, because the code sets no timeout on them: hence the premise
`[]<>(main = "idle")` of `GoneIsCollected` and "blocked" in `RoutedIsSettled`.

`SignUp`: weak fairness of what a handler does when it can, and of the pool's
acquire timeout (30 s by default).  Nothing says that who waits gets a
connection.  Without the timeout `Answered` fails (mutant `WaitForever`).

Pages: weak fairness of `CartProgress`, `ScheduleProgress` and `ChatSearchProgress`,
the answers to calls and their continuations.  A browser ends a call at last,
with an answer or an error, and an event loop runs what is ready.  Nothing is
assumed of the user, of the socket, of timers, or of the device's position, which
`SendingEnds` therefore does not begin with.

## Disagreements found

* `gateway_edits`: `websocket/src/json/mod.rs:26-29` has opcodes 13 and 14 for
  deleted and updated messages, and `commands/messages.rs` sends them, but no
  notification ever becomes such a command: the trigger notifies
  `message_delete`, the match expects `message_deleted`, and an update's payload
  already fits the variant of a deletion.
* `orders_open`: the check behind "Pedidos em aberto" is outside the transaction
  that deletes the orders.
* `orders_schedule`: POST cart refuses a schedule with "Agenda inválida" that
  PATCH cart accepts.
* `listing_edit`: `docs/api.md:234` says PATCH of a listing sets the new price;
  `api/sellers/products/patch.rs:42` says `WHERE product_id = $4`, and `$4` is the
  quantity per unit that was sent.  Line 132 does the like with the photos.

Read in the code while modelling, and part of the models, but no run of their
own states them:

* Gateway: entries are searched by address (`websocket/src/commands/users.rs:11`, 24)
  and a task whose peer reset keeps its entry until the heartbeat
  (`server/mod.rs:73-82`, `server/session.rs:28`).  A client that is given the
  address in between identifies the old entry: it is sent no event, and when it
  leaves, the old entry is removed and its own stays, until the old task ends.
* Cart: rows of one seller share a React key (`CartProducts.tsx:132`), which is
  why a row's counter can be another row's; the dialog of success is drawn only
  while the cart is not empty (117).  `CartModal`: the first confirmation orders
  nothing, later ones order with the schedule confirmed before.
* Schedule: an edit never moves the place (`ScheduleForm.tsx:219`, `docs/api.md:310`).
* Cart, in the server: PATCH and reserve answer 200 when the order is removed between
  their look-up and their UPDATE, which then changes no row (`cart/patch.rs:17-39`):
  the page counts the amount, or the purchase succeeds, for an order that is gone.
* Listing: sending an edit again adds all previews again; an edit that fails leaves
  the photos' directory changed (`api/sellers/products/patch.rs:106`, 123); the limit
  of five images is compared with the array of the first drawing
  (`SellerProductsEditForm.tsx:22`), which a removal replaces.
* Settings: overlapping saves lose the picture's file, and a save on a deleted
  account reports success; the preview may not be the image that is kept
  (`SettingsForm.tsx:171`); preferences are never stored (`api/users/me/patch.rs:88`);
  a refused password change has already replaced the picture (60).
* Search: Enter on an option that is a user sets `product_id` to -1
  (`SearchBarResults.tsx:59`); a late answer breaks what the comment at 51 assumes;
  emptying the box drops the product without telling the lists.
* Chats: the store is replaced by what was drawn when an import finishes late
  (`ChatMessages.tsx:41`), a store that is not empty hides the history (40), and
  own messages vanish when the store changes (55, 71).  `ChatsSearchbar` takes the
  props object for the user's id (6), so a user finds himself; its automatic search,
  which the text at 136 announces, never happens, for the effect's cleanup
  (91-93) clears the timer of line 55; listeners of focus are never removed (69).
  A chat opened by another user is not added to the list by its message.
* Shelves: `page` begins at 1 in every drawing (`PaginatedProducts.tsx:26`), so the
  same page is fetched again; an answer that was overtaken takes products
  back; the shelf of delivered orders stays empty, as nothing sets that status.

## Proofs

All hold for any values of the constants that satisfy the modules' assumptions
(`...Assumption` in each), which say that bounds are numbers, that the markers for
"none" are no members, that the sets of sign-ups, of photos and of a shelf's
products are finite, and that a form has a price and a quantity to choose.
`PagesAssumption` only lists the pages there are.  Those about pages are theorems
of the page's own specification (`CartSpec`, `ProductFormSpec`, ...);
`ShopPagesAreApart` and `PagesAreApart` say that a behaviour of the pages together,
which the runs check, is one of each page alone, but for the fairness.

### Gateway

* `TypeCorrect` (`GatewayProofs`).  `TypeOK` is not inductive: a handler appends
  what a queue carried.  `TypeInv` adds that connections not yet accepted have
  no task, that a blocked task has a frame it is writing, and that queues only
  carry events that were committed and have a shape the match knows.
* `RegistryAgrees`, `IdentityIsEarned` (`GatewayProofs`).  Handlers search by
  address, so the question is why the first entry found is the sender's.
  `RegistryInv` counts instead of pairing: at every address the entries are as many
  as the running tasks and the Disconnects on their way (`Balance`); since a
  Disconnect removes the oldest entry, those that are left belong to the newest
  connections (`NewestHeld`), and all but the newest are without peer or task
  (`OlderLeft`).  An Identify has fewer Disconnects ahead of it than there are
  entries up to its sender's (`IdentifyInTurn`), so when it is handled the oldest
  entry is its sender's or one nobody is at.
* `NothingIsDropped`, `DeliveryIsImplemented` (`DeliveryProofs`).  Three queues in a
  row (the listener's, the commands, a connection's frames) each keep the order of
  the commits, and what is in a later one was committed before what is in an
  earlier one (`QueuesInOrder`, `RoutedFirst`, `FramesInOrder`).  What a channel holds
  was routed to its connection, which has shown a session of the addressee
  or whose peer is gone, and then nothing is written (`ToAddressee`, which needs
  `IdentityEarned`).  A panic or a lost subscription
  empties a queue and reorders nothing.  `MessagesHaveChats` gives every
  event an addressee.  So a commit is `Publish`, an Identify that is read is `Show`,
  the write of an event is `Deliver`, whose guards the invariant gives, and every
  other step is a stutter.

### Server

* `OrdersTyped`, `OrdersPlacedOnOffer`, `OrdersActedByOwner`, `OrdersLossWindow`
  (`OrdersProofs`).  The invariant says of every request in progress that what it
  has read is still true of the id it will write to (`Recalls`), that the schedule
  it looked up is still offered (`LookedUp`), and that what a deletion will take
  was reserved in its window (`Spares`).  It holds because a sequence never gives
  an id again, a listing never changes hands, and deleted rows are locked.
* `SignUpTyped`, `SignUpWhole`, `SignUpAnswersTrue` (`SignUpProofs`).  The row lock
  makes open transactions that wrote one e-mail's row exclusive, so an account
  that was not there at the INSERT is not there at the commit; who goes to the
  session's queries can enter the account, and an account's password never
  changes.  The pool's bound counts two finite sets through every step.

### Pages

* Cart (`ShopProofs`).  `CartInv` has three parts.  `Purchase`: an order of the click
  is in `Rest`, what the captured loop has still to reserve, or `Settled`, out of the
  cart, and nothing puts a settled row back; hence `BoughtIsSelected` and
  `SuccessIsOfAll`.  `Recorded`: an amount is on the page, in an answer on its way or
  in a call that succeeded only if it was in the table or the order was removed; hence `AmountsAreStored`.
  `Shown`: while the first list is awaited there is nothing to select, and a second
  one is only fetched by a purchase, which clears the selection; hence
  `SelectionIsShown`.  What the list shows is a filter of the table's rows.
* Product (`ShopProofs`).  What the dialog holds was offered, what the page keeps was
  confirmed, and an order whose call was told to be done is a row that nothing
  takes away: `OrderIsConfirmed`, `ToastTellsTruth`.
* Schedule (`FormProofs`).  Coordinates are set only together with their address and
  every other change of the text drops them; that a search under way has a text
  that can be searched is the strengthening: `CoordsAreOfTheAddress`, `OnePlaceIsSent`.
* Listing (`FormProofs`).  What a submission has fetched, followed by what it has
  still to fetch, is what was shown (`CollectedOfShown`): `ShownIsSent`.  The type needs
  that previews and files being read together stay within the bound.
* Settings (`FormProofs`).  A picture has a number of its own and is in one place: being
  resized, in the form, or in saves (`PicturesAreNew`), so one that was reported is
  not in the form again: `PictureIsSavedOnce`.  As long as no save was torn or overlapped,
  a save that is past its file has its picture in the directory, and with none in the
  server the row's is there (`FilesFollow`): `AvatarExists`.
* Search (`FormProofs`).  `SearchInv` adds that the modal shares the store's object
  only while it is open and previews just that object: what it adds is then in a
  copy, and what it does to the object only takes fields away.  Lemmas say what each
  edit does to `FieldsOf`.  `FilterIsChosen`, `ListsAreTold`.
* Shelf (`ListProofs`).  A click's captured list, its answer and what the server holds
  have no product twice, and a click begins before the captured list's last product
  (`CallIsSound`); what is added is the answer without what is captured, so their
  concatenation is injective too: `ShelfHasNoTwins`, `SlideIsOnTheShelf`.
* List of chats (`ListProofs`).  The socket brings messages in their order
  (`ComesInOrder`), and what was read is no newer than the table (`ReadIsThere`): a
  message that is heard is newer than every other the store has heard, and a
  reading that is not older than the last one heard has them all:
  `PreviewsAreFresh`.
* Conversation (`ListProofs`).  Every list of the page is of rows (`OnlyRows`), and when
  the drawing is up to date, what is drawn of the other user is what the store
  has (`StoreIsDrawn`); before the component is there, the page is as the server drew it
  (`Untouched`).  So a step that draws anew loses nothing, the two of `DrawnStays`
  excepted: `WhatIsDrawnStays`.  The store only grows once it was filled: `DrawnForGood`.
* Search of users (`ListProofs`).  A request that is about to insert saw no row of its
  pair among the first `seen`, and rows are only appended, so any row of the pair
  lies behind what it saw (`Knows`): `TwinsAreConcurrent`, `OpenedIsChosen`.
* `ShopTyped`, `PagesTyped`: the type of every page, from all of the above.

`SequenceFacts` holds what these share: what a filter keeps, in which order and how
often; removal from a list; maxima of sets of numbers.  The filter is a recursive
function, about which nothing can be said without induction; the library's theorem
takes a predicate as parameter, so the induction here is over a set of numbers
(`Induction`), from the well-foundedness of `<` (`LeastNatural`).  `Kept` of `Filters` is
written instead of `SelectSeq`, whose definition the provers cannot unfold.

Only model-checked: `GoneIsCollected`, `RoutedIsSettled`, `Answered`, `PurchaseEnds`,
`SendingEnds`, `SearchingEnds`, `ChoiceLeaves`, which are liveness under fairness and out
of the prover's reach, and the counterexamples of the four runs that find one.

## Not modelled

* Parsing, validation, JSON, resizing of images and cookies: functions of one
  request.
* Texts of messages, names and descriptions: no decision modelled here depends on
  them.  Amounts, prices and photos are in the modules of the pages.
* Read-only queries, except those whose results a modelled page keeps.
* The OAuth exchange and plain login: they write nothing but the session.
* The cdn-server, which keeps no state.
* Reviews and their running sums, followers, the viewed and edited marks of
  messages, the search for a schedule's place, and what deleting an account does
  to orders, listings and reviews: see the plan.
* Pages of orders, dashboards, reviews and notifications, and static pages: they
  load a list once, or send a call and load the page again, so no step finds
  state that another has made stale.

## Plan

Modelled so far are the gateway with its events, orders, sign-up, and the pages
above with the handlers they call.  Left, in this order:

1. `Ratings`: `rating_sum` and `rating_quantity` against the reviews.  INSERT and
   DELETE have a trigger, UPDATE has none.  Invariant: the quantity is the number
   of reviews; the sum is right as long as no review was edited; refuted: the
   average shown is between one and five stars (`docs/api.md:272`).
2. Viewed marks: messages marked that the reader's page did not contain
   (`api/users/me/chats/messages/get.rs`), in `ChatPage`.
3. `AccountDeletion`: the order of its statements against the foreign keys and
   the triggers on other users' rows; lock order between two deletions; nothing
   removed if a statement fails.
4. `Places`: a place within 100 m found or inserted, by two requests at once.
5. Proofs: of what these add; the counting invariants of `Ratings` by the induction of
   `SequenceFacts`.
