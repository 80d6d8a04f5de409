# Verification of eventy-api

`eventy-api` is the Go server of an event platform: organizers publish events
with sessions and ticket types, customers hold tickets, order them and pay
through Stripe, and both are told what happens by mail and by push.  This
directory holds TLA+ models of its core logic, the TLC runs that check them, and
TLAPS proofs of what matters most in them for every size of the system.

    tlc -workers 2 -config TicketSales_holds.cfg MCTicketSales
    tlapm TicketSalesProofs.tla

All paths below are relative to `src/internal/` unless they start with `src/`.

## 1. The system

The server is one process of HTTP handlers over one MySQL database (InnoDB,
REPEATABLE READ), Stripe, Firebase (accounts and pushes) and Mailjet.  Handlers
run concurrently and share nothing but the database, its pool of connections and
those services: what is hard about them is what happens between two statements
of a handler, between the database and an outside service, and between a call
and the webhook that answers it days later.

| Component | State | Operations | Modelled in |
|---|---|---|---|
| Ticket sales (`events/repository.go`, `service.go`) | `ticket_types`, `ticket_reservations(_items)`, `checkout_orders(_items)`, `tickets` | hold, renew, release, order, start a Stripe session, webhook (paid, expired) | `TicketSales`, `SeatLedger` |
| Ticket mail (`events/service.go:420-516`) | `checkout_orders.tickets_emailed_at` | send once the order is paid | `TicketMail` |
| Event catalogue (`events/`) | `events`, `event_sessions`, `ticket_types` | create, update, delete; the public pages | `Catalogue` |
| Maintenance (`app/app.go`) | none | every minute, complete past sessions | `Catalogue` |
| Announcements (`events/service.go`) | the same rows | push what became bookable or was cancelled | `Announcements` |
| Check-in (`tickets/`) | `tickets.checked_in_at` | check in, list | `CheckIn` |
| Access tokens (`platform/jwt`, `http/middleware`) | none: claims live in the token | issue, verify | `CheckIn` |
| Refresh-token sessions (`auth/`) | `auth_sessions` | login, refresh with rotation, logout | `AuthSessions` |
| Accounts (`auth/`, `users/`, `admins/`, `platform/firebase`) | `users`, Firebase | login and linking, provisioning of admins, change of address, deletion | `Accounts` |
| Organizers and admins (`admins/`) | `organizers`, `users.organizer_id` | create, delete organizers; add, remove admins | `OrganizerAdmins`, `Accounts` |
| User profiles (`users/`) | `users` | read, update, delete | `Accounts`, `OrganizerAdmins`, `AuthSessions` |
| Push notifications (`notifications/`) | `notification_device_tokens` | register, revoke, dispatch | `DeviceTokens` |
| Connections (`platform/db/mysql.go`) | the pool | borrow, return | `DbPool` |
| Categories, reporting and CSV, HTTP layer, migrations, seeding, configuration | | | not modelled, see section 5 |

The parts meet in the database.  Sales issue the tickets that mail sends and
check-in uses up; the catalogue's edits, and the maintenance job, decide what
sales may grant; announcements follow the catalogue's edits; deleting a user
cascades to sessions and device tokens.  Each module takes what it needs of its
neighbours as an action that may happen at any time: `CloseSales` in
`TicketSales` is any edit, or the job, or the clock, that ends the sale of a
type; `IssueTicket` in `CheckIn` and `MarkPaid` in `TicketMail` are the
transaction `MarkCheckoutOrderPaid` of `TicketSales`; `RemoveUser` in `CheckIn`,
`DeleteUser` in `DeviceTokens` are the deletions of `Accounts`.

What makes each component correct, and what is hard about it:

- **Ticket sales.**  No unit is sold twice or promised beyond the stock; a paid
  order has exactly its tickets, whatever Stripe repeats; an order is settled
  the way its Stripe session ended; who was charged gets tickets; an abandoned
  order ends.  Hard: the hold (ten minutes), the order (no limit of its own) and
  the Stripe session (31 minutes or more) have three clocks; webhooks come
  twice, late and out of order; the organizer edits the stock meanwhile; a
  Stripe session may exist that the database never heard of.
- **Ticket mail.**  Sent at least once, and again only for a reason.  Hard: six
  steps, any of which may be the last, and two deliveries side by side.
- **Catalogue.**  Public pages and reservations agree about what is on sale.
  Hard: a page is several statements, and three queries state the same condition
  in different ways.
- **Announcements.**  Everyone is told once when an event becomes bookable,
  ticket holders always of a cancellation, nobody of what cannot be booked.
  Hard: no transaction; each call decides on what it read at its start.
- **Check-in.**  A ticket admits once, and is never used up for nothing.  Hard:
  two doors, lost replies, and staff whose row is gone while their token lives.
- **Sessions.**  Logged out, expired and orphaned sessions are over.  Hard: a
  refresh reads in one statement and writes in another.
- **Accounts.**  Rows and Firebase agree on who is who, and everyone can log in.
  Hard: two systems, no transaction over both, and cleanup on errors.
- **Organizers and admins.**  No admin without organizer, no organizer without
  admin.  Hard: count and delete are two statements.
- **Pushes.**  A device is registered for whoever is signed in on it.  Hard:
  calls that arrive late, and failures found after the device changed hands.
- **Connections.**  Whoever waits for one gets one.  Hard: some handlers need
  two at a time.

`PROJECT.json` lists the hazards one by one, each at its line, with the
properties that watch it or the reason why none does.

## 2. The modules

Each component's module states its variables, its actions, `Init`, `Next`,
`Spec`, the fairness where there is any, and its properties.  `MC*` modules give
TLC its instances and symmetries; `*Proofs` modules hold theorems and proofs.
A variable marked "history" in its declaration is read by no guard: it remembers
for a property what happened.  A comment that says "Mutation:" stands before a
variant of the definition that follows it, with one plausible mistake in it;
the variants serve to test that a property notices the mistake and are used
nowhere else.  `DeviceTokens` and `DbPool` name what every module has after
themselves (`DevicesSpec`, `PoolTypeOK`), so that the proofs about them can stand
beside those of the component they belong with: pushes beside announcements, the
pool beside the public list that can jam it.

### TicketSales and SeatLedger

*State.*  `listed`, `onSale`, `quantity`, `maxPerOrder`: `ticket_types` and
whether event, session and window let a type be sold.  `hold`, `held`: the
reservation row with its `expires_at`, and its items.  `status`, `ordered`,
`recorded`: the order, its items, its `stripe_checkout_session_id`.  `tickets`:
issued tickets, counted.  `stripe`, `buyer`: the session at Stripe and who was
sent there.

*Atomicity.*  Every handler that changes this state runs in one transaction, and
its first statements take row locks (`FOR UPDATE`): upsert locks the reservation
and the ticket types, ordering locks the reservation, starting a Stripe session
the order, and both webhook handlers the order.  Under REPEATABLE READ the
snapshot that later plain SELECTs read is taken at the first of them, after the
locks, so a transaction sees what the last holder of those locks left: each is
one action.  The transaction that a deadlock or an error rolls back changes
nothing and is a stuttering step.  Three things are not in the transaction and
are actions of their own: `CleanupExpiredReservations`, when a call cleans up and
is then refused or only reads (`GetReservation`); `LoseStripeCheckoutSession`,
when Stripe made the session and the commit failed; and time.  In the calls that
go on, the cleanup is part of the action (`SweptHold`, `SweptHeld`).

*Time.*  A hold is `live` (ten minutes), `lapsed` or `kept` (the ten years of a
paid order's reservation); `Lapse` may happen at any moment.  That a Stripe
session stays open longer than a hold is not assumed: both orders are explored.

*Names.*  `checkout_orders.reservation_id` is UNIQUE, so an order is named by its
reservation.  A reservation that was deleted leaves no trace, and its slot stands
for the next one; the number of slots bounds what exists at once, not how many
there ever were.  A deleted ticket type's slot can be listed again in the same
way.

*Stripe* is external.  A customer completes only a session they were sent to
(`buyer`); a card is `paid` at once, a delayed method is `processing` and later
`paid` or `failed`; an open session may expire at any time.  A webhook is not a
message in a queue: `checkout.session.completed` may be delivered at any time, and
again at any time, once the session was completed, and so may
`checkout.session.expired`.  That covers duplication, delay, loss (of any number
of deliveries but the last) and reordering.

*Refinement.*  `SeatLedger` says what selling promises without holds, cleanup,
Stripe or webhooks: an order is placed for listed types, and ends once, by all
its units leaving the stock together with their tickets, or by expiring.
`TicketSales` implements it under the mapping `Ledger` (stock is `quantity`,
items are `ordered`, outcome is `status`); `SellsFromTheLedger` is the ledger's
specification as a property of `TicketSales`.

### TicketMail

A delivery of `checkout.session.completed` is a request of six steps: mark the
order paid (or be refused for lack of stock), read the order again, send the
mail, set `tickets_emailed_at`, push, answer.  Several deliveries run at a time.
`Fail` ends one at any step: an error, a context that Stripe cancelled by hanging
up, a server that stops; a mail may have been taken by Mailjet without the server
hearing of it.  `stripe` says whether Stripe still owes the order a delivery that
is answered with success; it may deliver once more after that, at any time.
`excuses` counts the two reasons the code has for a second mail: a request that
failed, or a second one that read the order, between that read and the UPDATE.

### Catalogue

One event, its sessions with their times, and their ticket types, against a
clock, the organizer's edits and the maintenance job.  `Reservable` is what
`UpsertReservation` asks, `Listed` the WHERE of the public queries for sessions,
`PublicTypes` that for ticket types.  A public page is three kinds of statements
in a row (`ReadEvent`, `ReadSessions`, `ReadTypes` for one session after the
other), with any edit, tick or run of the job in between.  `seen` and `lasting`
collect what could be reserved at some time, or all the time, while a page was
read.  `Plans` are the times an organizer may send; `Valid` is the validation.

### Announcements

No handler here opens a transaction.  A call is a record of what it has read, and
each statement that matters is a step.  Calls that write once and push only to
ticket holders (sessions, deletions) are one step.  Pushes are best effort, so
the module is about calls that come to their end: a failing statement ends a call
before it pushes and is left out, except for rows that are gone (`NotFound`).

### CheckIn

`CheckInByCode` is one transaction whose first statement locks ticket, order and
event (`FOR UPDATE`), so scans of one event's tickets exclude each other between
`SelectForUpdate` and the commit in `CheckInByCode`.  A transaction may be rolled
back at any point before, and a reply may be lost after.  The scanner's claims are
those of the access token: `tokens` are the users that hold one which has not
expired, `renewing` those whose login or refresh has read the row and not yet
generated the token.  No handler changes the role or the organizer of a row that
exists, so a stale claim is one of a row that is gone.  The command
`src/cmd/seed-admin` does (`main.go:117-125`), but only makes the row a super
admin's: tokens issued before allow less than the row, and it is left out.  A scan
may name the event it expects, or `AnyEvent`; a session that is named as well is
compared in the same place and is taken for part of the event.

### AuthSessions, OrganizerAdmins

None of these handlers opens a transaction (but `CreateOrganizerAdmin` and
`DeleteOrganizer`, which are one step).  A request is a record of what it has
read, and each statement that matters is a step: other requests run between any
two of them.  Statements that only read what cannot change the outcome are part
of the step before.  `Fail` ends a request at any point.  Foreign keys are
guards: an INSERT whose parent is gone fails, a DELETE cascades.  The two DELETEs
of `DeleteOrganizer` are one step since the first locks the range of the index
that a new admin of the organizer would be inserted into.

### Accounts

A user in two places, `rows` with `email` and `uid`, and Firebase's `accounts`
with `mail`.  Each call is a sequence of single statements and single Firebase
calls: login (find by address, then create or link), profile deletion (Firebase,
then the row), adding an admin (look up at Firebase, create there, insert the
row, read it again, and delete the account it made if anything fails), change of
address.  `Error` is a statement or Firebase call that fails, with the handler's
own cleanup; `Crash` leaves everything where it is.  UNIQUE keys are guards.
Firebase is external: an address is unique among its accounts, an ID token
outlives its account.  `disturbed` and `renamed` remember whether calls
overlapped or failed, and whether anyone's address was changed.

### DeviceTokens

The app registers its token at sign-in and unregisters it at sign-out; its calls
are on their way in `calls`, and arrive late, overtaken, or never.  A push lists
the tokens, sends to one after the other, and revokes each that Firebase refuses,
by token, whoever it belongs to then.  `orderly` are the devices none of whose
calls was lost, refused or overtaken since their last fresh start.  Tokens with
provider `apns` are registered and listed like others, and Firebase never knows
them.  The dispatcher revokes a token also when Firebase calls an argument
invalid (`notifications/dispatcher.go:77`).  In the model that is a refusal of the
token like the other, since nothing else in a message can be invalid: its texts are
made from titles and names of limited length (`VARCHAR(180)` and `(120)`) or an
order number, far below Firebase's 4 KB, and the keys of its data are fixed.  A
message that Firebase rejected for its own sake would revoke every device it goes to.

### DbPool

Who holds how many of the `MaxOpenConns` connections, and who waits: handlers
that make one statement after the other return the connection each time,
transactions keep theirs, and the public list of events keeps that of its outer
query while each of its inner queries needs one more.  `Connections` is the set
of connections in use, each named by its request and whether it is the request's
first or second; `InUse` counts it.

## 3. The runs

| Run | Question | Bounds | Result |
|---|---|---|---|
| `TicketSales_holds` | can competing customers, payments and expiries oversell, overpromise, or settle an order against Stripe? does it all refine the ledger? | 1 type with 1 or 2 units, limit 1 or 2; 3 reservations; 2 Stripe sessions; symmetry | holds, 203,058 states |
| `TicketSales_live` | do orders over several types get all or nothing, and does every order end? | 2 types with 1 unit, orders of both or of one; 2 reservations; 2 sessions; `FairSpec` | holds, 401,557 states |
| `TicketSales_kept` | does a paid reservation stay empty (`events/repository.go:2819`)? | 1 type, 2 reservations, 2 sessions | violated |
| `TicketMail_delivery` | is every paid order mailed, when is it mailed twice, is a mail ever claimed that was not sent? | 2 orders, 2 deliveries at a time, 2 failures; `FairSpec` | holds, 77,242 states |
| `Catalogue_pages` | do public pages show what is on sale, and does a past session stop selling? | 2 sessions, 2 types, times 0 to 2, 3 plans (one invalid); `FairSpec` | holds, 121,580 states |
| `Announcements_calls` | are the pushes right unless calls overlap, and again after a fresh start, and the rows even when they do? | 2 sessions, 2 types, 2 calls at a time; symmetry | holds, 39,346 states |
| `CheckIn_doors` | does a ticket admit once, is nobody turned away wrongly, do removed staff stop? | 1 ticket, 2 events of 2 organizers, an admin of each, 2 scans at a time; `FairSpec` | holds, 33,408 states |
| `AuthSessions_ends` | are ended sessions over, and do they go with their account? | 2 users, 3 sessions, 5 tokens, 2 requests; symmetry | holds, 14,549 states |
| `Accounts_firebase` | do rows and Firebase keep together, and can everyone log in? | 3 rows, 2 UIDs, 2 addresses, 2 calls at a time; symmetry | holds, 740,891 states |
| `OrganizerAdmins_rows` | is an admin ever left without organizer; when can a removal take the last one? | 2 organizers, 4 admins, 2 requests; symmetry | holds, 2,792 states |
| `DeviceTokens_hands` | is a device registered, and taken up by pushes, for whoever is signed in? | 2 users, 2 devices (one `apns`), 2 pushes, 2 calls of a device on their way; symmetry | holds, 1,841,653 states |
| `DbPool_jam` | does everyone who waits for a connection get one? | 3 requests, 2 connections, 2 statements each; `FairSpec` | holds, 4,186 states |

*Why the bounds suffice.*  Three reservations are a customer, a competitor who
took the last unit, and one who comes when a hold has lapsed; two units tell an
order's quantity from its number of items; two Stripe sessions are the one an
order records and one it does not.  Two types with a single unit each make an
order short of one item and not of the other.  Two requests at a time are enough
for every race here, since each is between one who read and one who wrote.
Two sessions of an event let one be deleted while the other is read; three times
are before, during and after.  In `Accounts`, three rows allow two of one history
and one of another address.  Three requests on two connections are two that jam
and one that suffers.  `Catalogue` stops its clock at `MaxTime`, `TicketMail` its
failures at `MaxFailures`, `DeviceTokens` its calls at `MaxCalls`, `DbPool` its
statements at `MaxQueries`; every other state space is finite by itself.  All are
explored to the end.  Modules whose ids are used up stop, and so does one whose
clock has; hence no deadlock check there.  In `DbPool` somebody can always give
up or begin, so TLC's deadlock check could not see a jam: `EveryoneIsServed` is
what does.

*What the properties say about the code's races.*  Several properties state the
exact condition under which a promise holds, and the condition is where the code
has a window:

- `HoldsAreBacked`: live holds exceed the stock only through a payment that the
  order's own hold does not cover (it lapsed after ten minutes, the Stripe
  session not before 31), or an organizer who lowers the quantity.
- `WebhooksFindTheirOrder`: an expiry whose order is not found, and either webhook
  whose order is not in the state the handler asks for, is answered with success
  and not repeated.  A payment whose order is not found changes nothing
  (`events/repository.go:2731`), and then fails in the mail that should follow
  (`events/service.go:428`), is answered 400 and repeated in vain.  So the order
  must record the session its customer was sent to, and be in that state, whenever
  the webhook may come.
- `ChargedOrdersAreSettled`: a charged customer gets the tickets unless the stock
  is short of them.  Then the webhook fails each time and nobody refunds.
- `OrdersAgreeWithStripe`: a paid order's session was completed, which with a
  delayed payment method precedes the money: the webhook does not read
  `payment_status`.
- `MailsHaveReasons`: one mail for each failure or overlap in the window, and one.
- `EndedSessionsStayEnded`: a session that was revoked comes back through a
  refresh that was already past its check, since its UPDATE clears `revoked_at`,
  and in no other way.
- `OnlyOvertakenRemovalsTakeTheLast`: a removal takes the last admin only when
  one of those it counted went in between.
- `BookableIsAnnounced`, `CancellationWarns`, `OnlyNewsIsAnnounced`: unless calls
  overlapped since they were last all at rest with an event that was neither
  bookable nor cancelled.  So an overlap may miss, repeat or misplace a push, and
  leaves nothing behind when the event starts afresh.  Two first ticket types at
  once do miss one: each call counts the ticket types after its insert
  (`events/service.go:684`), finds two, and tells the ticket holders, of whom there
  are none; a comment at `:671` says that the first is broadcast to everyone.
- `EveryoneLogsIn`: as long as nobody's address was changed.  `UpdateProfile`
  does not tell Firebase, so a later login looks for the old address, finds no
  row, and may not insert the UID a second time.
- `AccountsBehindRows`: as long as calls neither overlap nor fail.
- `SignedInGetTheirPushes`: while the app's calls arrive in order, and Firebase
  knows the token; a sign-out that comes late is harmless.
- `PushesTakeUpWhoIsSignedIn`: a push lists a device only for who is signed in on
  it, while the calls arrive in order.  It reads the list once
  (`notifications/dispatcher.go:33`), so what it listed before a sign-out, a change
  of hands or the deletion of the account is still sent there (`:72-87`).
- `EveryoneIsServed`: unless public lists hold every connection, each waiting
  for a second one.
- `PastSessionsStopSelling`: not at the session's end, but by the job's next run.

*What the violation shows.*  `PaidReservationsHoldNothing`: `UpsertReservation`
accepts the reservation of a paid order (it has not expired, and will not for ten
years), gives it items again and ten new minutes.

*Fairness.*

- `TicketSales`: a webhook that could take effect is delivered at last, and an
  open Stripe session that nobody completes expires.  Stripe promises both, and
  the first needs the server to answer a failed webhook with an error, which
  `events/handler.go:484-494` does.  Weak fairness is enough: what makes a webhook
  effective is not taken away again by anything but the webhook itself, except
  for the stock, and `ChargedOrdersAreSettled` allows for that.  Customers,
  organizers and the cleanup are obliged to nothing.
- `TicketMail`: a request that runs goes on (weak); Stripe delivers again what was
  not answered (strong, since other deliveries may occupy the model's two slots
  again and again; the server has a goroutine for each).  Failures are bounded,
  so a delivery gets through in the end.
- `CheckIn`: requests end, and a token's lifetime does.
- `Catalogue`: the maintenance job runs again and again (`app/app.go:101`).  The
  clock, readers and organizers need not move.
- `DbPool`: a statement that has its connection ends (weak); a connection that is
  returned goes to those who wait, and `database/sql` passes nobody over for ever
  (strong).  No client has to hang up.

## 4. The proofs

| Module | Theorems |
|---|---|
| `TicketSalesProofs` | `TypeCorrect`, `PaidOrdersTicketed`, `LinksRecorded`, `WebhooksFindOrders`, `AgreementWithStripe`, `ReservationsKept`, `ExpiredHoldNothing`, `SettledForGood`, `NoTrace`, `Backed`, `HoldersGetTheirTickets`, `ImplementsLedger` |
| `TicketMailProofs` | `ColumnTypes`, `ClaimsTrue`, `MailsExcused` |
| `CatalogueProofs` | of `Catalogue`: `RowTypes`, `PagesTruthful`; of `DbPool`: `PoolTypes`, `OnlyListingsJam`, `JamsTakeAPoolOfListings` |
| `NotificationsProofs` | of `Announcements`: `RowTypes`, `StaysOrderly`, `BookableAnnounced`, `CancellationWarned`, `OnlyNewsAnnounced`; of `DeviceTokens`: `DeviceTypes`, `OwnPushes`, `TakenUpForTheSignedIn` |
| `CheckInProofs` | `DoorTypes`, `OneAdmission`, `TurnedAwayRightly`, `RemovedStaffStayOut` |
| `AuthSessionsProofs` | `SessionTypes`, `AccountsBehindSessions`, `EndedForGood`, `LogoutsByOwners` |
| `AccountsProofs` | `RowsAreUnique`, `LoginSucceeds`, `RowsAreBacked` |
| `OrganizerAdminsProofs` | `AdminTypes`, `OrganizersBehindAdmins`, `RemovalsAloneAreSafe` |

They hold for any sets of types, reservations, sessions, users, devices and
requests, from the named assumptions of each module: the value for "none" is not
a member of the set it is added to; `Listings` have `0 < max_per_order <= quantity`
(`validateTicketTypeInput`); `Requests` of `TicketSales` are not empty and not
negative; `NoEnd` is later than all times; what is counted or added up is finite
(the rows of `ticket_reservations`, the requests the server handles at once).
Every invariant and every action property that a passing run checks is the
statement of one of these theorems; `LinksRecorded`, `SettledForGood`, `NoTrace`,
`HoldersGetTheirTickets`, `RemovedStaffStayOut`, `LogoutsByOwners`,
`OnlyListingsJam`, `JamsTakeAPoolOfListings` and `StaysOrderly` say more than the
runs ask.

Each follows one pattern: the type invariant first; then, where a property is not
inductive by itself, an invariant that is, with one proof step per action.

- *TicketSales.*  That tickets and orders agree needs nothing but types: status
  and tickets change in one action, guarded by `Payable`.  That the customer's
  session stays the recorded one rests on `NeedsSession`: an order gets a session
  only while it records none.  That an expired order holds nothing needs that its
  hold can lapse no further and that an upsert starts from a hold that has not
  lapsed.  That a deleted type leaves no trace rests on `onSale \subseteq listed`.
  `WebhooksFindOrders` adds `Recording` (an order with a session has a row) to the
  theorems about links and about the agreement with Stripe.
- *Sums.*  `HoldsAreBacked` compares sums over reservations before and after a
  step.  `MapThenSumSet` adds up in an order it chooses by itself, so what the
  proof needs of it (`SumOut`: any element can be taken out first; `SumGrows`,
  `SumSame`, `SumZero`) is induction over finite sets, done here without an
  induction theorem: a set for which it fails would have a least subset for which
  it does (`Least`), and that leads to a contradiction.  Then each action is
  one of three: it only ends or shrinks holds (`EndsBacked`), it grants out of
  what the others leave (`UpsertBacked`), or it sells what its own hold claims
  (`SaleBacked`).  `HoldersGetTheirTickets` turns this into what a customer is
  promised: while every payment is covered by its own hold and no organizer lowers
  a quantity, an order whose hold is live and covers it is in stock.
- *Refinement.*  `ImplementsLedger` maps the actions one by one: ordering is
  `Place`, the paid webhook `Issue`, the expired one `Expire`, the organizer's
  `Restock` and `Withdraw`; everything else is invisible.  `Withdraw` needs the
  foreign key (`NeverOrdered`), `Place` that what is held is listed (`NoTrace`),
  and that it is not nothing.
- *TicketMail.*  `Told` adds to `ClaimsAreTrue` what a delivery past its mail
  knows.  `MailsHaveReasons` is a count, and its invariant `Excused` counts also
  the mails about to be sent: those and the sent ones are at most the excuses, and
  one more as long as a mail is recorded or on its way.
- *Catalogue.*  `Truthful`: what has lasted is shown or still to be read, and
  without an edit what is still to be read has been seen.
- *Announcements.*  `Orderly`: without overlap since the last fresh start, when all
  is quiet everyone has been told, and a call under way is alone and knows what it
  takes to tell them; a fresh start owes nobody anything.
- *DeviceTokens.*  `InStep`, of a device whose calls arrive in order: a
  registration on its way is followed by its sign-out, if by anything, and that by
  the next registration (`Alternating`); the newest call says who is signed in,
  and with no registration on its way the row is theirs already, or is the one
  that the sign-out on its way will remove (`UpToDate`); and no push has been
  refused a token that Firebase knows.  Calls are a sequence from which any element
  may be lost or arrive; the proof needs to look only at a position and its two
  successors.  `SignedInGetTheirPushes` is `InStep` with nothing on its way, and so
  is `PushesTakeUpWhoIsSignedIn`, since only the listing adds to whom a push goes,
  and it adds tokens that are not revoked (`TakenUpAreActive`).
- *CheckIn.*  `Scanned`: no two scans hold the locks of one event, so a ticket
  found unused stays unused until the commit; a ticket was granted as often as it
  was checked in.  `RemovedStaffStayOut` is the half of `RemovedStaffStop` that
  needs no fairness: what a removed user still has comes from what was under way,
  and once that has run out nothing brings it back.
- *DbPool.*  The connections of one request are its first and its second, so a
  step that returns some leaves a subset and one that is handed one adds an
  element; `Borrowing` says that only a public list with an event in hand waits for
  a second.  So a full pool has somebody who goes on, unless public lists hold all
  of it (`OnlyListingsJam`), and that takes as many public lists at once as there
  are connections (`JamsTakeAPoolOfListings`): the map from waiting lists to
  connections is onto.
- *AuthSessions.*  `RequestsCarry`, and the foreign key: the guard of
  `CreateSession` holds when the row is made, not when the account was read.
- *Accounts.*  `Addressed`: a row has the address of its Firebase account until
  somebody is renamed, and what a call has read of Firebase stays true.  For
  `AccountsBehindRows`, `Undisturbed`: a call that is alone sees what is there,
  and an account that it made has no row but its own.
- *OrganizerAdmins.*  A removal whose counted admins are all still there leaves
  one because it counted at least two.

Only model-checked: the liveness properties, which rest on fairness and are out
of the prover's reach: `ChargedOrdersAreSettled`, `AbandonedOrdersExpire`,
`PaidOrdersAreMailed`, `RemovedStaffStop`, `PastSessionsStopSelling`,
`EveryoneIsServed`.  What they need of safety is proved where it can be said
without fairness: `WebhooksFindOrders` for the first two, `ClaimsTrue`,
`RemovedStaffStayOut`, `OnlyListingsJam`.

## 5. Not modelled

- *Admin reporting and CSV, listings of tickets and orders, access
  checks of the catalogue:* they read; no decision above depends on them.
- *Categories:* one statement per operation, and a foreign key that keeps a
  category which has events.
- *Migrations:* a loop over files at start, before anything is served; MySQL
  commits each DDL statement, so a file that stops half-way must be repaired by
  hand.  There is nothing to interleave.
- *Seeding:* `src/cmd/seed-admin`, run by hand, makes an account at Firebase, or
  gives it a password, and a row for it, or makes the row that has the address a
  super admin's with that account's UID and no organizer (`main.go:117-125`).  For
  `Accounts` that is a login with linking; for `CheckIn` it only promotes; an admin
  whose row it promotes leaves the organizer without being counted, like one who
  deletes the profile (`OrganizerAdmins`).
- *Configuration, routing, decoding:* no state of their own.
- *Prices, currencies, titles, addresses, order numbers, PDF and mail layout:*
  data that no decision above depends on.
- *Inside a transaction:* lock waits and InnoDB's deadlocks; the database breaks
  each by rolling one transaction back, which is a stuttering step.
- *int32:* the normalisation of requested items adds up quantities of one type
  (`events/repository.go:1324`); `TicketSales` takes the lists as they are after
  this addition, with natural numbers.
- *Pushes about edits* of sessions and ticket types, on which nothing depends.
