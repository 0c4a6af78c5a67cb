# Verification of the BachNest backend

TLA+ models of the BachNest backend (`src/app`): who gets a room, a seat or a
parking space, how a tenancy ends, who has paid what, whom one may trust and who
is told what. One more model is of a class that the application does not use, the
rate limiter. TLC checks them on small instances; TLAPS proves the safety
properties for instances of every size.

BachNest is a FastAPI application. A request is served by a coroutine with a
database session of its own (`db/session.py`), calls one service, and commits
when the handler returns or rolls back when it raises. Several requests are in
progress at once, in one process or several, so that nearly all interaction
between components goes through PostgreSQL (READ COMMITTED, the default), with
the row locks that a service asks for by `with_for_update()`. A commit updates
the columns that a handler has changed from what it had read. Beyond the database
there are bKash (HTTP calls and a browser redirect) and one piece of process
memory, the WebSocket connections. (The counters of the rate limiter would be
another; nothing installs it.)

## Inventory

| Component (source) | State | Operations | What is hard about it | What makes it correct | Model |
|---|---|---|---|---|---|
| Properties (`property_service`) | `is_published`; owns rooms | create, publish, update, delete | deletion cascades to requests, tenancies, invoices, notices, complaints | no row refers to one that is gone | `Rental` |
| Rooms, seats (`room_service`) | `current_occupancy`, `is_available`, `is_occupied` | create, update, delete | counters kept by other services; deletion against approval | occupancy covers the tenancies, live seats are marked | `Rental`, `RentalTx`, `Lease` |
| Booking requests (`booking_service`) | `booking_status`, `visit_status` | create, cancel, approve/reject, confirm visit, mark visited, pay advance, message | overlapping decisions; checks before and after a lock | a seat is given once, a request decided once, at most one open request per tenant and room | `Rental`, `RentalTx` |
| Tenancies (`tenancy_service`) | `status`, `agreement_status`, signatures | notice, move-out, signature | no lock on the tenancy; rows locked in the other order | ended stays ended, a place is given back once | `Rental`, `RentalTx` |
| Deposit claims (`deposit_service`) | claim `status` | create, settle | a second way to end a tenancy | both ways agree | `DepositClaims` |
| Invoices (`billing_service`) | `total_amount`, `paid_amount`, `status` | create | one per tenancy and month | the ledger balances | `Payments` |
| Payments, mock gateway (`payment_service`) | payment `status`, `amount` | checkout, webhook | repeated and late webhooks | each payment credited once | `Payments` |
| bKash (`bkash_service`, `bkash_gateway`) | `gateway_transaction_id`; session at bKash; token cache | initiate, callback | a remote call inside a transaction, lost answers, redirect before commit | credited only if executed; every request ends | `Payments` (not the token cache) |
| Parking (`parking_service`) | space `is_available`, booking `status` | create, update, delete, book, cancel | one lock among handlers that do not lock; a booking can be cancelled twice | a space is not let twice, and not lost | `Parking`, `Lease` |
| KYC (`kyc_service`) | submission `status`, `is_kyc_verified`, `trust_score` | submit, resubmit, decide | decisions and submissions overlap; two columns for one fact | an undisturbed decision makes the two badges agree | `Trust` |
| Reviews (`review_service`) | `is_public`, `rating`, `trust_score` | create | blind reviews; read-modify-write without a lock | an answer publishes both, none is public before; no update of a score counts twice | `Trust` |
| Notices, notifications (`notice_service`, `notification_service`) | rows, read receipts | publish, delete, read, read all | recipients come from two queries; receipts without a unique constraint | no resident misses a notice | `Community` |
| Complaints (`complaint_service`) | `status`, `resolved_at`, `tenancy_id` | create, update, reopen | refers to tenancies that are deleted; any status after any | resolved ones are stamped, references are the author's | `Community` |
| Emergency, WebSocket (`emergency_service`, `connection_manager`) | connections per user; alerts | connect, disconnect, broadcast, trigger, resolve | the table changes during `await`; a peer that stops reading; broadcast before commit | everybody connected is told, once; only a peer that does not read keeps the alert from being stored | `Broadcast` |
| Rate limiter (`core/rate_limit`; not installed) | timestamps per client and class of route | admit, refuse | a sliding window cleaned only on arrival; whole seconds | `dispatch` admits at most `limit` in any window | `RateLimiter` (the class) |
| Authentication (`auth_service`, `security`, `deps`) | users, tokens | register, login, refresh | duplicate registration; deactivated users | no token for a deactivated user | not modelled |
| Roommates (`roommate_service`) | profiles, messages | upsert, send, list | shows a badge taken from the submission | the badge agrees with the user's | `Trust` (the badge) |
| Users, admin, audit, search, storage, SMS, workers, configuration | | | single-row updates, queries, stubs | | not modelled |

The components meet in these places. A booking that is approved or paid creates a
tenancy and occupies its room and seat (`booking_service` writes the rows of
`room_service` and `tenancy_service`); a move-out gives them back, a settled
deposit does not. Invoices, claims, complaints and reviews hang on a tenancy and
mostly go with it. Notices are addressed through tenancies and bookings. Reviews
and KYC write the same user row. The alert handler calls the broadcast inside
its transaction.

## Modules

| Module | Extends | Models |
|---|---|---|
| `Lease` | | the abstract promise: a thing is let to one at a time |
| `Rental` | | properties, rooms, seats, requests, tenancies, one operation at a time |
| `RentalTx` | `Rental` | the same handlers as overlapping transactions |
| `DepositClaims` | `Rental` | with the claims, the second way out of a tenancy |
| `Community` | `Rental` | notices, receipts and complaints beside the handlers of `Rental` |
| `Payments` | | invoices, payments, bKash sessions |
| `Parking` | | spaces and their bookings as overlapping transactions |
| `Trust` | | identity checks, reviews, trust score as overlapping transactions |
| `Broadcast` | | the connection table, broadcasts and alerts |
| `RateLimiter` | | the class of the sliding-window middleware, which the application does not install |
| `MC...` | its module | instances for TLC: values of constants, which requests overlap |
| `..._proofs` | its module, `TLAPS` | theorems and proofs; `Tenancies_proofs` is about `DepositClaims` and `Community`, `RentalTx_proofs` and `Tenancies_proofs` use the lemmas of `Rental_proofs` |

**`Lease`** is what letting anything promises, with one variable: who has what. A
thing is taken only while nobody has it, so that nobody shares it and it never
passes from one holder to the next without having been free. It is the abstract
specification of seats (`SeatsAreLet` in `Rental`: the holders of a seat are its
live tenancies) and of parking spaces (`SpacesAreLet` in `Parking`: those of a
space are its active bookings).

**`Rental`** is the specification of the rental core: each operation of the
property, room, booking and tenancy services is one action. The rows are
functions from identifiers to records or `NoRow`: `room[r]`, `is_occupied[s]`,
`booking[b]`, `tenancy[b]` (a tenancy is indexed by its booking, whose
`booking_id` is unique). An action's guard is what the handler checks, its
effect what it writes. The writes have operators of their own (`WriteApproved`,
`TakePlace`, `OneMore`...), because `RentalTx` does the checks and the writes at
different moments. Deleting rooms, seats and the property includes the effect of
the foreign keys (`ON DELETE CASCADE`, `SET NULL`).

**`RentalTx`** runs the same handlers as overlapping transactions. A worker is a
session; `Script` lists the statements of each operation in the order of the
code: plain reads, the duplicate check, `SELECT ... FOR UPDATE` of a booking, a
room, a seat, and the final flush and commit (the sessions have
`autoflush=False`, and nothing but reads of what was just written lies between
the flush and the commit, so they are one step). A statement waits for the rows
it `Needs` while another transaction holds them. Rows that a handler has read
are kept with the request (`sawRoom`, `sawTenancy`) and written back later,
stale or not. Transactions may fail a check, crash, or be aborted by the
deadlock detector, and leave no trace then. `Spec` of `Rental` is the abstract
specification that `RentalTx` is checked against, with the database variables
mapped to themselves.

**`DepositClaims`** extends `Rental` with the claims, again with an action per
operation, so that the two ways out of a tenancy meet.

**`Community`** composes with `Rental`: its requests read bookings and tenancies
one statement at a time while `LettingStep`, the handlers of `Rental` that make a
difference to them, goes on in between. A publication reads the tenants of live
tenancies, then those of granted bookings, then writes; a complaint looks up
its tenancy, then writes; foreign keys decide what becomes of a row whose
target has gone (`ComplaintAfter`). `entitled` and `late` are history: what a
property compares the outcome with.

**`Payments`** has invoices, payments and bKash sessions. Its requests are
transactions as in `RentalTx`, with the statements named by `at`. Calls to bKash
are steps inside the transaction whose effect a rollback does not undo. Lock
ownership follows from `op` and `at` (`PaymentLocked`, `InvoiceLocked`). The
customer authorises or cancels a session at any time after it was opened.

**`Parking`** has the flag of each space, the rows of the bookings, and a request
per worker. Booking locks the space until it commits; cancelling and updating
read it without a lock and write, at the commit, what differs from what they have
read (`GivenBack`). That matters: a cancellation that has read `is_available =
TRUE` writes no flag at all.

**`Trust`** has the user rows, the submissions and the reviews. No handler locks
anything, so that every read is a step of its own and `Updated` merges the
changed columns into whatever the row has become. `PublicReviews`, `Verified` and
`ListedVerified` are what others see: the list of reviews, the trust profile,
the badge in the list of roommates. Four history variables record what overlapped
what, so that the properties can say which overlaps they allow for: `seen` (the
reviews there were when a review was sent), `approvals` (how many were committed),
`alone` (the checks that no other check of the same user has overlapped) and `mixed`
(the users whose checks have overlapped, until a decision that overlaps none).

**`Broadcast`** runs in one event loop: the table changes between two sends, at the
`await`. It models Python's iterators: the dictionary in order of insertion
with the check of its size, the list by index, so that a removal before the
index skips a socket and a list that has left the dictionary is still iterated.
A send to a peer that has stopped reading waits until the peer reads again or is
gone (`held`), with no timeout. The alert is committed after its broadcast.

**`RateLimiter`** is one step per request, since nothing is awaited between the
clock and the answer. A counter keeps the admitted requests whose time stamps
are in the list; answers and times are remembered for the properties. It models
the class `RateLimitMiddleware` and not the program: `main.py:42-63` adds
`request_middleware` and CORS and no limiter, and nothing else refers to the class.
A request may therefore pass `dispatch` by (`PassBy`), as every request does today,
and the properties are about those that come to it.

A request that is refused, raises or is cut off leaves no trace in any model of
transactions (`Crash`, `Fail`, `GiveUp`). Operators named `Mut...` are deliberate
mistakes that show each property can fail: with the definition that follows
replaced by it, TLC finds a violation.

## Runs that pass

| Run | Instance | Shows |
|---|---|---|
| `DepositClaims` | 2 tenants, 1 room of capacity 1, 1 seat, 2 requests | all of `Rental` with claims: seats implement `Lease`, live seats are marked, occupancy never undercounts, tenancies for granted requests only, ended stays ended, the two ways out agree, a seat is freed only by the move-out of who lives in it |
| `RentalTxAll` | 2 tenants, 2 requests, 2 workers, all operations on inventory | what row locks do protect when everything overlaps: seats granted while free, requests decided while open, the duplicate check |
| `RentalTxRefines` | 2 tenants, 2 requests, 3 workers | booking handlers overlap with each other and with one session of move-outs and notices, and implement `Rental!Spec` |
| `RentalTxLive` | 1 tenant, 1 request, 3 workers, fairness | the same with visits, signatures and move-outs; every request ends, despite opposite lock orders |
| `Payments` | 1 invoice (total 2 or -1), 2 payments, 2 workers, fairness | the ledger balances, PAID exactly when a payment completed, nothing credited that was not executed, completed is final, payments are opened for the balance, every request ends |
| `RateLimiter` | 4 requests of 2 clients to both classes, 7 ticks, window of 4 | of the class, which is not installed: in no window does `dispatch` admit more than the limit, whatever passes it by; nobody is refused for less; `Retry-After` is enough |
| `Parking` | 2 spaces, 3 bookings, 3 workers | booked only while on offer; no space disappears from both the search and the bookings |
| `Trust` | 1 tenancy, its parties and an administrator, 2 reviews, 2 approvals, 2 workers | with any two reviews, submissions and decisions overlapping: an answer publishes both reviews, none is public before; an undisturbed decision makes the badges agree; scores are explained by reviews and approvals, from both sides |
| `Community` | 1 tenant, 1 room, 2 bookings, 1 notice, 1 complaint, 2 workers | nobody misses a notice, receipts do not multiply later, complaints point to their author's tenancy; resolved ones are stamped, with one request at a time that handles complaints |
| `Broadcast` | 3 sockets of 2 users, 1 alert, fairness | the table is the open sockets, nobody is told twice, an undisturbed broadcast reaches all; only a peer that never reads again holds up a request for ever |

**Bounds.** Two requests and one seat are the smallest instance in which anybody
competes: the exclusions are about pairs of requests for a seat, a room, or by
one tenant, and the room has a single place so that the second request is
already one too many. Properties of a room do not depend on other rooms, nor
those of an invoice on other invoices, of a complaint on other complaints, of
an alert on other alerts. Two workers give every overlap of two handlers; the
refinement runs and `Parking` have a third, so that a handler overlaps with two
that overlap (a booking between two cancellations). In `Community` one worker
serves notices and both read them, which is what a second receipt takes. Two
bookings of one room give its tenant an old and a new tenancy. Two reviews may be
those of both parties, or one by an administrator, whose review answers nobody's,
with one it answers; two workers, each of which serves all operations of `Trust`,
give every overlap of two, and two approvals a score that is raised twice, once too
often, or not at all. Three sockets of two users give a list of two, a list that comes or
goes while the other is iterated, and a user who reconnects. Four requests
exceed the larger limit of two by two, and seven ticks are nearly two windows, so
that requests are refused, wait, and come back. A rating of 1 or 5 is the
largest change of the score in either direction.

An identifier is free again once its row is deleted, so that behaviours are not
bounded in length: rooms fill, empty and disappear without end. Nothing is counted
without a bound except `current_occupancy`, which at most grows by two per request
that exists and is paid after its approval. `MaxTime` bounds the clock of
`RateLimiter`, `MaxLists` the lists ever made in `Broadcast` and `MaxApprovals` the
approvals of one user in `Trust`, where the decisions that are made are APPROVED and
REJECTED (`Decisions`; the schema admits any status, and so do the theorems). An invoice total of
-1 stands for adjustments that exceed the rent, which `InvoiceCreateRequest` permits:
such an invoice is still ISSUED when it is created. The identifiers of payments,
reviews and notices are used once. `OwnerMay` are the values of `is_available`
that owners set by hand: `NoSpaceLost` is about owners who only put spaces back on
offer, as one who withdraws a space means to hide it.

**Fairness.** `RentalTxLive` assumes strong fairness of each worker's next step
and weak fairness of the deadlock detector. A coroutine that is not waiting is
resumed by the event loop; PostgreSQL queues the waiters for a row, so that one
whose row becomes free again and again is served in turn, which is strong and
not weak fairness; the deadlock detector runs after `deadlock_timeout`.
`Payments` assumes the same of its workers: calls to bKash have a timeout of 30
seconds (`httpx.AsyncClient(timeout=30)`), after which `SessionFails` or
`ExecuteFails` is the step that is taken. `Broadcast` assumes strong fairness of each
alert's next step: the event loop resumes a task that can go on, and a send that
waited for its peer is woken when the peer reads, and goes on even if the peer stalls
again before the task has run. That a stalled peer reads again is not assumed, so
that `OnlyStalledHoldsUp` has to make an exception for it, and the code has no timeout
that would do without. Nor is the arrival of requests fair, nor the customer, nor the
resolution of an alert.

Three runs switch deadlock checking off, because the instance is used up, not
because anybody waits: `Payments` once the tenancy has ended without an invoice,
`RateLimiter` when all requests have arrived and the clock has reached `MaxTime`,
`Broadcast` when every socket is closed and every alert lost.

**What the refinements say, and where they stop.** Three relations are checked:
the handlers of `Rental`, also with `DepositClaims`, implement `Lease` for seats;
overlapping transactions of `RentalTx` implement `Rental`; and `Parking`
does not implement `Lease` (see below). `Rental` is the specification one would
want of the overlapping handlers. They implement it only as long as the
operations that read without a lock do not overlap with others of their kind,
hence the sessions of `AllowOneTerminator` and `AllowPaperwork` which serve those
one at a time. The overlaps left out there are not harmless:

- a cancellation against an approval or a payment (`booking_service.py:183`: the
  cancellation reads without a lock and writes CANCELLED over the approval, while
  the tenancy and the occupied seat remain);
- move-outs against each other (`tenancy_service.py:67`: both find the tenancy
  live, and the second releases the seat again, under its next tenant);
- notices against move-outs (`tenancy_service.py:55`: a late notice makes an ended
  tenancy NOTICE_SERVED again, with its seat free);
- signatures against each other (`tenancy_service.py:169`: one is lost);
- deletion of a room against an approval (`room_service.py:90`: the check that
  nobody lives there and the deletion are two statements, and the deletion
  cascades to a tenancy that was created in between).

`RentalTxAll` includes all but notices, visits and signatures, and shows what
remains true even then.

`Trust` restricts no overlap: its properties say what they allow for. `Community`
passes with one worker that handles complaints; what happens when two overlap is
said below.

## Disagreements found

Two runs look for a violation and find it; both are listed under `findings`.

- `ParkingLease`: `cancel_parking_booking` does not look at the status of the
  booking (`parking_service.py:267`). Cancelled a second time, it puts the space on
  offer although somebody else has booked it since, and it is let to a second
  booking. No overlap of requests is needed. What survives this is
  `BookedWhileAvailable` and `NoSpaceLost`.
- `TrustOverlap`: two reviews of one tenancy that are submitted at the same time
  do not see each other, and both stay hidden for ever
  (`review_service.py:61`).

Other behaviour seen while modelling, that no run is spent on.

Rooms and tenancies:
- an approval checks the seat but neither `is_available` nor `total_capacity`, so
  that a room with one place is let to two tenants one after the other
  (`booking_service.py:228`);
- a request for a room as such that is approved and then paid counts two
  occupants, and the move-out gives one back (`booking_service.py:360`,
  `tenancy_service.py:66`);
- a payment made after the move-out occupies the seat for nobody
  (`booking_service.py:340`);
- a settled deposit ends the tenancy without releasing the seat, and the move-out
  is refused from then on (`deposit_service.py:119`); two claims that overlap both
  find none, and from then on `scalar_one_or_none` raises for that tenancy
  (`deposit_service.py:47`);
- deleting an occupied seat leaves its tenant without one (`room_service.py:150`).

Money:
- a payment that has failed is completed by a later webhook, although the comment
  above the check says that it is final (`payment_service.py:71`);
- several open payments of one invoice may all complete (`payment_service.py:36`),
  after which it is overpaid, and the ledger says so;
- a bKash payment that is executed but whose answer is lost is never credited, as
  nothing calls `query_payment` (`bkash_service.py:79`);
- the payment of a repeated callback is not found because its
  `gateway_transaction_id` was overwritten (`bkash_service.py:90`).

Trust:
- an administrator's review, which is always of the tenant, counts as the answer
  to the tenant's: both become public although the owner has not written any
  (`review_service.py:32`);
- a hidden review already changes `trust_score`, by which its content shows;
- approving a submission again adds 20 to the score each time (`kyc_service.py:112`);
- of two overlapping updates of a score one is lost, for the better or the worse of the
  user: a bad review may leave the score as it was, and so may an approval
  (`review_service.py:71`);
- a resubmission that has read REJECTED and commits after an approval writes PENDING
  over APPROVED (`kyc_service.py:72`), although an approved submission "cannot be
  resubmitted" (`kyc_service.py:70`): `is_kyc_verified` is TRUE then and the status
  PENDING; `submit_kyc` does the same (`kyc_service.py:41`). Overlapping decisions of two
  administrators can leave `is_kyc_verified` TRUE with the status REJECTED, and a further
  overlap FALSE with APPROVED. The next decision that overlaps no other check makes
  them agree again; a decision accepts any status;
- `create_review` speaks of a completed tenancy but does not check its status.

Notices, complaints, alerts:
- tenants who have moved out, and whose booking stays DEPOSIT_PAID, are still
  entitled to notices, though the endpoint speaks of where the tenant "currently
  resides in" (`billing.py:320`);
- two readings of a notice that overlap leave two receipts, and every later one
  raises (`notice_service.py:144`);
- a tenant who comes back to a property has two tenancies there and can file no
  complaint: `scalar_one_or_none` raises (`complaint_service.py:33`);
- `resolved_at` stays on a complaint that is moved on from RESOLVED by
  `update_status`; a reopening that overlaps with a resolution can leave it
  RESOLVED without one;
- a broadcast that is disturbed misses open sockets: it stops at the first dead
  one and when the dictionary changes size, and skips one when an earlier one of
  the list is removed (`connection_manager.py:36`). An endpoint that ends with
  an exception other than `WebSocketDisconnect` leaves its socket in the table;
- the alert is broadcast before it is committed and to every socket, while the
  endpoint speaks of emergency contacts and the owner (`billing.py:443`); if the
  request is lost then, clients have an alert that does not exist. The resolve
  endpoint admits owners, whom `get_emergency_by_id` refuses;
- `send_text` has no timeout (`connection_manager.py:36`): one peer that stops reading
  holds up the broadcast, everybody behind it, and the transaction of the alert, for as
  long as it stays connected.

Rate limiter:
- `RateLimitMiddleware` is described as the "rate limiter middleware for BachNest API"
  with 60 requests per 60 seconds and fewer for logins (`rate_limit.py:1-31`), and no
  code installs it (`main.py:42-63`): the program admits requests without limit.

## Proofs

Eight modules hold theorems, for all values of the constants that satisfy the
named assumption of the module. Nearly every invariant and action property that a
passing run checks is proved, and so are the refinements that hold; what stays
with TLC is named at the end of this section.

**`Rental_proofs`**, for any number of tenants, rooms, seats and requests, any
assignment of seats to rooms and any capacities (`RentalAssumption`: seats belong
to rooms, capacities are positive as `RoomCreate` demands, and `NoRow` and
`NoSeat` are not values of another kind):

- `SeatInvariant`: `Spec => []SeatInv`, and from it `TypeCorrect`,
  `SeatsAreExclusive`, `LiveSeatsAreMarked`, `TenanciesAreGranted`;
- `OpenRequestsAreUnique`: `Spec => []OneOpenRequest`;
- `EndedTenanciesStayEnded`: `Spec => EndedStaysEnded`;
- `OccupancyCovers`: `Spec => []OccupancyCoversTenancies`;
- `RentalImplementsLease`: `Spec => SeatsAreLet`, that is, `SeatLease!Spec`.

`SeatExclusive` alone is not inductive. An approval gives out a seat because its
flag says that it is free, so the flags must be right: `LiveSeatOccupied`. A
move-out clears the flag of the tenant's seat, which is right only because
nobody else has that seat: `SeatExclusive` again. And both follow `seat_id`
through requests that seat and room deletion rewrites, which takes `ForeignKeys`
and, since a tenancy borrows its seat from its request, `TenancyIffGranted`. The
conjunction `SeatInv` of these is inductive (`InitSeatInv`, `NextSeatInv`), with
one lemma per conjunct and group of operations. `NextOneOpen`, `NextEnded` and
`NextLeases` rest on it: for the refinement a step either grants, and then takes
one free seat (`GrantTakes`), or lets nobody in (`QuietReleases`,
`OthersRelease`). The same division serves the occupancy: a grant adds one tenant
and at least one to the count, everything else but a move-out leaves the count
of a room that stays (`RoomCovers`), and a move-out takes one from both, unless
the count is at zero, when nobody lives there.

**`RentalTx_proofs`**, for any number of sessions as well, each of which may serve
any operations (`TxAssumption`):

- `TxInvariant`: `TxSpec => []TxInv`, and from it `TxTypeCorrect`, `TxForeignKeys`;
- `TxOpenRequestsAreUnique`, `SeatsAreGrantedWhileFree` and
  `RequestsAreDecidedWhileOpen`: what the row locks protect, whatever overlaps;
- `CalmRequestsAreSerial`: `ASSUME Calm PROVE TxSpec => Spec`, the refinement of
  `Rental`, and from it `TxSeatsAreExclusive` and `TxOccupancyCovers`.

`TxInv` says of each request in progress which rows it names (`Matches`), which of
them it has locked by now (`Locks`) and what it has checked of them (`Knows`), and
of two requests that their locks and the rows they are about to insert differ
(`Apart`). A commit writes only rows that its transaction has locked, or that
are in nobody else's hands (`Writes`, `CommitWrites`); hence what the others know
of theirs stays true (`OthersKeep`), in one lemma for all pairs of operations.
`Calm` is the condition of the runs `RentalTxRefines` and `RentalTxLive` in general
form: no cancellations and no deletions of rooms, and notices, move-outs and
signatures by one session. The invariant is then strengthened by what is known of
the tenancy that was read without a lock (`Remembers`), and a commit is the step of
`Rental` whose checks were made earlier (`CalmCommits`). The overlaps listed above
are counterexamples to anything stronger.

**`Tenancies_proofs`** is about what hangs on a tenancy.

- `DepositClaims`: `ClaimInvariant`, `ClaimsKeepTenanciesGranted`,
  `ClaimsKeepSeatsMarked`, `ClaimsKeepRoomsCovered`, `ClaimsKeepEndings`, `ClaimsEnd`,
  `SeatsAreFreedByMoveOut`, and `ClaimsImplementLease`: `ClaimSpec => SeatsAreLet`. A
  step is one of `Rental`, for which the lemmas are there, or changes one claim
  and the status of its tenancy (`ClaimSteps`). `SeatInv` is still inductive, since a
  settlement lets nobody in; the room it leaves counted is why the occupancy
  covers the tenancies and does not equal their number.
- `Community` (`CommunityAssumption`: finitely many workers): `CommunityInvariant`,
  `CommunityTypeCorrect`, `ComplaintsAreOfTenants`, `ResidentsAreNotified` and
  `LateReadingsLeaveNoReceipt`. The letting goes on by
  steps of `Rental`, so that `SeatInv` holds; over it, `Fine` says what the later
  statements of a request rely on. For `ResidentsAreNotified` that is: each
  booking that entitled its tenant when the publication began is granted as long
  as it exists, so that the second query finds those whom the first has missed.
  `CommunityTypeOK` bounds the receipts by the number of workers; the bound that is
  inductive counts the receipts a user has together with the readings that have
  found none.

**`Payments_proofs`**, for any number of invoices, payments and overlapping requests
and any totals (`PaymentsAssumption`): `Inductive`, `TypeCorrect`, `PaidMeansPaying`,
`CreditNeedsExecution`, `CompletionIsFinal`, `OpenedForBalance`, `LedgerIsKept`. A
request that has locked a row still knows what it has read of it (`Fine`), and no
two have the same row (`Apart`). It follows that nothing is ever paid in part:
every payment is for the whole total (`Rows`), and an invoice is ISSUED with
nothing paid, or PAID (`Booked`). The ledger is a sum over a finite set, which
the community modules define by a fold; that it does not depend on the order,
and that completing one payment adds its amount once, are lemmas of this
module, proved by a smallest counterexample.

**`Trust_proofs`**, for any number of users, tenancies, reviews and overlapping requests
(`TrustAssumption`: the parties of a tenancy are different people, as
`create_booking_request` sees to at `booking_service.py:35`): `TrustInvariant`,
`TypeCorrect`, `BlindWindowHolds`, `AnsweredReviewsArePublic`, `ScoresAreExplained` and
`BadgesAreRepaired`, all of them whatever overlaps. Reviews and submissions are never
deleted and approvals are counted, so that what was read of them stays true as a
bound (`Fine`): a score that is written from an old one is still within what the
reviews and approvals of now explain, and an opposite review that was there when
a request came in is the one it has found. For the badges what was read must be exact:
a check that has overlapped no other of its user knows the submission as it is and
the badge as it is (`CheckNow`), whatever is done meanwhile to the score; the
columns that its commit leaves out are then those that were right already. That two
reviews sent at the same time do not publish each other is `TrustOverlap`.

**`Parking_proofs`**, for any number of spaces, bookings and overlapping requests
(`ParkingAssumption`: `NoRow` is not a value of another kind):
`NoSpaceLostAlways`, `BookedWhileAvailableAlways` and `TypeCorrect`. `NoSpaceLost` is
not inductive because of cancellations under way: one that has read the space as
available will cancel its booking without giving the space back. The invariant
(`Witnessed`) therefore says that a space that is not on offer has an active
booking which every cancellation of it under way has read as closed
(`SeenClosed`), so that whichever of them commits, opens it. `Requests` relates
what a request has read to where it is, and says that nobody else is about to
insert a row of the same identifier.

**`Broadcast_proofs`**, for any number of sockets, users, alerts and lists, without an
assumption: `BroadcastInvariant`, `TableIsConsistent`, `NobodyIsToldTwice` and
`CalmBroadcastsReachAll`. A connected socket has one place (list and index) in the
table, and nothing else has (`Places`); a change of the table moves a socket only
towards the front of its list (`Shifts`). So what lies ahead of a broadcast lay
ahead before and has not been told (`Fresh`); a socket can slip from ahead to
behind, which is how one is missed, but not back. When nothing changes, none
slips (`Behind`). A peer that stalls stays in its place, and a broadcast that waits for
it has told it already; if nothing disturbs, it does not end by an exception either
(`WaitInv`).

**`RateLimiter_proofs`**, for any limits, window, ticks per second and finite set of
requests, of which any may come to `dispatch` or pass it by (`LimiterAssumption`):
`DispatchAdmitsAtMostLimit`, `RefusedOnlyAtLimitAlways`, `RetryAfterSufficesAlways` and
`TypeCorrect`. They are theorems about the class; the program, where all requests pass
it by, they do not limit. The invariant adds to the properties
what the lists contain (`Stamps`): every admitted request that is still in the
window, and nothing but admitted requests. Then what is kept is exactly what lies in
the window that ends now (`KeptExact`), and a window in the past is contained
in what was checked when its last request came. For `Retry-After`, `RetryInv` says
that a refusal names a time by which its oldest witness has left; the division that
rounds down is undone by the added second (`RoundedUp`).

Only model-checked: liveness (`EveryRequestEnds` of `RentalTx` and of `Payments`,
`OnlyStalledHoldsUp`), which, with fairness and ENABLED, is out of reach of the
proof system; and `ResolvedStamped`, which holds only where complaints are handled one
request at a time. `SpacesAreLet` and `BothPublic` do not hold, and have runs that show
it. `TypeOK` of `Broadcast` bounds a list's index by the number
of sockets; the proofs do without that bound.

## What is not modelled

- Authentication (hashing and signing are library code; the registration race is
  decided by a unique constraint), users, administration and audit (single-row
  updates), search (queries and floating-point geometry), storage, SMS, background
  workers (stubs), configuration, logging, routing. Migrations, scripts and tests
  were read for constraints and initial states.
- The token cache of bKash, whose validity is a matter of real time.
- `append_message`, `update_property`, `update_seat`, media, the upsert of a roommate
  profile and the messages between roommates: nothing modelled reads them.
- `update_notice`, `send_personal_message` and `query_payment`, which nothing
  calls.
- Who may call what: every operation has callers that the code permits, and the
  models take one of them. Tenants are users other than the owner, who may not
  request his own room. `Trust` keeps the callers, as reviews depend on them.
- Notifications other than those of notices, which handlers insert in the same
  transaction and nothing reads.
- Rents, deposits, rates and dates. Amounts of deposit claims: deductions are at
  most the deposit, the refund is the rest. Parking may be booked for dates, but
  the flag that is checked knows no dates, and neither does the model.
- Statuses that no code sets: ACTIVE and COMPLETED of a booking, EVICTED, DRAFT
  of an agreement, DRAFT, OVERDUE and CANCELLED of an invoice, REFUNDED, and all
  of a claim but REQUESTED and SETTLED. Webhooks with PENDING or REFUNDED change
  nothing.
- `RentalTx` has a published property and neither publishes nor deletes it, nor
  creates rooms, creates or deletes seats or updates a room; these run one at a
  time in `Rental`. Deposit claims do not overlap.
- Invoices are not deleted with their tenancy in `Payments`, nor tenancies with
  their reviews in `Trust`, nor users.
- The publication of the property of a parking space: neither search nor booking
  of parking looks at it.
- The seeds of `seed_properties.py` with seats that are occupied by nobody the
  system knows; `Init` is an empty database or one seeded as by
  `seed_demo_data.py`.
- The size of the connection pool; several processes with connection tables of
  their own, each of which is as modelled.

## Plan

Done: the models of the table above and the proofs of their safety properties. Left,
in this order:

1. Deposit claims as overlapping transactions; the token cache of bKash;
   registration and deactivation.
2. The converse of `Calm`: which of its conditions each property of `Rental` needs,
   one hypothesis at a time.
