# A formal model of chatea-conecta

TLA+ modules of the parts of this application where order, concurrency and
failure decide what is right: billing by webhooks, checkout and invoice
e-mails, the private chats on the server and on the page, the nicknames of
guests and accounts, the rate of messages, and the bots. TLC checks them on
small instances; TLAPS proves the main safety properties for every value of the
constants. Every definition is translated from `src/`;
`PROJECT.json` ("map") names the lines each one stands for.

## 1. The system

A Django application: HTTP views and a Channels WebSocket consumer run in ASGI
server processes, Celery workers run tasks, MySQL keeps accounts and
subscriptions (no `ATOMIC_REQUESTS`; a transaction is only where the code opens
one), Redis keeps everything about guests, presence, private chats and bots, and
is also the channel layer and the cache. Stripe is outside.

| Component | State | Operations | Met by | Hard because |
|---|---|---|---|---|
| **Webhook ledger** `subscriptions/services/webhook_handlers.py` | one `StripeWebhookEvent` per event: status, attempts | store, claim, dispatch, record, answer | Stripe's deliveries, one web worker each | duplicate and overlapping deliveries, exceptions, workers that die, retries |
| **Subscription row** `services/user_subscription.py`, `webhook_handlers/` | the `UserSubscription` of a customer | five handlers: fetch, row-locked transaction, e-mail after commit | the ledger, the Stripe API, the e-mail queue | events out of order, data read before the lock, two subscriptions of one customer, failure after the commit |
| **Cancellation** `cancel_user_subscription` | the same row, without a lock | check, ask Stripe, save two fields | the webhooks, the Billing Portal, other tabs | a stale copy is saved last |
| **Private chats** `chat/consumers.py`, `services/private_chats.py`, `services/actions/` | per socket: rail, closed chats, joined groups, channel; in Redis: a hash of chats per user, presence markers | connect and restore, register, invite, be invited, close, partner offline, heartbeat, disconnect | other consumers through groups, Redis, expiry | awaits inside a handler, events that wait in a channel, dropped events, dead processes, TTLs |
| **Private chat access** `services/subscription_access.py` | none (reads the row) | is this user capped? | invites, subscription row | past due keeps Pro everywhere but here; the row may change while a socket lives |
| **Invoice e-mails** `tasks/`, `services/invoice_notifications.py` | `StripeInvoiceNotification`: pending, sent, failed | queue, send, retry, record | handlers, Celery | several events for one invoice, check-then-send, retries, lost enqueue |
| **Checkout** `create_pro_subscription.py` | customer id, idempotency window | lock, create or reuse the customer, create or reuse a session | Stripe, the row, other tabs | concurrent requests, window boundary, deaths on either side of Stripe's answer |
| **Guest identity** `services/guest_session.py`, `register_user.py`, `views/chat.py`, `users/views/` | signed token, nickname mapping with a TTL, set of active names, accounts | issue, claim, refresh, revoke, sign up, log in, enter, leave | pages, login, logout, the consumer | SET NX then GET, expiry between, old tokens, accounts that write the same keys unasked |
| **Message rate** `actions/send_message.py` | a counter in the cache | add, increment, refuse | sockets of one user | add and increment are separate, the increment is a read and a write; a socket that is closed takes the presence marker of the others along |
| **Bot messages** `services/bots/`, `tasks/` | cached bots and messages, marks of sent ones | load, select, mark, send | Celery beat, several workers | clear before store, check-then-mark, overlapping ticks, expiry of one key and not another |
| **Browser client** `static/js/` | the rows of the rail, the partners' groups | click, close a row, take a frame, load the page again | the consumer | two ordered streams of frames that cross; a denial that names no request; names that depend on who invites |

The dispatch table, payload validation, the thin Redis services, forms, pages,
admin and the data import keep no state of their own between two steps
(`PROJECT.json` lists each).

How they interact: Stripe emits events and answers retrievals; a web worker
stores and claims an event in the ledger, runs a handler that may ask Stripe
again, writes the row under `SELECT ... FOR UPDATE`, queues an e-mail after the
commit and records the outcome. The cancellation view changes Stripe and the
same row. The chat decides from that row, when a socket connects and when it
invites, whether the user is capped. Consumers never call each other: they send to
groups, and each consumer handles the events of its own channel one at a time.

What makes each component correct:

- *ledger*: one handler run at a time per event, none after it is closed, a 200
  only for what was claimed, every event settled in the end while workers live;
- *row*: never more Pro time than Stripe granted for the subscription the row
  names, rebound only by a checkout, equal to Stripe once in-order events are
  settled, every charged customer told, and everybody whose subscription ended;
- *cancellation*: never brings a superseded subscription back;
- *private chats*: nobody but the two participants is in a private group,
  everything on the rail can be heard, a closed chat stays closed, the free
  ceiling holds at the moment of the join;
- *invoice e-mails*: the customer hears of every invoice, no more than once but
  for e-mails whose record was lost and tasks that overlap;
- *checkout*: one Stripe customer, to whom every session belongs, and nothing sold
  to somebody who is already Pro but by requests that were past the check;
- *guest identity*: an id is of one browser and one nickname, and two guests are
  not in the room under one nickname; an account's name goes to nobody else;
- *rate*: an identity sends little more than eight messages while the counter
  lives, is never closed for messages it did not send, and is not shut out for
  good;
- *browser client*: once page and consumer have nothing left to tell each other,
  what counts against the ceiling can be seen, what can be written to is
  joined, what was closed stays closed;
- *bots*: a marked message is not repeated, the cache holds what was loaded until
  its keys run out, the bots come back after anything that expires or dies.

`PROJECT.json` ("hazards") lists what is hard to test at the line where it bites.

## 2. Modules

```
EventClaim  <== implemented by ==  WebhookLedger         SubscriptionRow
                                    /          \               /
                    InvoiceNotifications        StripeWebhooks
                                                      |
                                                Cancellation

PrivateChats      Checkout      GuestIdentity      MessageRate      BotMessages
     |
PrivateRail

WebhookLedger_proofs  <--  Billing_proofs             (StripeWebhooks and Cancellation)
                      <--  InvoiceNotifications_proofs
PrivateChats_proofs   (PrivateChats and PrivateRail)
Checkout_proofs   GuestIdentity_proofs   MessageRate_proofs   BotMessages_proofs
```

**EventClaim** is what the ledger promises: an event is free, held by one
worker, closed, or lost with a dead worker.

**WebhookLedger** is `handle_stripe_webhook_event` and the view around it.
`ledger` is the status column, `acked` the events Stripe has a 200 for, `at` and
`job` the statement each worker has reached. Each database statement is one
action: `Receive` (`get_or_create`), `Claim` (conditional UPDATE and its row
count, with the 200 for an event that is not claimable), `Ignore`,
`HandlerReturns` / `HandlerRaises`, `RecordProcessed`, `RecordFailed` (and raise:
a 500). `Crash` loses the worker between any two of them. An event in
`Overlapping` may be redelivered before the earlier delivery was answered.

**SubscriptionRow** holds the five synchronisations as operators from a row and
a Stripe snapshot to the next row: status mapping, binding rule,
current-subscription check, unreadable periods. `Pro` and `Access` are what the
application and the chat's ceiling ask of the row.

**StripeWebhooks** puts both together with Stripe. Stripe's part is external:
subscriptions that are paid, renewed, overdue, cancelled and ended, and the
events emitted with each change. `checkout` and the two invoice handlers retrieve
the subscription when the handler runs (`BuildDTO`), `updated` and `deleted` use
the object inside the event. `Commit` is the whole row-locked transaction,
`Enqueue` the task queued after it, `Fails` an exception before, between or
after, `Dies` a crash.

**Cancellation** adds the view's request: `CancelBegins` reads and checks the
row, `CancelScheduled` changes Stripe (which emits an event), `CancelSaves` is
`save(update_fields=...)` onto the row as it then is, `CancelAborts` a
`StripeError` or a death. Its run composes everything that touches the row:
handlers, failures, Stripe, and the request. (The request's variables are declared
in StripeWebhooks, whose steps leave them alone, so that the two next-state
relations join without a frame around one of them.)

**PrivateChats** is the consumer's private-chat life. `chats` is
`consumer.private_chats`, `closed` is `closed_private_chats`, `groups` the private
groups of the channel, `inbox` the events waiting in it, `stored` the Redis hash,
`online` the presence markers. A connection has two steps (`Opens`, `Restores`), an
invite three (`InviteChecks`, `InviteJoins`, `InviteTells`), because other sockets
run at the awaits between; a disconnect has two (`Leaves`, `Gone`). A socket
handles one event at a time, as the Channels dispatcher does, so every handler
needs `conn = "idle"`. A full channel drops what comes (`Queued`); processes die
(`Dies`), markers and hashes expire.

**PrivateRail** extends PrivateChats with the page of one of its sockets. `rail` is
the list of rows (each with its conversation, found by the group's name, the first
of several), `mapping` is `_privateChatsMapping`, `toServer` and `toBrowser` are the
frames under way. `Clicks`, `ClosesRow` and the `Shows...` actions are the page's
handlers; `ReadsInvite`, `ReadsClose`, `ReadsRegister`, `RestoresRail`, `InvitedBy`,
`ToldOffline` and `Relays` the consumer's, each the step of PrivateChats with the
frames it takes and sends. The other users are an environment that comes, goes,
invites, writes and returns in groups it can be in (`theirs`).

**MessageRate** is the messages of one identity through its sockets. The counter is
external: `add` is one command (`Sends`), `aincr` is a get and a set (`Gets`,
`Sets`), as Django's Redis cache inherits it, and the set writes the cache's
default timeout (300 s, `CACHES` names none) where `add` wrote the window's 5 s. A socket
that is over the limit is closed, and its `disconnect` deletes the presence marker
(`Gone`) which the heartbeat of another brings back.

**InvoiceNotifications** extends the ledger with the notification row of one
invoice, of which several events may tell. `Commit` is what a handler's
transaction does to it, `Enqueue` the `.delay` of `on_commit`; a task `Starts`
(reads the row), the e-mail goes (`MailGoes`) or raises (`MailRefused`), and the
status is written in a step of its own (`RecordsSent`, `RecordsFailed`). A task
that raises goes back to the queue with one retry less (`Retries`); a process that
dies takes its task along (`TaskLost`).

**Checkout** is `create_pro_checkout_session` in several requests. `Locks` checks
the row under its lock, `CreatesCustomer` asks Stripe under a key of the user,
`SavesCustomer` commits and `RollsBack` does not; `Asks` computes the window's
key and `StripeSession` is Stripe's side of it, which may have acted although the
request fails. Time is the number of the window.

**GuestIdentity** is the chat page, signup and login, the handshake, the disconnect
and the logout as sequences of Redis commands. `owner`, `named` and `active` are the
three kinds of keys; `Submits` is a new nickname, `Visits` and `Revisits` the page
with a token (SET NX, then GET), `Registers` and `Becomes` the writes of
`register_user_on_redis`, `Handshakes` and `Accepts` the same claim by a socket. An
account (`SignsUp`, `LogsIn`, `VisitsAccount`, `HandshakesAccount`) writes the same
keys under its user name and claims nothing; its primary key is an id no guest gets.

**BotMessages** is the beat's tick in several Celery processes: the flag is
checked (`Starts`), the cache is loaded command by command (`Clears` to
`SetsFlag`), a bot is picked, a message selected, marked and sent. The operator may
drop the flag or take the bot status from a user. Every cached key runs out on its
own, in the order in which the timeouts were set (`due`, which keeps for a key the
keys that go no later: the timeouts are equal). The flag comes last, so it outlives
the bots it stands for by as long as the load took; in that time no tick reloads.

An `MC...` module names the constants for TLC and defines the symmetry.

## 3. What the runs check

| Run | Instance | Shows |
|---|---|---|
| `ledger` | 3 events (one whose deliveries overlap, one of an unknown type), 2 workers, 2 crashes, 3 exceptions, fairness | `HandlerExclusive`, `TerminalIsFinal`, the refinement `ClaimedOnceAtATime`; a 200 means settled or lost with a dead worker (`AckedIsSettled`); every event is closed in the end, or lost with a worker (`EverySettled`) |
| `billing_race` | 2 subscriptions, 2 workers, 5 events in any order, unreadable periods | `EntitlementBacked`, `OnlyCheckoutRebinds`; a processed payment has its receipt queued whatever overtook it (`ChargedGetsReceipt`) |
| `billing_in_order` | 2 subscriptions, 1 worker, 6 events in order, 1 exception, 1 death, a cancellation request | the settled row says what Stripe says (`RowAgrees`); of several purchases the latest checkout rules (`LatestCheckoutRules`); the chat's ceiling follows the subscription, whatever is saved late (`AccessFollowsStripe`); `CancelNeverRebinds`; the end of the subscription bought last is told by e-mail, also after a failure between the commit and the queue (`EndIsTold`) |
| `mails` | 2 events of one invoice, a web worker, 2 Celery processes, one retry; 1 exception, 1 failed statement, 1 death | `MailsBounded`, `EndedMeansTold`, the types (`NoticeTypeOK`, with those of the ledger), and no row stays PENDING (`NoticeResolved`) |
| `checkout` | 2 requests, 4 windows, one key Stripe forgets | `OneCustomer`, `SessionsOfTheCustomer`, `LateSales` |
| `nicknames` | 2 browsers, one with two tabs, one name, 2 ids, an account of that name | `IdsNameOne`, `OpenIsReserved`, `AccountNamesAreClosed`, `OneGuestPerNick` |
| `bots` | 2 bots, 1 message, 2 topics, 2 processes, 1 change, 1 death | `RepeatsBounded`; after a load that no other overlapped the cache has exactly its bots until their keys run out, which they may do under the flag, the users to pick from before their names (`LoadedIsCached`); the bots come back (`BotsComeBack`) |
| `chats_pair` | two users with a socket each, a bot, ceiling 1, channel of 1 | `PrivateGroupsArePrivate`, `RailIsJoined`, `ClosedNotStored`, `CeilingAtInvite` |
| `rail` | one tab of a free user, a partner, a bot, ceiling 1, one frame each way, one waiting notice, 2 rows | `CountedIsKnown`, `WritableIsJoined`, `ClosedStaysClosed`, once page and consumer have told each other all; the types (`RailTypeOK`, with those of PrivateChats) |
| `rate` | 2 sockets, limit 3, 7 messages, fairness | `CountedWereSent`; n sockets lose so many of each other's counts that choose(Limit + n - 1, n) messages pass, and never more (`LetThrough`); the counter of a user who stops goes (`LimitLifts`); who is connected is seen online again (`MarkerFollows`) |

Two runs end in a counterexample, each a promise of the repository the code
does not keep:

| Run | Promise | What happens |
|---|---|---|
| `ledger_lost_retry` | an exception makes Stripe retry (`docs/ai-context/04-features-and-workflows.md:140`) | a second delivery meets the first at work and is answered 200 (`webhook_handlers.py:53`); the first then raises. The event is FAILED, Stripe owes nothing |
| `chats_reopen` | reopening lands in the original group (`private_invite.py:83`) | the partner's disconnect pops the closed chat from the rail with its group; the reopening names a new one |

Other behaviour that differs from what a reader may expect, met while modelling
and described here without a run of its own:

- *Events out of order.* `sync_user_subscription_from_stripe` compares ids only, so an
  `updated` event handled after the deletion writes the ended subscription active
  again (`user_subscription.py:274`); `RowAgrees` is stated of events handled in order.
- *A late cancellation* may leave `cancel_at_period_end` set that the user has since
  resumed in the Billing Portal, or write the period of another subscription;
  hence `saved` in `RowAgrees` and `AccessFollowsStripe`.
- *The rate window.* The second message within 5 s writes the counter with the 300 s of
  the cache, and each further one anew: the "fixed window" of `send_message.py:20` is
  then a rolling one of five minutes. The limit is the identity's, while
  `docs/ai-context/04-features-and-workflows.md:58` speaks of a connection.
- *A close after the partner left.* `user_offline` takes the partner off the consumer's
  rail, a close of that row then returns early (`close_private_chat.py:21`) and the hash
  keeps the chat: a reload brings the row back. `ClosedStaysClosed` leaves those
  closes out. A partner taken off that way is no longer told when this user goes.
- *Two names for one chat.* A page that knows nothing of a chat names it after its own
  user, a consumer that was invited keeps the inviter's name: the page's row then
  writes to a group the socket has not joined and gets an error, and a message in a
  group without a row can add a second row for the partner. After both have
  told each other all, what the page can write to is joined again (`WritableIsJoined`).
- *A full channel of the user's own.* The answer to a request for a partner who is
  offline is a notice in the asker's own channel: when that is full the answer is
  dropped and the row stays writable although nobody will hear what is written. The
  theorem `WritableJoined` therefore supposes room in the channel (`Roomy`), and the
  run `rail` leaves room; nothing else in PrivateRail needs it.
- *A denial* names the partner only (`chatSocket.js:120`): it may take down the row of a
  later request that was granted (the ghost `crossed`).
- *Restored bots* come back greyed, having no presence marker.
- *A reopened chat* whose group was forgotten (`chats_reopen`) is joined under a second
  name of the same two users: `PrivateGroupsArePrivate` holds of both.
- *A dropped invite* is told to nobody (`private_invite.py:110`): the inviter keeps the
  chat, the other side has nothing that could look wrong. No property is about it.
- *The bots' week.* Between the end of the bots' keys and that of the flag, which was
  set a little later, the room is silent and no tick reloads.
- *Accounts.* Signup and login write a name's keys without asking who has them; signup
  registers under a guest's id until the chat page is opened; a logout prefers a
  guest token left in the browser and frees that nickname instead of the
  account's; a handshake of an account does not look at the mapping.

What the runs do not reach, and where it is covered: `billing_race` has no exceptions or
deaths (with one, 17.5 million states and more than five minutes); failures around a
receipt are the theorem `ChargedAreTold`, which allows any number of them, and the run
`mails`, those around the end of a subscription `EndIsTold` in `billing_in_order`.
`nicknames` has one nickname, so what `IdsNameOne` says of two is the theorem
`IdsAreApart` alone. `OpenIsReserved` leaves out the sockets under which another socket
or a logout cleaned the nickname up (the ghost `lost`): the code does lose the name
then. `OneCustomer` counts customers against the keys Stripe forgot, so it allows the
orphan such a key leaves behind. In `AccessFollowsStripe` a period is one Stripe
granted; a renewal whose payment failed begins one as well.

Every property of a passing run has a mutant in `PROJECT.json`: a slip in one
mapped definition that breaks it in the same run.

**Bounds.** `MaxEvents`, `MaxPeriod`, `MaxCrashes` and `MaxRaises` bound Stripe and
failure, `Capacity` the channel (the real one is 100; 1 makes dropping easy to
reach), `Limit` the ceiling (3 in the code; 1 is enough for it to be full). `MaxRetries` is 3 in
the code and 1 in `mails`: a retry that fails again is the second event. `mails`
has one web worker, since the handlers' transactions are serialised by the row
lock and the ledger run has two. Four windows in `checkout` let both requests
straddle a boundary, one after the other; `MaxForgets` counts keys Stripe has
dropped after a day. Two ids in `nicknames` are one for each guest, or two for
one who comes back, and one for the signup; a third tab lets a guest close one of
two. In `rail`, one frame each way is enough for any two to cross, and two rows for a
row and its double; the notices wait in the channel behind a handler. In `rate` a limit
of 3 and two sockets lose and regain counts in every way (7 messages are more than the
6 that can pass); three sockets were checked as well, with the same bound. Two
workers are what two statements need to interleave; the hazards of the ledger
are between two deliveries of one event. Five events let one subscription be paid
(2), changed (1), and another be paid (2), with every order of delivery and any
number of redeliveries; six, in order, reach an overdue renewal that recovers. One customer is enough: the row lock and every query
are per customer. Two sockets of different users plus a bot let every invite,
close and disconnect cross; two sockets of one user do not fit TLC here and are
covered by the proofs, which hold for any number of sockets per user; `rate` has them
for the marker.

**Deadlock** is checked in every run but `nicknames`: Stripe can always redeliver,
a socket always open again, Celery always tick. In `nicknames` the one nickname may
stay in the set of active names for good, after a request or a server died with
it, and then nobody can take it: the set has no timeout and no line repairs it
before the same nickname connects again. Every further request is refused and
changes nothing, which is where the run stops.

**Symmetry** of workers, subscriptions and requests is used for safety only; the runs that
check liveness have none.

**Fairness** (`ledger`, `mails`, `bots`, `rate`). A worker that is not killed finishes its
request: weak fairness of each worker. Stripe redelivers until it has a 200, and
an idle worker is there time and again but not continuously: strong fairness of
the delivery of each event still owed. Exceptions are bounded, so an
event whose handler always fails is not claimed to settle. In `mails`, Celery
works off its queue: a waiting task is started when a process is free time and
again (strong fairness of each task). In `bots`, beat ticks for ever, a living
process ends its tick, and Redis expires what has a timeout (weak fairness). In
`rate`, a handler and a disconnect go on once begun, an open page beats every 30 s
(`chatSocket.js:38`), a socket the server has closed ends, and what has a timeout
expires (weak fairness of each).

## 4. What is proved

With TLAPS, for any sets of events, workers, subscriptions, users, sockets, browsers,
requests, bots and processes, and any bounds, from the named assumptions of the
modules (`LedgerAssumption`, `RowAssumption`, `BillingAssumption`, `NoticeAssumption`,
`ChatsAssumption`, `RailAssumption`, `RateAssumption`, `CheckoutAssumption`,
`BotAssumption`, `GuestAssumption`). They say what kind of values the constants are and
that the null values differ from the others; that requests, Celery processes, the users
a rail can hold and the sockets of one identity are finitely many (bounds count them);
that billing handles every type of event it knows; that a task has a retry left for
each fault that is let happen; that the limit on messages is positive; and that
no nickname is a number (a nickname that stands for the primary key of its account
must not be a guest's id). Every safety invariant and action property of a passing run
is stated by a theorem.

- `WebhookLedger_proofs`: `LedgerTypes`, `ClaimsAreExclusive`, `AcksFollowClaims`,
  `AckedAreSettled`, `TerminalForGood`, `LedgerImplementsClaim`. The inductive invariant is the type
  invariant with `HandlerExclusive`, `HeldIsProcessing` and `AckedWasClaimed`. They
  need each other: a claim is exclusive because the event of a running worker is
  PROCESSING, and it stays so because the claim is exclusive. For the refinement,
  exclusiveness makes `holderOf` a function of the state. `AckedAreSettled` adds `Alone`:
  an event whose deliveries do not overlap has one worker, is PROCESSING without one only
  after a crash, and is run by nobody once it is answered.
- `Billing_proofs`, of the webhooks (BillingSpec): `BillingTypes`, `InFlightIsBacked`,
  `EntitlementIsBacked`, `OnlyCheckoutMayRebind`. Each billing action is a ledger action
  with more conjuncts (lemma `BillingStepLedger`), so the ledger's invariant holds of
  billing by construction. `EntitlementBacked` alone is not inductive: what a worker is
  about to commit was read earlier. `InFlightBacked` strengthens it with every DTO and
  every event still to come; it survives because Stripe never shortens a period, the
  external assumption this result rests on. The invariant is in two parts: `WireInv`
  (types, ledger, what is in flight), kept by whatever writes the row, and
  `EntitlementBacked` on top of it.
- `Billing_proofs`, with cancellation requests (CancelSpec): `CancelTyping`,
  `CancelMayNotRebind`, `UnlimitedIsGranted`. The request may break
  `EntitlementBacked` but not `WireInv`. A save of two fields leaves the binding alone,
  and what it writes was either on the row when it was copied or in Stripe's reply, so
  every period in play (row, copies, replies, events, DTOs) stays one Stripe granted
  for some subscription (`AllGranted`); unlimited chats are then always in a granted
  period, in any order of events, which is the first part of `AccessFollowsStripe`.
- `Billing_proofs`, receipts: `ChargedAreTold` and `ChargedAreToldByWebhooks`, in any
  order of events and with any failures. `ReceiptInv` follows one paid invoice from the
  log to the worker that carries it: a row is bound only to a subscription the log
  tells of (`Linked`), so the current-subscription check of the handler lets the only
  subscription of a customer through, and a handler that has returned has left the
  notification and the task behind (`Carrying`).
- `Billing_proofs`, events in order, one delivery at a time, Stripe readable (`Orderly`):
  `RowFollowsStripe`, `LatestCheckoutWins`, `AccessIsStripes`, `EndsAreTold`. What holds when events
  are settled says nothing between two statements of a handler, so `OrderInv` is about
  those. All events before one that is in the ledger are answered (`InTurn`); the last
  event of a subscription says what Stripe says (`LogTells`), and so does what a handler
  has read for it (`ReadTells`); once all there is to write of the bound subscription is
  written, the row shows it (`Bound`), while a row bound to none shows nothing
  (`Unbound`); the newest checkout that was written is the one the row names,
  while no newer one has been received (`LastCheckout`). So the handler of the end of
  the subscription bought last finds the row bound to it (`EndIsCurrent`), at every
  attempt, and returns only with the e-mail queued (`ToldInv`, which adds the handlers
  that have returned and not yet recorded to `EndIsTold`).
- `InvoiceNotifications_proofs`: `NoticeTypes`, `OneMailPerProcess`, `EndedAreTold`.
  `MailsBounded` counts what went out; what bounds the next e-mail are the tasks that
  have read the row and not sent (`Loaded`) while it says SENT, and those that have
  sent and not recorded (`Mailed`) while it does not. `MailsCounted` states both; the
  busy tasks are at most the processes.
- `Checkout_proofs`: `CheckoutTyping`, `CustomerIsOne`, `SoldToTheCustomer`,
  `SalesEnd`. While the lock is held the row has no customer
  (`Locked`), whoever is past the transaction knows the row's own (`Known`), and the
  forgotten keys account for every other customer at Stripe (`Accounted`). Late sales
  are counted against the requests that are past the check (`Room`, with the
  cardinality theorems of finite sets).
- `GuestIdentity_proofs`: `GuestTyping`, `IdsAreApart`, `OpensAreReserved`,
  `AccountNamesStayClosed`, `OneGuestPerNickname`. `IdsNameOne` is strengthened to
  `IdsApart` over every token held by somebody or remembered by Redis. Each step is shown
  to learn nothing but a fresh token or an account's own (`Learns`, `MayLearn`), all else
  being copied from a token that is there; one lemma then covers all steps. For the
  names of accounts, `NamesClosed` sets the token of a running signup apart, the only
  one made for such a name with another id, and shows that it is never kept. For one
  guest per nickname, `SeatInv` says what keeps everybody else out while a guest has a
  seat that was neither overlapped nor cleaned up: the tokens other browsers could
  show for that nickname own nothing in Redis, and none of them is about to write its
  owner key; `SignUpInv` keeps the token of a signup out of that argument.
- `BotMessages_proofs`: `BotTyping`, `RepeatsAreFew`, `LoadIsExact`. A message not marked
  has no marks, and the processes about to mark it have room (`Room`). For
  the cache, what the step of a load says of the keys and their timeouts (`Written`), that loads
  which did not overlap are one (`LoadsAlone`), and what the keys of a finished load may
  still become: they go in the order in which they were timed (`Kept`, `AloneExpires`).
- `PrivateChats_proofs`, the consumers (ChatSpec): `ChatTypes`, `PrivateGroupsStayPrivate`,
  `RailStaysJoined`, `ClosedIsNotRestored`, `CeilingHolds`. The invariant adds two facts:
  a socket that is not connected yet has an empty rail and nothing closed (`Fresh`), and
  an invite that has joined still has its group (`Kept`), which holds because
  no other event runs on that socket before the invite is told.
- `PrivateChats_proofs`, the tab (RailSpec, any number of partners, rows, frames and
  notices under way): `RailTypes`, `CountedKnown`, `ClosedStays`, `WritableJoined`. The
  three properties speak of a moment when nothing is under way; their invariants say
  what the frames still owe. `Known`: what the consumer counts, or will count once it has read
  what the user has sent (`Counting`), the page has, or a frame on its way brings
  (`Arriving`). `Dropped`: what the user dropped is out of the hash or a close is on its
  way, and no later request of the user nor restored rail brings it back. Both rest on `PageBegins`
  (nothing of the user's is under way before the restored rail has been drawn: that frame is always the
  first), on `Belonging` (whatever names a group names one of the two users, so rows of
  two partners never share one) and on `Heard`. `Answered`: a chat with somebody the consumer
  shares no group with has at most one row, under the page's own name for it, which
  can be written to only while the request or its refusal is under way (`Due`); it is
  kept by every step that leaves room in the channel, and only `WritableJoined` needs it.
- `MessageRate_proofs`: `RateTyping`, `CountsAreReal`, `OneSocketIsLimited`,
  `LimitIsCoarse`. That the counter never exceeds the messages sent needs the same of the
  value every consumer has read and not yet written, and that the messages are only
  forgotten when no such value is left (`NobodyHolds`). With one socket the counter and
  the messages that passed agree as long as it lives, so no more than `Limit` pass. For n
  sockets (`LetThrough`): let `Behind(v)` be the sockets that may still leave a counter
  of v + 1 or less. How many they are, for every v below the limit, is a function that
  never falls (a ladder, `Standing`); every message that passes moves it on in the
  lexicographic order, so no more pass than there are ladders (`PassesMoveOn`), and there
  are choose(Limit + n - 1, n) of them (`LadderCount`).

The induction theorems of the library take an operator and cannot be cited. That a set of
naturals has a least element (`LeastNatural`) follows from the well-foundedness of the finite subsets of
a set; it gives the first row of a group, and induction of a set of naturals
(`SetInduction`) for the factorial and the number of ladders.

Only model-checked: liveness (`EverySettled`, `NoticeResolved`, `BotsComeBack`,
`LimitLifts`, `MarkerFollows`), since fairness and ENABLED are outside the prover. The
properties about order hold of deliveries in order (`Orderly`), which is also what
their run has; `WritableIsJoined` is proved under `Roomy`, which the run's bounds imply.

## 5. What is left out, and why

- Signature and shape checks of a webhook, and refused chat payloads, change
  nothing and are not actions.
- `current_period_start` and `canceled_at` decide nothing; `attempts`, error
  texts and logs are not read by the program.
- Moments are natural numbers, 0 for None; Stripe periods only move forward.
- Checkout: a repeated request whose parameters differ within a window (another
  language) gets an error from Stripe, which `Fails` covers; the success and cancel
  pages only read.
- Bots: the DELs of a load are one step, and so is the storing of the topics, or of
  their messages, with the timeout; no timeout of a week elapses while the load that
  set it still runs. Ticks that end by the dice or in an empty room do
  nothing.
- Guest identity: a browser has one page request at a time; nicknames are lower
  case, as every key and the set are; the Checkout a signup may start is Checkout's.
  `Confirms` is the GET of the owner, the SET of the id's key and the EXPIRE of the
  mapping (`guest_session.py:146`) in one step, so no mapping runs out between its GET
  and its EXPIRE; the timeout is `GUEST_SESSION_MAX_AGE`.
- Checkout: that a window has one session is Stripe's idempotency, which `StripeSession`
  takes as given; no property states it.
- The page: rendering, unread marks, the drawer, the main room and the texts of
  notices decide nothing. A row and its conversation are one; a page whose socket is
  gone only shows a banner until it is loaded again, so its frames end with it.
- In `rail` chat messages and `private.chat.participant.online`, which change no
  state of the consumer, are passed on when nothing waits in the channel before them.
- Rate: a message to a private group the socket is not in is refused before it is
  counted; a malformed text is counted and then refused.
- `Restores` may drop any chat whose partner's nickname has expired; when it
  expires belongs to guest identity.
- Whether a user id is a guest's or an account's does not matter to the private
  chats, which only compare ids.
- `EntitlementBacked` is not claimed of `Cancellation`: a request begun on one
  subscription that ends after the checkout of another writes the old period end
  onto the new row. `AccessFollowsStripe` is what holds then.
- The thin Redis services are one command per method and part of their callers'
  steps; the cancellation e-mail's task keeps no state; accounts, pages, settings,
  admin and the data import have no state that outlives a request beyond a single
  insert. None of them has an order of steps to check.

## 6. Plan

Done, in this order: WebhookLedger and EventClaim, SubscriptionRow,
StripeWebhooks, Cancellation, PrivateChats and their proofs;
InvoiceNotifications, BotMessages, Checkout, GuestIdentity; accounts in
GuestIdentity, MessageRate and its proofs, the chat's access on the row, the
composition of cancellation and in-order webhooks, PrivateRail; the proofs of
Checkout, BotMessages, Cancellation and GuestIdentity; the proofs of receipts, of billing
in order, of InvoiceNotifications, of one guest per nickname, of the rate limit for any
number of sockets, and of PrivateRail.

Next, most important first:

1. How far a row may be wrong when events come out of order: which of the two halves of
   `RowAgrees` survives, and for how long.
2. Abstract specifications beside `EventClaim`, with refinement proofs: the checkout
   as one purchase at a time, the private chats as a set of pairs.
3. Two tabs of one user on one rail, which share the hash in Redis and the notices.

Questions met and set aside for now, each of which TLC can answer: a task that is
refused saves FAILED over the SENT of another; two loads of the bots of which one
dies under the flag of the other (`bot_cache_loader.py:40`).
