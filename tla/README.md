# PushCompat: a verification project

PushCompat gives applications that speak Firebase Cloud Messaging (FCM) a home on a
device without Google services. A *bridge* (a server written in Rust on tokio) logs
in to FCM for every application, stores what arrives, and passes it on, over a
WebSocket or to a UnifiedPush endpoint. A *shim* inside each application registers
it with the bridge. A *JNI library* offers the same FCM listener on the device
itself.

This directory holds TLA+ modules translated from that code, the TLC configurations
that check them on small instances, and theorems that TLAPS proves about them for
every instance. `PROJECT.json` is the index: which lines of `src/` each definition
models, which run checks which property, which plausible bug in the code each
property would notice (every property has a mutated definition that violates it),
the hazards of the code, and the findings.

Paths below are relative to `src/crates/` unless they start with `src/`.

## 1. The system

| Component | State it keeps | Operations | Modelled in |
|---|---|---|---|
| Socket delivery: `bridge/src/socket.rs`, `socket_v2.rs`, the socket half of `db.rs` | table `outbox`, `SocketHub::attachments`, per connection its attachments and event channel | hello, attach, ack, detach, poll, wake, replaced, heartbeat, shutdown | `SocketDelivery`, `Mailbox` |
| FCM listener: `run_listener` in `bridge/src/fcm.rs`, `delivery::enqueue_fcm`, `listener/src/gcm.rs`, `push.rs` | `persistent_ids` in memory, table `acked_messages`, the MCS stream id | seed, log in, read, store, acknowledge, reconnect; aborted at any await; its tables deleted under it | `FcmListener` |
| Registration and listener lifecycle: `bridge/src/main.rs`, `auth.rs`, `FcmManager` in `fcm.rs` | tables `installations`, `registrations`, `fcm_sessions`; the map of listeners behind a `RwLock` | register, unregister, prune, restore at start | `Registration` |
| UnifiedPush delivery: `bridge/src/delivery.rs`, its half of `db.rs` | `outbox` with attempts and next attempt, the permit of `up_wake` | load a batch, post, retry, delete, defer, poll | `UpDelivery` |
| JNI binding: `jni/src/lib.rs` | registry of handles; per handle a stop flag, a stopper, a mutex around the runtime | create, run, check in, register, stop, destroy | `NativeHandle` |
| UnifiedPush distributor: `bridge/src/main.rs`, its statements in `db.rs` | table `unified_push_registrations`, its rows of `outbox` | register, unregister, reconcile, push | `Distributor` |
| VAPID validation: `bridge/src/vapid.rs` | none | the checks of an Authorization header | `Vapid` |
| MCS framing: `listener/src/push.rs` | read buffer, bytes required, stream id | `poll_next` | `McsStream` |
| Device sessions: `listener/src/gcm.rs`, `session.rs` | account, key pair and authentication secret of a device; its registrations | check in, refresh, register, connect, decrypt, save, restore | `PushClient`, `WebPush` |
| Shim: `src/shim/` | preferences, a single-thread executor | register, heartbeat, unregister, broadcasts | its heartbeat only, in `Registration` |
| APK patcher; generated code | - | - | not modelled |

How they interact:

* A **registration** starts an **FCM listener** under the lock of the manager; an
  unregistration or a prune aborts it and, in another await, deletes its tables. The
  task keeps its history of acknowledged ids in memory and, through the transaction
  that stores a message, in `acked_messages`, from which its successor is seeded.
* The listener's transaction inserts a row into the **outbox**. For a registration
  with the socket transport it then calls `hub.wake(install)`; otherwise
  `up_wake.notify_one()`. The row is committed first, so both calls may be missing
  (the task is aborted between the two) and may reach nobody.
* **Socket connections** compete for the ownership of an install in the hub, learn
  of new rows and of losing the ownership through one event channel each, and read
  and delete rows of the outbox. The **delivery task** is alone with the rows of the
  other transport, except that registrations change and delete them.
* The **distributor** hands out endpoints for connector tokens; a message posted to
  an endpoint is checked with **VAPID validation** if its registration has a key, and
  becomes a row of the outbox that the socket delivers. Look-up, check and insert are
  separate awaits, as are the steps of a reconcile.
* A **device session** opens the connection whose bytes **MCS framing** cuts into
  the messages that the FCM listener of the bridge and the JNI library take.
* The database is one connection in a thread of its own: statements and transactions
  of all tasks are served one after the other, in order. Every `await` on it lets
  other tasks in, and a task can be dropped there.

What makes the code hard to test, with the lines where it bites, is the list
`hazards` of `PROJECT.json`. In short: state read before an await and used after it
(attach reads a maximum, deletes, then joins the hub; a batch of the delivery task
outlives registrations); two tables or a table and a map that are written in
separate awaits (prune, unregister, register); wake-ups that come early, late or
never; tasks and handlers dropped at any await; redelivery after a lost
acknowledgement against a history that forgets; a stop that races a start.

What correctness means, per component:

* *Socket delivery*: per install in order, nothing overtaken, nothing deleted that
  the device has not taken, no row behind a cursor for ever, one owner per install,
  the loser is told, sleeping connections have nothing to do.
* *FCM listener*: FCM hears of a message only when it is stored; a redelivered
  message is recognised as long as the history reaches; history never outgrows what
  a login may carry.
* *Registration*: a registration belongs to whoever claimed the install; a saved
  FCM token stays however many requests race; the lock is always released; rows and
  listeners agree again after races and failures.
* *UnifiedPush delivery*: nothing lost, nothing repeated without a fault, no post
  during a back-off, and a deliverable message is delivered.
* *JNI binding*: a stop reaches every run, whatever it falls between, and the run
  takes at most what it was just polling for; a message is acknowledged only after
  Java has it.
* *Distributor*: an endpoint never changes hands; rows outlive their registration
  only through a race; a reconcile leaves exactly what it lists.
* *VAPID*: accepted is what the registered key signed, for this bridge, within the
  window, whatever numbers are sent.
* *MCS framing*: how the socket cuts the bytes makes no difference, and no frame
  that is there waits for more.
* *Device sessions*: whatever a token was registered with, the session can read.

## 2. Modules

### SocketDelivery, with Mailbox as its abstract specification

One action is what a connection task does between two awaits. `pc[c]` says where
`V2Connection` stands: `poll` and `SendBatch` are `pending_messages`, one
`PollInstall` per attached install (each is a query of its own, so rows and hub may
change in between); `select` is the `tokio::select!`, from which `ReceiveAttach`,
`ReceiveAck`, `ReceiveDetach`, `OnWake`, `OnReplaced`, `Heartbeat` and `Shutdown`
take one branch each. An attach is three further awaits: `ReadMaxOutboxId`,
`AckSocketThrough`, `FinishAttach`. `Enqueue` commits a row, `HubWake` follows or
`AbortProducer` prevents it. `Crash` clears everything but the tables. The device at
the other end (`view`, `received`, the frames under way) is external, modelled from
the frames the bridge reads and sends.

Payload encryption, the nonce of the hello and pings carry no state the properties
look at. A failed proof is one bit of the attach frame.

`Mailbox` states the promise without cursors, connections or wake-ups: messages are
taken in the order they were posted, at least once, and are forgotten only when
taken or when the application unregisters. `ImplementsMailbox` is the refinement:
`pending` is `outbox`, everything else has its own name in both.

### FcmListener

One listener for one application, the MCS server at the other end, and everyone who
stops the task or deletes its tables. Stopping it is `StopTask`: for a new
configuration (`Reconfigure`), as the first half of `unregister` (`Unlisten`), or as
the last await of a prune (`StopPruned`). `StartListener` reads the stored session or
registers a new device, `SaveSession` saves it and spawns the task. The deletes are
`DeleteRegistration`, which comes after `Unlisten` with whatever starts in between,
and `PruneStale`, which comes before `StopPruned`, while the task goes on. Both are
separate statements, session, `acked_messages` and outbox in this order, and may end
after any of them (`DeleteRows`). An abort takes effect at the next await: a task
that is just handing its transaction to the database leaves a *straggler*, a message
that may be stored later, even after the successor has read the table.

`era` counts the deletes of the history, `degraded` says that memory and table have
been parted (a table that could not be read, a straggler, a delete), `orphaned` holds
what FCM kept for a device whose session was deleted: nobody can ask for it any more.
All three are history variables. `Accept` decides whether the stanza of a message of
`Garbled` decodes (`undecodable`).

`H` is the 500 that `fcm.rs`, `db.rs` and `gcm.rs`
each write down; the three operators `MAX_ACK_HISTORY`, `TrimLimit` and
`MAX_PERSISTENT_IDS` keep the three limits apart. The server remembers what it sent
by stream id (`log`); an acknowledgement covers everything up to its stream id, as
does a heartbeat; the login covers the ids it names.

### Registration

The handlers `register` and `unregister`, the prune task and
`restore_registrations`, one action per await, around one lock. `start_listener`
runs under the lock: `StartListener` (stop an old one with another configuration, or
keep it), `LoadSession`, `RegisterApp` (two HTTP requests, may fail), `SaveSession`,
`InsertListener`. `Unlisten` and `DeleteRegistration` are the two halves of
`unregister`; `PruneStale` and `StopPruned` those of the prune. A handler may be
dropped at any await (`DropHandler`: hyper drops it when the client goes away), the
statement it has queued still runs. This is the same as running the statement and
dropping the handler afterwards, because the database serves its callers in order.
`wanted` is what the device believes it has registered; its heartbeat repeats it.

`failed` and `pruned` are history: which pairs have no listener because a start
failed, or because the prune task stopped it. The branch of the claim that says the
owner changed between two statements is there and never taken: an owner never
changes, which is part of what `RegistrationsOwned` proves.

### UpDelivery

The one delivery task: `LoadBatch` takes the `LIMIT` oldest due rows together with
the endpoint of the moment, then per row `Post`, `PauseEnds` (retry inside a
delivery), `DeleteDelivered` or `Defer`. Time passes in units of five seconds, the
poll interval and the shortest back-off; `Tick` runs only when the task has nothing
to do at this instant, so processing and answers take no time. An endpoint accepts,
refuses at once (4xx), or does not answer. `attempts` counts up to `Enough`, beyond
which the back-off does not change. `notify_one` is `Notify`, with the permit it may
leave.

### NativeHandle

Java threads that create, run, use, stop and destroy handles. One action lies
between two points where another thread can be seen: a lock, an atomic, an await, a
call into Java. `SetFlag` and `TakeStopper` are `request_stop`; `InstallStopper` is
`install_stopper` with its second look at the flag, under one lock; `lock` waits for
the mutex around the runtime. A `select!` is two actions, because a stop on another
thread can be sent and return between its two polls: `PollStop` finds that the stop
is not ready (`Polls`, the `biased` order) and leads to `login` or `streams`, where
`Connect`, `ReceiveData`, `ReceivePing` or `StreamEnds` take what is ready;
`Pending` is a `select!` that sleeps and will poll again. `late` counts what a run
has taken since a stop of its handle returned. `Callback` may be a Java exception,
`Panic` poisons the mutex.

### Distributor and Vapid

The four handlers under `/distributor` and `/up`. The arrival of a request and its
first statement, the claim of the install or the look-up of the endpoint, are one
action: nobody sees a handler before it. `RegisterUnifiedPush` is one transaction
with three outcomes (the token is registered for this application, for another one,
or is new); `ReconcileEntry` runs it once per entry, and `DeleteStale` is the last
await of a reconcile. `LookUp` reads the registration and validates; `Enqueue`
inserts what was read. `Fail` ends a handler at any await (a statement that fails, a
client that goes away). Endpoints are numbered instead of random; `issuedTo`, `raced`
and what a reconcile remembers of its start are history.

`Vapid` has no state: `Checks` lists what `validate` asks for in its order,
`VapidRejection` the answers, `Validate` is the first that fails. `Authorised` states
in unbounded arithmetic what the result should be.

### McsStream

`poll_next`, one action per round of its two loops. Bytes are numbers in base
`2 * BASE`; the length is up to five digits in base `BASE` (128 in the code), low
digits first. `Read` takes any number of any bytes the socket has; `Pend` is the
`Poll::Pending` of the code. `Decoded` decodes the same bytes in one piece and from
the front, recursively and with another definition of the length, so that
`CutsDoNotMatter` compares two independent readings.

### PushClient and WebPush

One task that uses the listener crate: `DeviceSession` with check-in, refresh,
connect, and `AppRegistration::register` with its two requests, of which the second
is retried. A request succeeds (`CheckIn`, `Refreshed`, `Installed`, `Token`,
`Connected`), is retried (`Retry`) or fails (`Fail`, for every error there is). The
three key fields of a session are there or missing together, because only
`generate_keys` and `refresh` write them, so they are one value. `tokens` holds the
keys each registration was made with: that is what Google lets senders encrypt to.
An open connection is the stream of `McsStream`, whose variables it shares.

`WebPush` says which payloads a session opens, and cuts the delimiter and the
padding off. Cryptography is perfect: a payload opens with the keys it was sealed
for if nobody changed it. `DeviceSession::refresh` and `decrypt` are part of the
crate's interface; the bridge and the JNI library call neither.

## 3. Runs

Counts are distinct states; every run ends within about a minute with two
workers. A bound `Max...` is a guard of the model, not of the code.

| Run | What it asks | Instance | States |
|---|---|---|---|
| `socket_supersede` | With arbitrary resume cursors and two competing connections: does any row end up behind a cursor, does the hub name a connection that does not hold the install, is a loser not told, does a connection sleep on a message, do both ends disagree? | 1 install, 2 connections, 2 rows, cursors -1 and 3 besides honest ones, 2 frames under way, 1 fault; connections symmetric | 1,315,345 |
| `socket_mailbox` | Does delivery implement the `Mailbox`, when devices resume from ids they have received? Does every row leave the outbox for good? | 1 install with 2 applications, 1 connection, 2 rows, 2 frames under way, 1 fault | 122,184 |
| `fcm` | Is a message lost, or stored twice while its id is in the history? Do memory and table keep the same ids in the same order? Is every message stored in the end? | history of 2, 3 messages, the last of which may not decode, 1 ping, 1 fault of any kind, an unregister or a prune included | 1,620,791 |
| `registration_races` | Two handlers, two secrets: who owns what, and is a saved token ever replaced by a second registration with FCM? | 1 install, 2 applications, 3 requests, 2 faults; handlers symmetric | 444,773 |
| `registration_alone` | Requests that do not overlap: do rows and listeners agree between them? | 1 handler, 2 applications, 3 credentials of which one is refused, 4 requests, 2 faults | 189,631 |
| `registration_repaired` | Is every request answered? Does the daily registration repair what races leave? | 2 handlers, 1 application, 2 credentials, 3 requests, 1 fault of any kind | 29,812 |
| `registration_maintained` | Is there a listener for each registered application? **No**, see findings | 1 handler, 1 application | violation |
| `native_handle` | Does a stop reach every run, how much does a run still take after it, does it end with whoever waits behind it; is a message acknowledged before Java has it? | 2 threads, 1 handle, 1 application, 2 messages, 1 fault | 121,464 |
| `up_delivery` | Is a message lost, repeated, posted during its back-off, or never delivered? | 2 applications, one endpoint that accepts and one that refuses, 2 rows, batches of 2, 2 posts per delivery, 2 changes, 1 fault | 463,378 |
| `up_starved` | Can messages for one endpoint keep a message for another from being posted? **Yes**, see findings | batches of 1, 2 rows for a silent endpoint, 1 behind them | violation |
| `distributor` | Does an endpoint change hands, is a row orphaned without a race, does a reconcile leave anything but what it lists, does `validate` accept what it should not, or refuse what it should? | 2 installs, 2 applications, 2 tokens, 2 endpoints, 2 handlers, 3 requests, reconciles of up to 2 entries, 4 entries, 4 headers, both ends of a word of three bits as clock, 1 fault; installs and handlers symmetric | 148,202 |
| `push_client` | Does the cutting of the bytes matter, does a frame wait, can a session always read what is sent to its registrations? | every stream of up to 5 bytes out of 4, frames up to 2 bytes, stream ids up to 2, 2 posts per registration, 2 key pairs, 3 calls, 5 messages with up to 2 bytes of padding | 231,086 |

Why these bounds show something:

* *Socket.* Everything a cursor can be wrong about needs a row behind it and one
  ahead: two rows. Losing an install needs two connections. A second application in
  `socket_mailbox` is one that may be unregistered with its rows while the other
  stays; the refinement is proved for any number of installs that share the id
  sequence. One fault reaches every single-failure interleaving; a crash already
  undoes every task at once. Two frames under way are an attach and an
  acknowledgement or a detach.
* *FCM.* Three messages overflow a history of two, the shortest in which the order
  of eviction can be wrong; the last one may instead end every connection it is sent
  on. One fault is an unregister, a prune or a new configuration with everything that
  falls between its awaits, or a crash, a lost connection or a failing statement. A
  stored session is not read wrongly in this instance: that would be a second fault.
  An off-by-one in any of the three limits refuses the login. Messages without an id (`Anonymous`) are not in this instance; `NothingLost` is proved for
  any set of them.
* *Registration.* Three requests are register, register, unregister, or a second
  pair in between; two faults are a dropped handler and a crash.
  `registration_alone` has one handler, because its properties are about requests
  that do not overlap.
* *Native.* A stop has two steps and a start three; two threads interleave all of
  them, and one of them may stop twice. Two messages, and pings, are one that the
  poll under way takes after the stop and one behind it that must stay.
* *UnifiedPush.* `MAX_SHIFT = 1` still has a shortest and a longest back-off; two
  rows make one wait behind the other in a batch.
* *Distributor.* A token that two applications ask for needs two entries with it;
  with a third entry for another token, and one with a key that does not decode, a
  reconcile can conflict, repeat an entry, remove a token and be refused. Three
  requests are a registration, and a push and a removal that race; the second
  endpoint is what a token gets that is registered again. One secret
  is enough, for another one is refused by the first statement and changes nothing.
  Words of three bits with a window of two and a skew of one reach both saturations;
  `ValidationExact` is proved for every header and clock.
* *Push client.* Five bytes hold a frame that does not decode and one behind it, a
  length of more than one byte, and a length that never ends. Stream
  ids end at two, so a third frame overflows them. Three calls are a check-in, a
  registration and a refresh, between which saves, restores and crashes are free.

### Fairness

* **Socket.** Tasks run (weak fairness). The branches of `select!` are strongly
  fair: tokio starts polling at a random branch, so one that is ready again and
  again is taken. A device connects, attaches and reads when it has nothing better
  to do. Faults are never owed, nor is `HubWake`: only the 30 s heartbeat is.
* **FCM.** The task and the server's redelivery are weakly fair; nobody owes that an
  acknowledgement is read. `StartListener` and `SaveSession` are too: they stand for
  the registration that a shim repeats daily. `EventuallyStored` excepts messages
  whose device was given up with its session, and the time after FCM has accepted a
  message that does not decode: it ends every connection it is sent on (see the
  hazards).
* **Registration.** Handlers and the main task run. Actions that take the lock are
  strongly fair, as tokio's `RwLock` queues its takers in order. The heartbeat of a
  wanted pair is weakly fair; this is what the comment at `bridge/src/db.rs:835`
  relies on. It holds for applications that are opened: the shim sends it when an
  activity resumes, and how often users open an application is outside the code.
* **NativeHandle.** Threads run, callbacks and requests return. So do the writes of
  acknowledgements, which `run_mcs` awaits outside its `select!` (`jni/src/lib.rs:465`
  and `476`): a stop cannot end a run that hangs in one. `std::sync::Mutex`
  is not fair, so strong fairness of `StartMcs` and `Request` says of the Java
  program that it does not make requests back to back for ever. Nothing is owed by
  the network: `EventuallyEnds` must hold for a run that waits for a frame for ever
  (`Pending`), and for the requests behind it.
* **UpDelivery.** The task and time are weakly fair. `Notify` is not: the task must
  find a row by polling. `EventuallyForwarded` holds in `up_delivery` because
  silence is a fault there, and faults are bounded. `up_starved` shows that it does
  not hold for endpoints that stay silent.

Deadlock is checked for the socket and the UnifiedPush modules, whose heartbeat and
clock always run. It is off for the FCM listener (all messages stored, nothing left
to send), for registration and the distributor (nobody asks), for the native library
(no thread calls) and for the push client (no call, and nothing to read): there the
system may stop. `Distributor` and `PushClient` have no fairness and no liveness
property: their operations wait for nothing but a database or a server.

## 4. Findings

* **`registration_maintained`** (`bridge/src/main.rs:379`). `prune_stale` deletes
  the row of a silent application; the prune task then stops its listener, in a
  later await and under the manager lock. A registration of the same application
  that arrives between the two saves a new row and finds the old listener still
  running with the same configuration, so it keeps it. The prune task then stops it:
  the application is registered and nobody listens for it, until it registers again
  or the bridge restarts. `main.rs:5` says the bridge "Maintains FCM connections for
  each registered app". `registration_alone` shows that this and a failed start are
  the only ways between requests that do not overlap, and `registration_repaired`
  that the next registration repairs it.
* **`up_starved`** (`bridge/src/db.rs:599`). The task loads the 32 oldest due rows
  and posts them one after the other. A row whose endpoint does not answer costs 4
  posts of 15 s and 6.5 s of pauses, 66.5 s; its longest back-off is 320 s. A batch
  of 32 such rows takes 2128 s, so with 37 of them (a batch, and the five whose
  back-off still runs when a batch ends) a full batch of them is always due before a
  younger row is reached, and no row of any other install is ever posted. Rows whose
  endpoint fails at once with 5xx cost 6.5 s each; then it takes about 81. The run
  is a scaled instance: batches of one, two silent rows. `main.rs:6` says the bridge
  "Forwards FCM messages to UP endpoints".

## 5. Theorems

All but one are of the form `Spec => []P` or `Spec => [][A]_vars`, for every value of
the constants that the named assumptions of the modules admit; these only say that
bounds are naturals, that `None` is none of the values it stands beside, and that
the sets a default value is chosen from, and in `UpDelivery` the applications, are
not empty. Five theorems have hypotheses beyond these, given at the end of this
section. The proofs use `Init => IInv`, `IInv /\ [Next]_vars => IInv'`, `IInv => P`,
one lemma per group of actions. `MailboxImplemented` is a refinement, `Spec =>
Mail!Spec`: each step is a step of `Mailbox` or a stutter. There is one module of proofs per component, and a second,
`SocketHubProofs`, for what the hub keeps; that of `PushClient` holds the theorem
about the stream it is built on, `StreamSpec` of `McsStream`, too.

Two proofs need an induction over data: the back-off `1 << shift` of `UpDelivery`
(`Doubled`) and the reference decoder of `McsStream` (`FramesFrom`) are recursive
functions. That they exist, and what they yield, is shown with the lemma
`Induction`: a set of naturals that holds 0 and is closed under successors is all
of them, because the order of the naturals is well-founded.

| Module | Theorem | Inductive invariant |
|---|---|---|
| `SocketDeliveryProofs` | `TypeCorrect`, `NothingSkipped` (`SkipFree`), `MailboxImplemented` (`ImplementsMailbox`) | `TypeOK /\ ResumeInv`, `MailInv` |
| `SocketHubProofs` | `OwnersAttached` (`HubOwner`), `SupersededTold` (`Superseded`), `NoWakeLost` (`NoLostWake`), `ViewsAgree` (`ViewAgrees`) | `HubInv`, `WakeInv`, `ViewInv` |
| `FcmListenerProofs` | `TypeCorrect`, `NothingLost` (`NoLoss`), `HistoriesAgree` (`HistoryAgrees`), `StoredOnceWithinHistory` (`OnceWithinHistory`) | `TypeInv`, `LossInv`, `AgreeInv`, `OnceInv` |
| `UpDeliveryProofs` | `TypeCorrect`, `NothingLost` (`NoLoss`), `RepeatsNeedFaults` (`OnceUnlessFault`), `PostsBackedOff` (`BackedOff`) | `IInv`, `RangeInv` |
| `RegistrationProofs` | `TypeCorrect`, `RegistrationsOwned` (`RowsOwned`), `TokensStable` (`TokenStable`), `TokensAgree` (`TokenAgrees`), `MaintainedUnlessPruned` (`MaintainedOrPruned`), `ListenersMatchRows` (`ListenerMatchesRow`) | `TypeInv`, `OwnedInv`, `TokenInv`, `AloneInv` |
| `NativeHandleProofs` | `TypeCorrect`, `StopsDelivered` (`StopDelivered`), `SilentAfterStop` (`QuietAfterStop`), `MessagesKept` (`NothingLost`) | `TypeInv`, `StopInv`, `LateInv`, `LossInv` |
| `DistributorProofs` | `TypeCorrect`, `EndpointsFaithful` (`Faithful`), `OnlyRacesOrphan` (`OrphansRaced`), `ReconcilesConverge` (`ReconcileConverges`), `ValidationExact` (`AcceptsExactly`) | `IInv`, `AloneInv` |
| `PushClientProofs` | `StreamNothingHeld` (`NothingHeld`) and `StreamCutsDoNotMatter` (`CutsDoNotMatter`) for the stream alone, `TypeCorrect`, `NothingWaits` (`NothingHeld`), `CutsNeverMatter` (`CutsDoNotMatter`), `AlwaysReadable` (`Readable`) | `StreamInv`, `CutInv`, `IInv` |

Why the invariants are needed:

* *`ResumeInv`.* `SkipFree` speaks of attachments that exist. An attach that has
  deleted through its cursor and not joined the hub yet must already have all rows
  of its install ahead of it (`AttachesAhead`), and a new row must be ahead of every
  cursor: cursors never exceed the ids handed out (`CursorsBelowSeq`). That holds
  because `clamp` bounds them by the maximum, and because AUTOINCREMENT never hands
  out an id twice.
* *`MailInv`.* A frame may be old when it is read: a message another connection has
  delivered since, an acknowledgement or a resume cursor that is still under way. It
  says what frames mean when they arrive. Nothing older than the message of a frame is
  kept (`SkipFree` holds when the frame is made, and ids only grow), so a device takes
  the oldest first. Whatever a cursor covers has been taken (`Covered`), so a row that
  goes for it is settled. Both only become truer (`Onward`).
* *`HubInv`* adds to `HubOwner` and `Superseded` that a closed connection holds no
  attachment: one that detaches is then known to be attached where it is the owner,
  and whoever loses an install is told in the step in which it loses it.
* *`WakeInv`* says of a connection that is still polling what `NoLostWake` says of
  one that sleeps: what it cannot know of an install it has looked at is about to be
  announced. The announcement goes to it unless it has been told that it lost the
  install, and then it does not sleep.
* *`ViewInv`* reads ahead: what a device would believe once it has read every frame
  under way to it is what its connection holds, unless an attach of that device that
  will succeed is on its way or being served.
* *`LossInv`.* What FCM may forget is decided by stream ids. `CountInv` ties the
  position in the stream to the messages: everything up to the stream id of the last
  acknowledgement is stored, except the one being handled. `AcksInv` says the same
  of acknowledgements under way, `KnownPosted` that a remembered id is one of a
  stored message.
* *`AgreeInv`* adds the moment between the transaction and the acknowledgement, when
  the table is one step ahead of the task: the acknowledgement makes up for it,
  whether it can be written or not. Whatever else writes to the table marks the task
  as `degraded` until the next one reads it.
* *`OnceInv`.* Every inserted row knows the place its id was given in the table
  (`PlaceInv`), and the table is a window of the last `H` ids ever recorded
  (`FullInv`). An id that is not in the table any more is therefore `H` places back.
  Places count from the last delete of the history: `EraInv` bounds the eras, and a
  row of an earlier one says nothing about the table.
* *`TypeInv` of Registration* adds that nothing is served before the start has
  restored what was there, and that credentials are known from the second await on.
  *`OwnedInv`* adds that a handler past the claim has the secret of the owner; since
  an owner never changes it still has it when it saves the row. *`TokenInv`* says
  that a task inside `start_listener` holds the lock, that its pair has no listener
  meanwhile, and that it registers with FCM only if there is no session.
* *`AloneInv` of Registration* names for every pair the one who still has to bring its
  row and its listener together: a task that waits for the lock to start a listener,
  the restart, a handler between the halves of `unregister`, or the prune task
  between its own. Whoever starts a listener has the configuration of the row.
* *`StopInv`.* A stop between flag and stopper has set the flag; a handle that a
  stop has returned from has its flag set and no stopper; a run has been told or its
  sender is the stopper. None of the three is enough alone: the second look at the
  flag in `install_stopper` keeps the last one. *`LateInv`* says that a run which has
  taken something late stands before the poll of the stop; there it stays, because by
  `StopInv` it has been told. *`LossInv` of NativeHandle* adds that whatever has been
  read is with Java, or in the callback.
* *`IInv` of Distributor* adds to the properties that entries under way have keys
  that decode (`EntriesChecked`, without which a registration could get one that does
  not), and that a message whose registration is gone has been marked as raced
  (`UnderWay`): `OrphansRaced` speaks of rows, and a row becomes one only after the
  race. `ValidationExact` needs no induction: with both additions saturated, a header
  is rejected exactly where unbounded arithmetic rejects it, because `exp` and the
  clock are words themselves.
* *`AloneInv` of Distributor* says what a reconcile that is alone has done when it is
  half through its entries (`Due`): at each token the registration is as it was or
  as it was listed, and whoever listed the token is still to come or was answered.
* *`IInv` of UpDelivery.* A batch is a snapshot. Its rows are different ones, and none
  of them begins to wait before the task reaches it (`BatchInv`): so `BackedOff` holds
  although nobody looks at the back-off again. A row that may still be posted has cost
  a copy for faults only, and one more only while it is about to be deleted or when
  it is gone (`CopiesInv`).
* *`RangeInv` of UpDelivery* bounds what no guard bounds: there is at most one notice
  per row and one repeat per fault, and by `BackOffBounded` no back-off is longer than
  that of the largest shift.
* *`StreamInv`* says what a reader that waits has asked for (`Waiting`): one byte
  more, or the whole of a frame whose length is complete. So what it holds is no
  whole frame. The lemma behind it, `VarintStable`, is that bytes that
  follow never change a length that was complete. This is why going back to two bytes
  after a frame matters.
* *`CutInv`.* What the reader has got are the frames of the bytes up to the position
  where its buffer begins. It must be said for bytes that are still to come
  (`Ahead`): whatever follows, the reference yields the frames that were got, and
  then those it finds from that position on. A round that cuts a frame out of the
  buffer is one step of the reference (`FrameCut`, `FramesFromStep`), because bytes
  that follow change neither its length nor its body (`WholeStable`); a reader that
  waits holds no whole frame, so nothing is left to be found (`NothingLeft`).
* *`IInv` of PushClient* adds that every token of a session, in memory or stored, was
  registered with the keys it has now or with none (`KeysKept`). `Readable` follows
  with a lemma on the last byte that is not zero: zero padding never hides the
  delimiter, whatever bytes the message ends in.

`MailboxImplemented` assumes that devices resume from a message they have taken or from
nothing (`\A n \in ForgedCursors : n <= 0`): a row that a device claims to have is
given up, whether it has it or not. The other theorems about the socket admit any
cursor.

`TokensStable` and `TokensAgree` assume that no database statement fails
(`"database" \notin FaultKinds`): `start_listener` takes a failed look-up of the
session for a missing one and registers with FCM again, and ignores a failed save,
after which the listener has a token that is not stored. Crashes, dropped handlers
and failing requests to FCM are allowed.

`MaintainedUnlessPruned` and `ListenersMatchRows` assume in addition that there is one
handler and that nobody drops it, as the run `registration_alone` does: a handler
that is dropped between the two halves of `unregister`, or that overlaps another,
leaves listeners that do not match, which `EventuallyMaintained` shows the next
registration of the device to repair.

## 6. What is only model-checked, and what is left out

Checked by TLC on the instances above and not proved: all liveness properties and
whatever needs `ENABLED`, for which the prover has no rule: `EventuallySettled`,
`EventuallyStored`, `EventuallyAnswered`, `EventuallyMaintained`, `EventuallyEnds` and
`EventuallyForwarded`. Every other property of a passing run is a theorem.

Abstractions worth knowing:

* Messages are ids. Encryption, JSON and protobuf do not appear, except that a
  stanza may be one that the decoder refuses (`Garbled`).
* `delete_registration` and `prune_stale` delete from four tables. `Registration` has
  registrations and sessions, `FcmListener` the session, `acked_messages` and the
  outbox of its one application, `SocketDelivery` and `UpDelivery` the rows of the
  outbox, each at any moment its table allows.
* A run that the stop finds inside `session.connect` drops the connection: that the
  server may have read its login is not modelled (`Connect` is the last poll).
* `SocketDelivery` sends the close frame and leaves the hub in one step (`Shutdown`).
* The two transports share the outbox; no row changes its transport, so each module
  has its own.
* The `let Some(endpoint)` of the delivery task always matches: the column is NOT
  NULL.
* In `Vapid` and `PushClient` base64, JSON, protobuf, HTTP, TLS and cryptography are
  what the checks find in them. A request that never answers is a `Fail` that does
  not come: the requests of the listener crate have the timeout their caller's client
  has. The size limits of answers are among the failures. A login is refused by the
  number of ids; the limit on the length of each has the same effect.
* Key material in a session that is not base64 or has the wrong length never arises
  from the code; `decrypt` refuses it.
* `McsStream` leaves the capacity of the buffer out, and the branches for overflows
  of `usize`, which lengths of at most 4 MiB do not reach.
* Time is modelled in `UpDelivery` only, and a reading of the clock in `Vapid`.
  Elsewhere a timeout is a failure that may come at any moment.

Not modelled:

* The *shim*, except for its heartbeat. Its one executor thread calls the Firebase
  classes of the application it is patched into, by reflection, and sends broadcasts
  to them. What they do is not in the repository, and the order of their callbacks
  is Android's.
* The *patcher*: an offline command that rewrites the files of an APK once, without
  concurrency, protocol or state between runs. What could be wrong is in the formats.
* `validate.rs`, and the hashing in `auth.rs`: pure functions over bytes.
* The fields of the requests to Google and of its answers (`request`, `register`,
  `new_mcs_login_request`, `decode_login_response`), the protobuf code generated from
  its schemas, and build files. `/health` only reads.

## 7. Open

What a next step would take up, most valuable first. Modules to be proved about
have no RECURSIVE operator.

1. A composition of `PushClient` with `Registration`: a session and its registrations
   are stored by the bridge in steps of their own.
2. The shim's preferences against the bridge: whether a registration after an
   unregistration goes out (`PushCompatShim.kt:463`).
