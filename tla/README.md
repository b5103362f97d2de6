# A TLA+ verification of nodebus

nodebus delivers notifications of *nodes* (services that report something) to
the devices of the users who follow them. This directory holds TLA+ modules
translated from its code, the TLC configurations that model-check them and the
theorems TLAPS proves about them.

- [The system](#the-system)
- [Modules and how they correspond to the code](#modules-and-how-they-correspond-to-the-code)
- [Runs](#runs)
- [Where the code departs from what it says](#where-the-code-departs-from-what-it-says)
- [Fairness](#fairness)
- [Proofs](#proofs)
- [What is not modelled](#what-is-not-modelled)
- [Plan](#plan)

To repeat a check: `tlc -config MCTransmitter.cfg MCTransmitter`; to repeat a
proof: `tlapm TransmitterProofs.tla`.

## The system

| part | code | state | operations | talks to |
|---|---|---|---|---|
| web site | `web/` | Mongo collections users, nodes, roster, messages, clients, queue; sessions | sign up, in and out; create, import, rename, share, delete a node; follow, unfollow; page through messages | browsers; everybody else reads its database |
| API server | `api/` | the same database | post a message; register and delete a device; page through messages | nodes, phones |
| mail plugin | `push/plugins/message.js` | one variable per plugin, the database | turn a mail into a message of a node | SMTP clients |
| transmitter | `transmitter/index.js` | what it waits for, the batch of this poll | poll for new notifications, look up users and devices, push, mark as sent | database, MQTT broker, APNs |
| its MQTT client | `transmitter/lib/MQTTClient.js` | connected, sessionOpened, one timer | connect, publish, ping, give up | broker |
| its feedback client | class `Feedback` of `apn.js` | one socket, an interval, one buffer for all connections | ask Apple which devices are gone, put its tuples together | Apple's feedback service |
| MQTT development pair | `andriod/mqtt/` | the server: a buffer, a packet and a timer per client | put packets together from chunks, answer them; a client that takes each chunk for a packet | each other |
| its APNs connection | `transmitter/lib/apn.js` | one socket, packets not written yet, notifications written last | send, resend after a refusal, replace the socket | Apple's gateway |
| Android push service | `PushService.java` | preferences, alarms, one MQTT connection, monitor | start, stop, connect, keep-alive, reconnect, connectivity changes, connection lost | broker, Android |
| Android app | `NodebusActivity.java`, `API.java` | message list, three cursors, credentials | log in and out, load, refresh, load more | API server, push service |
| iOS app | `ios/inodebus/` | the same, with one request state for all requests | the same, asynchronously | API server, APNs |

They meet in two places. The database is shared by web, API, mail plugin and
transmitter, which read it in several steps while the others change it. The
broker connects the transmitter and the push service.

What is hard in each of them, and what makes them correct:

- **Push service.** Every MQTT client has a thread of its own whose
  `connectionLost` takes no lock, while the life cycle, the alarms and the
  connectivity receiver run on the main thread, partly under the monitor. The
  process may be killed at any point and is restored from one saved flag. It is
  correct when a stopped service has neither connection nor retry, when no
    connection is overwritten and left open, when a crash restores exactly what
  was running, and when a started service that is online tries to connect again.
- **Retry timer.** The interval is saved across restarts, grows by four, and
  the alarm is set on the wall clock. Correct: interval in range, next attempt
  near.
- **Transmitter.** Roster and devices change between its two reads; the update
  that marks a notification is not acknowledged; the process dies anywhere.
  Correct: everybody entitled is served, nobody twice, and the loop goes on.
- **MQTT client.** One timer, set again by three callbacks and one call, is all
  that notices the end of the connection. Correct: it is always set once the
  session is open.
- **APNs connection.** The handlers of all sockets use the one variable
  `self.socket`; packets wait in a cache while sockets come and go; a refusal
  makes the gateway drop what followed. Correct: packets in order, none lost or
  doubled in the client, and what followed a refused packet is sent again.
- **Byte streams.** TCP keeps bytes in order but cuts them anywhere. Correct: a
  reader finds the packets or tuples that were written, whatever the chunks.
- **Accounts.** Sign-ups race for a name and their insert is not acknowledged;
  devices forget their user before the server does, and requests they gave up
  arrive later. Correct: a session belongs to somebody who proved who he is, and
  a device is registered for the user it shows.
- **Message lists of the apps, and the home page.** Pages and "since" cursors against a growing
  list, failing requests, and on iOS answers that overtake each other. Correct:
  every message once, none left out, newest first.
- **Mail plugin.** Overlapping SMTP sessions share `self.__node`. Correct: a
  message is stored under the node it was addressed to.
- **Web.** Check-then-insert of node names, a roster written after its node,
  inserts and removals of several rows with other requests between two rows,
  inserts that hide their errors and stop half way, updates that insert, a
  deletion in three operations. Correct: a subscription has its row of the user
  and its row of the node, every node is visible to its owner, a deleted node
  leaves no messages.

`PROJECT.json` lists these as hazards, each at its line, with the properties
that are about it.

## Modules and how they correspond to the code

`map` in `PROJECT.json` gives the lines of every definition. A step is a
stretch of code that nothing else can interrupt: a callback in JavaScript, and
in Java a stretch in which no field is touched that another thread uses.

**PushService** models `PushService.java`. The main thread and one thread per
MQTT client have a program counter each; `lock` is the monitor of the service.
`start`, `stop`, `connect`, `keepAlive`, `reconnectIfNecessary` hold it,
`connectionLost` and the receiver do not. Preferences and alarms survive
`Crash`; `NullDereference` is the exception that ends the process when
`mConnection` became null between a test and a use. Intents of alarms
(`pending`) and connectivity broadcasts wait for the main thread. The outcome of
`MqttClient.connect` and of the subscription is free. The broker closes older
sessions of the same client id (`ConnectOpens`), which is how a replaced client
comes to report its loss late. Timers fire at any time while set.

**RetryBackoff** refines that last abstraction for the reconnect alarm:
`scheduleReconnect` with clock, start time and saved interval. It is a module
of its own because its state (numbers) and its questions are others; it has one
thread because `scheduleReconnect` only runs inside the monitor. `measured` is
a history variable: from which start time the alarm that is set was measured.

**MqttClient** models `transmitter/lib/MQTTClient.js` with the listeners that
`index.js` attaches: `tcp`, `connected`, `sessionOpened` and whether the one
timer is set. It declares actions over its own variables and has no `Next`.

**Transmitter** extends it and models `transmitter/index.js`: `phase` is the
callback the loop waits for, `batch` what this poll still has to do, `logins`
the result of the first read, `marks` the updates on their way. `Others` are the
web, API and mail server changing `created`, `roster` and `owner` at any moment.
One node is modelled: the loop treats notifications one after the other and
keeps nothing from one to the next but `logins`, which each overwrites, so
another node adds nothing that another roster does not. `offered`, `dropped`,
`excused` and `entitled` are history variables; `excused` names the
notifications that met a fault, `entitled` the devices that should have got it
throughout. The constant `UsersCallsBack` says whether `nodes.users` calls the
callback that `send` gives it. It does not (see below), so the callback and all
that follows it are checked for what they do as soon as it is called.

**Delivery** is what the transmitter promises: a notification is done in one
step, in which every device that was entitled to it all the time gets it and none
gets it twice, and a fault may excuse it. `Promise` in Transmitter instantiates it
with `done` for the notifications whose mark is set or on its way and `given`
for what was handed to APNs or to the MQTT client; the polling, the two reads,
the process and the connection are stutters.

**ApnConnection** models the class `Connection` of `transmitter/lib/apn.js`: the
`readyState` of every socket ever opened, which of them have listeners,
`self.socket`, the two caches, the closures given to `nextTick`, and what was
written to each socket. A packet is its identifier; a notification is an object
whose `_uid` each sending overwrites. `Closes` and `Fails` are the events of a
socket that is down already: `socket` may be another one by then.

**Roster** models the requests of `web/routes/node.js` and the posting of
messages in `api/index.js` with the helpers of `web/db.js`. Each request in
`task` is at the database operation it has to make next (`at`), and everything else
may happen in between. An operation on one document is one step. MongoDB isolates
no operation on several: an insert of two rows takes two steps (`InsertRow`), and
ends at the first row that the unique index already has, unnoticed; a removal
first finds its rows and then meets them one by one, in any order
(`RemovalBegins`, `RemoveRow`, `RemovalEnds`), all that it found (`left`) and
perhaps one that is inserted meanwhile. `Abort` cuts a request short at any of these
points. The removal of the messages of a deleted node is one step nevertheless:
one that it misses was stored while it ran and is as good as stored after it. The
rows of the services event and status are left out; `nodes.users` drops them, and
nothing else reads them. `nodes[n]` is "whole", or
what an update that inserts leaves behind: "ghost" (neither owner nor key),
"keyless" (an import gave it an owner again).
A request starts at its first look-up, because one that fails there leaves no
trace. Sharing reads the user first; users are never deleted, so that look-up is
left out. The name of a node starts with the login of its owner (`Owner`).
`GenRoster` is the task that writes the rosters of a user's nodes again.
`cut`, `torn`, `resurrected` and `late` are history variables; they name the
exceptions of the properties. `torn` has the subscriptions of which an insert and a
removal ran at a time, or one of them was cut short between the rows; a removal
that is alone mends them.

**Backend** extends it with the SMTP sessions of `push/plugins/message.js`:
`rcpts` of each session and `held`, the field `__node` of the plugin object.
The look-up of a recipient and what its callback does are one step, at the time
the callback runs; a recipient that is refused changes nothing.

**Feed** models the cursors of `API.java` (`last`, `since`, `page`, `finished`)
and the list of `NodebusActivity.java` against the messages endpoint. A request
and its answer are one step: the client blocks, and what the server reads twice
(roster, then messages) can be ordered as if read at once. Between two requests
anybody may store messages, also with an id older than one already seen, and
change the roster. `flaws` is a history variable: which of the things happened
since the log-in that the list does not survive. The properties say that nothing
else harms it.

**HomePage** extends Feed with the pages of the site (`home` in `web/index.js`),
which unlike the app count from the newest message of the moment, and read
roster, messages and charts in three steps. `seen` and `due` are history: what the
visitor was shown since the first page, and what there was then.

**Accounts** models who uses the system. A login name and a password are values;
an `_id` is a number that the driver makes for each document. A sign-up is two
steps, the look-up of the name (`SignupValidated`) and the insert with what the
visitor gets (`SignupInserts`), because others sign up in between. The device side
is `doLogin`, `doLogout` and `onCreate` of the activity against `register_client`
and `del_client`. The activity waits for one request at a time (`waiting`); a
request that it gives up on was not served, was served, or will be (`late`).
That the process ends between the commits of one `setUser` or `clearUser` is left
out.
`proven` and `stale` are history: the account a browser may be logged in as, and
the devices on which something went wrong since their last accepted registration.

**MqttLink** extends MqttClient to the client of `andriod/mqtt/client.js` (its
`MQTTClient.js` is the transmitter's, apart from logging) with the server of
`mqtt.js` and `server.js` at the other end of two byte streams. A byte is its
packet's kind and its position in it; a packet has just the bytes it takes to cut
it everywhere that matters (behind the header byte, behind the length, behind the
topic). `Assemble`, `KeepWaiting` and `Trip` are the ways through `accumulate`: no
packet begun, one begun and not complete, one begun and completed. Timers fire at
any time, so a discard may hit any packet that is not complete.

**Feedback** models the class of that name in `apn.js`: the interval and its
request, sockets as in ApnConnection, and `processData`. A byte is its connection
and its position. Unlike there the listener of "secure" sits on the pair and survives
`removeAllListeners`, so `SecureSocket` throws when `self.socket` is gone or is
another one that is not open yet; an "error" of a socket that has lost its listeners
ends the process (`Closed`).

Components meet where the code does: Transmitter contains MqttClient, and Backend
puts the mail plugin beside web and API on one database. Transmitter and Feed
have the database change under them on their own, in more ways than Roster does:
composed with Roster they would see fewer behaviours, not others. The APNs
connection is not composed with it: the transmitter calls `sendNotification`
and looks at nothing it returns, so `ApnConnection` takes that call as an input
(`ToApns`) that may come at any moment.

`PushServiceProofs`, `RetryBackoffProofs`, `TransmitterProofs`,
`ApnConnectionProofs`, `BackendProofs`, `AccountsProofs`, `SiteProofs` (Feed,
HomePage and their composition with Accounts) and `StreamsProofs` (MqttLink and
Feedback) hold the theorems;
`MC*` declare symmetry sets and values of constants. `MCStreams` and `MCSite` also
put modules into one run that share no state, or only initial state: `stream` and `part` say which one a behaviour is about, the others rest, and the state
spaces add up instead of multiplying. MCBackend does the same with two requests and
with one request and the mail server.

## Runs

| run | cfg | instance | asks |
|---|---|---|---|
| `push_service` | MCPushService | 2 clients, 1 broadcast under way, 1 crash | type, five safety properties; a set retry is attempted, a killed service resumes |
| `retry_backoff` | MCRetryBackoff | intervals 1 to 10, 24 ticks, clock set back once | interval range, distance of the alarm, reset by the alarm |
| `transmitter_safety` | MCTransmitter | 2 notifications, 2 users, 2 devices, 2 changes, 1 fault | timer set, nobody left out, nobody twice, implements Delivery |
| `transmitter_live` | ...Live | 2 notifications, limit 1, 1 fault | notifications are sent, the process gets a connection or exits |
| `apn_safety` | MCApnConnection | 6 notifications (1 too long), 4 sockets, cache of 3, 3 faults | own socket, order, no loss, survival |
| `backend_safety` | MCBackend | 1 node, its owner and another user, 2 requests at a time, or 1 beside 1 SMTP session; any number cut short | type, what holds of roster, nodes and messages |
| `site_safety` | MCSite | lists and pages: 5 messages, 2 nodes, pages of 2, 1 roster change, 1 failed page; accounts: 2 names, 2 passwords, 2 browsers, 1 device, 3 sign-ups, 2 requests given up | list: each once, none missed, newest first; pages miss nothing; sessions are proven; devices are registered for their user |
| `streams` | MCStreams | a session with a subscription, a publication and 2 pings; 3 connections with 2 tuples of 3 bytes and 2 losses; every cut | packets in order, clean unless cut, publications genuine, tuples in order |
| `push_not_kept_active`, `transmitter_stuck`, `apn_resend`, `mail_wrong_node` | | | violated: see the next section |

What they show:

- **push_service.** Despite the unlocked `connectionLost`, `StoppedIsDisconnected`,
  `RestoresWhatRan`, `ReceiverIsRegistered`, `StoppedHasNoRetry` and
  `NeverOverwritesConnection` hold under every interleaving. The last is the
  surprising one: whoever nulls `mConnection` early never makes a second
  `connect` overwrite a client, because `connect` assigns inside the monitor and
  is entered only with the field null. The retry alarm is not
  lost although three places cancel it; `onCreate` restores a killed service.
- **retry_backoff.** `RetryInRange` and `AlarmIsNear` hold, the second unless the
  clock is set back. `AlarmRetryResets` says something a reader of
  `scheduleReconnect` may not expect: when the alarm is what retries, at least
  the saved interval has passed since the start time, so a failure resets the
  interval to the initial one. The back-off only grows between attempts that
  something else makes.
- **transmitter_safety.** `SentToAll`: a device whose user was on the roster all the
  time, with the same user, is pushed every notification that is marked,
  although users and devices are read in two steps. `OfferedOnce`: only a fault
  that hits the notification itself can make a device get it twice.
  `ImplementsDelivery`: read as a whole, the loop does what Delivery allows and
  nothing else; in particular, a notification is never handed out without being
  marked, nor after it was done, but for faults. A push without a connection counts (`dropped`): the
  code marks those too.
- **transmitter_live.** If the callback were called, every notification would be
  sent, expire, or see the process end. `ConnectedOrExits`: a process that is not
  connected yet, or whose broker ended the connection, gets a connection or exits;
  whoever runs it has to start it again. It takes that the timer is set, as it always
  is once the session was open (`TimerIsSet`). It is not when the timer went off while
  the client waited for its CONNACK: that process stays, connected or not.
- **apn_safety.** `OwnSocket`: a handler that uses `self.socket` finds its own
  socket as long as that is not closed. `WireOrder`, `NothingLost`: between the
  cache and the sockets no packet is lost, doubled or overtaken. `HeldMayFail`:
  only the events of a socket that was already replaced can throw.
- **backend_safety.** `RosterSymmetric`: creations, imports and shares at a time, and
  removals at a time, leave no half subscription, although none of them looks
  before it writes and each goes row by row: an insert that stops at its first row
  may, because whoever wrote that one writes the second; a removal has found both
  rows. What does leave half a subscription are an insert and a removal that
  overlap, and a request that is cut short between two rows; a later removal
  mends it. `OwnerKeepsNode`: a whole node that its
  owner cannot see is one whose creation or deletion is under way or was cut
  short, or one that `rename` brought back. `DeletedTakesMessages`: what stays of
  a deleted node was stored by a sender let in before, or a cut-short deletion
  left it.
- **site_safety.** `EachOnce`: counting pages from `last` keeps them apart while new
  messages come and refreshes put them on top; it needs that nothing moves below
  the cursor and that there is a cursor. `NothingMissed`: once `finished`, the
  list has every message up to `since`, unless a page failed (its number is gone)
  or more came between two refreshes than fit in one answer. `NewestFirst`: in
  order, unless a refresh brought several, which are put on top one by one.
  `PagesMissNothing`: the pages of the site may repeat messages that arrivals pushed
  down, but hide none unless a node left the roster. `SessionIsProven`: of two
  sign-ups for one name, both of which are told they succeeded, the loser is
  logged in as nobody. `RegisteredForUser`: users may follow each other on a
  device, change passwords and answer late; what can leave the device registered
  for somebody else is a log-in or log-out that got no answer, a refused request,
  or a late one that names another user or removes the present one.
- **streams.** `CleanUnlessSplit`: any number of packets may share a chunk; only
  a chunk that ends inside a packet can stop the server or leave it with timers.
  `FramesInOrder`: even then, as long as it runs it has lost and repeated
  nothing. `DeliveredGenuine`: the client needs every chunk to be one packet.
  `TuplesInOrder`: the tuples come out whole and in order, unless a lone last byte
  was dropped or a connection ended inside a tuple.

Bounds. Two clients are one that is lost and one that is current or being
constructed; with one broadcast and one crash that is every pair the code can
confuse, and what needs more is settled by the proofs, which hold for any number
of them. `pending` holds each intent at most once, as the system does with equal
pending intents.
24 ticks let the interval reach its cap and an alarm set there go off. Two
users and two devices let a device change hands between the two reads, and two
notifications with a limit of 1 or 2 make a poll either stop early or go on.
Four sockets are the one in use, one that replaced it, and two faults more; a
cache of three overflows with six notifications. Two requests on one node meet at
every pair of steps (of the states that differ only in what nothing reads any
more TLC keeps one, see `View` in MCBackend); the mail server, which only adds messages,
is checked beside one request, and the proofs have any number of both; requests on
different nodes share nothing but the plugin's
field, and `mail_wrong_node` has two nodes for that. Five messages make three
pages of two, the last one not full. Three sign-ups let two race for a name while a
third takes another; two requests given up are one of each user that shares the
device. Two pings make a chunk that ends one packet and begins the next possible
after the session is open; three connections are one that ends inside a tuple, one
that continues its buffer, and one after that. Every action of every module
fires in some passing run, and each property is violated once one definition is
changed the way a plausible slip would (`mutants` in `PROJECT.json`; the changed
definitions stand next to the original ones).

Symmetry (clients, users, requests, nodes and sockets that only differ by name) is
used in safety runs only. `CHECK_DEADLOCK FALSE` is set where the system may
stop: the bound on time is reached, the process of the transmitter ended and
nobody starts it, or all notifications are sent.

## Where the code departs from what it says

| run | what happens | what is said |
|---|---|---|
| `push_not_kept_active` | The link breaks while `connect` runs: `connectionLost` finds nothing to null, then a connection, and does nothing; the dead client is assigned and its keep-alives are off. Nothing tries again while the network stays. | `PushService.java:85` "to keep the connection active" |
| `transmitter_stuck` | `nodes.users` takes one parameter and returns a promise; the callback `send` gives it is never called. After the first notification it finds, the loop waits for ever, while the MQTT client keeps the process alive. | `transmitter/Readme.md:4`, `transmitter/index.js:79` |
| `apn_resend` | The closures given to `nextTick` share the variable `note`: the last notification is sent as many times as there were, the others never. | `apn.js:145` "resend all following notifications" |
| `mail_wrong_node` | The node of the last recipient of any session is kept in the plugin; a session that sends its data later stores its message for that node. | `web/views/api.jade:9` mails `user.node-key@push.nodebus.com` to notify that node; `doc/data.md:62` |

Each of these runs checks one property under the specification of the component
and TLC finds it violated. The two that are about progress are checked under
the fairness below.

More slips are part of the models without a run of their own, since the checked
properties survive them or name them as exceptions. A client whose subscription
failed is never assigned (`SubscribeFails`), so `stop` cannot disconnect it.
`connectionLost` nulls `mConnection` whatever it
holds (`LostForgets`), so a client that was replaced takes the live replacement
with it, and it may do so between a test and a use (`NullDereference`). And what
is sent again while the refused APNs socket is ending waits in `offlineCache`
until something else is sent (`WriteOrKeep` with the socket in `readOnly`). The
check that a node's name is free looks for a field nodes do not have (`Create` has
no guard). `rename` inserts a node that was deleted meanwhile (`RenameNode`), and
the owner of such a node can unsubscribe from it. A packet that reaches the
development server in two chunks ends its process: the second call of `accumulate`
uses a local variable that only the first one set (`Trip`), although the comment at
`mqtt.js:208` says "Haven't got the whole packet yet, wait for more data". A
header byte that arrives alone is never looked at again, and the timers of
`accumulate` but the newest cannot be cleared. The client takes chunks for packets.
`processData` stops one byte short of the end, and its buffer outlives the
connection; `request` may replace a socket whose `close` has not been emitted,
whose listeners then find the new one. The insert of a sign-up is not acknowledged
(`SignupInserts`). The device clears its user whatever `del_client` answers.
A share that overlaps
with an unsubscription or a deletion, or that is cut short, leaves one row of the two
(`torn`). A first refresh of an empty list
that brings a full page leaves the rest out of reach, since `finished` stays set.

## Fairness

- *PushService.* `FairSpec`: threads go on with what they are in the middle of, a
  `connect` ends or throws, a thread waiting for the monitor gets it in the end
  (strong fairness, since others take it in between), alarms go off, their
  intents and the broadcasts are delivered, and the system recreates a service
  it killed. Nothing is assumed of the user, of the network, or of the outcome
  of a connect. `FairestSpec`, used only for `KeepsConnectionActive`, also lets
  keep-alives go off and be handled: the property fails even so.
- *Transmitter.* The database answers, timers fire. Nobody is assumed to start
  the process again.
- The other modules are checked for safety only.

## Proofs

TLAPS proves, for every value of the constants that satisfies the named
assumption of the module (`ConstantsAssumption`, `RetryAssumption`,
`TransmitterAssumption`, `ApnAssumption`, `RosterAssumption`,
`BackendAssumption`, `AccountsAssumption`, `FeedAssumption`, `LinkAssumption`,
`FeedbackAssumption`; TLC evaluates them in every run):

| module | theorems |
|---|---|
| PushServiceProofs | `Safety`, `TypeCorrect`, `StoppedDisconnected`, `CrashSafe`, `UnregisterSafe`, `StopCancelsRetry`, `NoOverwrite` |
| RetryBackoffProofs | `Safety`, `RetryStaysInRange`, `NextRetryIsNear`, `AlarmsDoNotBackOff` |
| TransmitterProofs | `Safety`, `TypeCorrect`, `OfferedMarked`, `NobodyLeftOut`, `OfferedAtMostOnce`, `TimerStaysSet`, `Implements` |
| ApnConnectionProofs | `Safety`, `TypeCorrect`, `HandlersSeeOwnSocket`, `PacketsInOrder`, `NoPacketLost`, `LossIsSurvived` |
| BackendProofs | `Safety`, `TypeCorrect`, `SubscriptionsAreSymmetric`, `NodesStayWithOwner`, `MessagesGoWithNode` |
| AccountsProofs | `Invariance`, `TypeCorrect`, `SessionsProven`, `DevicesRegistered` |
| SiteProofs | `ListInvariance`, `ListHasEachOnce`, `ListNewestFirst`, `ListMissesNothing`, `HomeInvariance`, `HomeMissesNothing`, `SiteTypeCorrect`, `SiteCorrect` |
| StreamsProofs | `StreamsInvariance`, `StreamsTypeCorrect`, `PacketsInOrder`, `ServerCleanUnlessSplit`, `PublicationsGenuine`, `TuplesStayInOrder` |

In each, `IInv` (in SiteProofs `ListInv`, `HomeInv` and `SiteInv`, in StreamsProofs
`LinkInv`, `FeedbackInv` and `StreamsInv`) is the inductive invariant; `Init => IInv`
and `IInv /\ [Next]_vars => IInv'` are proved action by action, and the
properties follow. The theorems with a name of a part (`SessionsProven`,
`ListHasEachOnce`) are about the specification of the module itself, with no other
part beside it; `SiteTypeCorrect`, `SiteCorrect` and those of StreamsProofs are about
the specification the run checks. `SiteCorrect` has all properties of the three parts:
`EachOnce`, `NothingMissed`, `NewestFirst`, `PagesMissNothing`, `SessionIsProven` and
`RegisteredForUser`.

- *PushService.* The safety properties are not inductive: that a stopped service
  holds no connection needs that `connect` runs only in a started or starting
  service (`ConnectInv`), which needs that the thread inside it holds the
  monitor (`LockInv`), that `stop` saved its flags before it lets go (`StopInv`),
  and that a destroyed instance leaves nothing behind (`DeadInv`).
- *RetryBackoff.* The alarm is at least the saved interval later than the start
  time it was measured from (`MeasuredInv`); so when it goes off, that much time
  has passed, and `Interval` takes its other branch.
- *Transmitter.* Between the two reads the first result still covers whoever is
  entitled (`EntitledInv`): entitlement is lost with every change of roster or
  owner that concerns it. What is in the batch is not marked (`BatchInv`).
  `Implements` maps each step to Delivery: the answer of the second read is
  `Deliver`, the failure of it, a lost update and a death among the pushes are
  `Fault`, changes of roster or devices are `Loses`, all else stutters; it takes
  the two reads from `EntitledInv` and that nobody was served before from
  `OfferedIsMarked`. `TimerIsSet` needs `TimerInv`: the timer is off only after a
  timeout that found no CONNACK, and then `send` was never called.
- *ApnConnection.* At most one socket is closed with its events still to come,
  and if it has listeners some socket is held (`SocketInv`): hence the close of
  the held one finds a socket. Identifiers in cache and sockets are smaller than
  the next one (`WireInv`): hence appending keeps the order and the uniqueness.
- *Backend.* `RosterSymmetric` follows from `Intact`, which says of a subscription
  that is not torn what is half done: never an insert and a removal at a time, an
  insert under way has written its first row, and every removal under way has
  still to remove whatever rows there are. `OwnerKeepsNode` needs that only pages of a node
  that was read without its owner can unsubscribe the owner (`PageOfGhost`), that
  only `rename` makes such nodes (`GhostIsResurrected`), and that the roster is
  initialised by the owner (`InitByOwner`). The type of `messages` needs
  `HeldWhenNeeded`: a session with a recipient finds a node in the plugin.
- *Accounts.* No `_id` in use is still to come, and no two documents have the same
  (`IdsFresh`, `IdsUnique`): hence a session whose document was refused never comes
  to belong to a later one. For the devices, `InStepAt` says what the registry holds
  also while a request is under way: the user who is logged in, or nobody or the
  one who logs in; and `NamedAt` that only a user who is logged in asks to be
  removed, so that the removal finds its own registration.

- *Feed and HomePage.* What a page holds is said with ranks: the rank of a message
  is the number of messages of a set that are not older than it, and page n of the set
  has those whose rank is above (n-1) * `Count` and at most n * `Count`.
  `NothingMissed` alone is not inductive: it says something only once `finished`. The
  invariant says for every moment which messages the list has: those on the pages
  that were asked for, and those that came with refreshes (`Paged`, `Newer`). It needs
  that the cursors agree (`Cursors`), and that nothing below `last` moves unless a flaw is
  marked, so that the ranks there stay what they were. On the home page ranks do change:
  they only grow while no node leaves the roster, so a message that was not yet shown
  has not slipped to an earlier page (`Unseen`). While a page is made its roster is the
  one of an earlier moment, and the message is behind the page in that one, too (`Making`).
- *MqttLink.* `FramesInOrder` speaks of the packets in bytes that are cut and joined
  anywhere. Two facts carry it: the packets in a \o b are those in a, then those in
  b (`FramesConcat`), and what is read of written packets is those packets
  (`FramesOfStream`). Both are facts about `FlattenSeq`, which is recursive; they are
  proved by contradiction at a least counterexample (`LeastElement`, from the theorem
  that < on Nat is well-founded). `DeliveredGenuine` needs `Subscribed`: the one
  subscription is written when the session opens, and for each that was handled the server
  has published or owes it; hence nothing was published when a session opens.
- *Feedback.* What is buffered is what the one attached connection has sent of a tuple
  (`OneAttached`, `Continues`), and all that was received is aligned at tuples
  (`Aligned`); `Remainder`, `Division` and `WholePart` are the arithmetic of it.
  `FeedbackAssumption` asks for a tuple of more than one byte, because the lone byte that
  `processData` drops would otherwise be a tuple; in the code it has 38.

Only model-checked: the four properties that say something will happen
(`RetryIsAttempted`, `ResumesAfterCrash`, `NotificationIsSent`,
`ConnectedOrExits`). They rest on fairness, whose meaning is stated with ENABLED,
and the prover has no support for it. Every other property of a passing run is a
theorem. The runs that expect a violation have nothing to prove.

## What is not modelled

The layout of MQTT, APNs and HTTP messages; pages that only show something, forms
and their wording; logging, notifications on the screen, widgets (the
pull-to-refresh list), the boot receiver (one call of `actionStart`) and the
connection log. The iOS app is a second client of the same API: its list pages like
the one of Feed and its log-in is the one of Accounts, but its requests overlap
and share `_state`, which is not modelled. `Notification` and `Device` of `apn.js`
only fill a buffer. `web/lib/monit.js` counts documents for a report, and
`web/lib/parseNodes.js` turns the lines of a form into records: neither keeps a
state. Third-party code (`ios/asi-http-request`, `ios/json-framework`,
`Base64.java`, `bootstrap-*.js`, `push/lib/mime-functions.js`), the mail server's
configuration, blog and assets are left aside. `sendNotification` reports a
notification that is too long to its caller, and `toApns` ignores it: such a
notification is marked and never sent. `ApnConnection` has one (`Big`), but no
property is about it, since the repository does not say what should become of it.

## Plan

All of it is done: PushService with its proofs, RetryBackoff, Transmitter with
MqttClient, ApnConnection, Roster and Backend, Feed and HomePage, Accounts,
MqttLink and Feedback, Delivery with the proof that Transmitter implements it, and
proofs of every safety property the runs check.
What could still be added, each for its own sake: the message list of the iOS app
under its overlapping requests; the registrations of Accounts in the place of the
free changes of `owner` in Transmitter, which allow more than they do; and abstract
specifications of the connection and of the subscriptions, whose content the
invariants of PushService and Roster state already.
