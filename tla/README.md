# EasyMatrix: models, checks and proofs

EasyMatrix puts the Beeper Desktop API in front of gomuks, a Matrix client
library. It is a Go HTTP server (`internal/server`) on one gomuks runtime, and
the same server as a shared library (`cmd/ffi`) that JavaScript loads and calls
(`src/*.ts`). This directory holds TLA+ models of its stateful parts, TLC runs
on small instances of them, and TLAPS proofs about seven of them.

All paths below are relative to the repository. Every definition that models
code is listed with its lines in `PROJECT.json`, under `map`.

## 1. The system

### Components and their state

| Component | State | Operations | Correct when |
| --- | --- | --- | --- |
| Realtime hub, `internal/server/ws_events.go` | `wsHub.clients`, a queue of 512 events, per client `chatIDs`, `seq`, `writeMu`, a transport | subscription to gomuks, `open`, commands of a client, `run` (fan-out of syncs, pings), `write`, `unregister` | `ready` comes first; a client gets what was fanned out to it, in order, numbered without gaps; transports are closed once; nothing waits for ever |
| Duplicate filter, same file | `recentFingerprints`, `lastFingerprintPrune` | `dropDuplicate`, `pruneFingerprintsLocked` | answers are those of a window over all offers; the map stays small |
| OAuth, `connect_oauth.go`, `connect_oauth_store.go`, `connect_public.go` | three maps in memory, one JSON file | register, authorize, redeem a code, issue a token, revoke, load | a code gives one token; what was sent survives a crash; what was revoked stays so |
| gomuks runtime, `internal/gomuksruntime/runtime.go` | the data directory, the gomuks client, `GOMUKS_ROOT` of the process | `New`, `Start`, `Stop`, `SubmitJSONCommand`, bootstrap from the environment | the directory is the configured one; one client lives; one session is made |
| Embedded runtime in Go, `internal/embedded/runtime.go`, `cmd/ffi/main.go` | `started` under `mu`, tables of handles and realtime clients | create, start, stop, destroy, requests, realtime connect, send, close | nothing is left after a stop |
| Embedded runtime in TypeScript, `src/runtime.ts`, `src/realtime.ts` | the handle, `realtimeConnections`, a backlog for each connection | `start`, `stop`, `connectRealtime`, `onmessage`, `close`, the adapter | a connection hears its own stream, whole, once and in the order it was sent |
| Assets, `assets.go` | cached files, temporary files, uploads with metadata | download into the cache, upload, look-up for a message | a cached file is complete; no file is left behind; what is attached is what was uploaded |
| Chats, `accounts_chats.go`, `search_actions.go` | none of its own: rooms and account data in gomuks' database | pages of chats, archive, the account of a room | a walk misses nothing and repeats nothing |
| Messages, `messages.go`, `search_actions.go` | none of its own: the timeline | pages and searches, edit, react, remove a reaction, delete | the same for a walk; what was removed stays so, and nothing else goes |
| Contacts and new chats, `search_actions.go` | none of its own: rooms, the bridge's contacts | `listContacts`, the merging of what several sources tell, `createChat` | nobody is passed over; nothing known of a person is lost; no second chat with one person |
| Manage page, `manage.go`, `manage_auth.go` | in the browser: `beeperRequestID`, the fields, what is shown | log in with a password, a token or a Beeper code, verify, issue a token, poll the state | what it says is so; a token goes where it belongs; it comes to show the state of the client |
| Authentication, routing, configuration, cursors, errors, types | none | compare, parse, encode | – |
| Server command, scripts, examples | none | start once, build | – |

### How they interact

* gomuks syncs in its own goroutine and calls the hub's listener, which must not
  block: it puts the event in a queue or drops it.
* The hub's `run` goroutine maps syncs to domain events, asks the duplicate
  filter, and writes to clients. Each websocket has a reader goroutine that
  writes to the same transport; `writeMu` keeps their messages apart.
* In the embedded case the transport is a C callback into JavaScript. Calls from
  JavaScript into Go are synchronous; JavaScript itself gives way at every `await`.
* Handlers of HTTP requests run concurrently. They read gomuks' database, which
  changes between two requests of one client, and files, which other requests
  and earlier processes write.
* The manage page and the bootstrap both log in the one client of the runtime. The
  script of the page gives way at every call, so clicks overlap and share its fields.
* gomuks sends reactions later than the handler answers, and hears of redactions
  by syncing.
* OAuth handlers share maps under `oauthMu`, but redeeming a code takes two
  critical sections; every change is followed by a write of the whole file.

### What is hard

Interleavings (a reader, `run` and a closing client; two downloads of one URL;
two starts; two requests with one code), crashes between two writes, failed
writes, wall clocks, state read before a wait and used after it, cursors into
lists that change, limits (queue, batches, scans), lost answers and retries, and
progress: the queue must drain and dead clients must go although a write may take
five seconds, a retried removal must end, the page must catch up. The list with
lines is `hazards` in `PROJECT.json`.

## 2. Modules

| Module | Models | Kind |
| --- | --- | --- |
| `DebounceWindow` | what the duplicate filter promises: a window over the last offer of each event | abstract specification |
| `WsFingerprints` | the filter with its pruned map and the wall clock; implements `DebounceWindow` | component |
| `WsDomainEvents` | the mapping of a sync to domain events, as operators | pure |
| `WsHub` | the hub, its goroutines and transports; extends `WsDomainEvents`, uses `DebounceWindow` for the filter | composition |
| `OAuthStore` | maps, file, requests, crashes | component |
| `EmbeddedRealtime` | JavaScript turns, the native handles, hubs and callbacks | composition |
| `RuntimeLifecycle` | threads of the host, `embedded.Runtime` and `gomuksruntime.Runtime`, bootstrap, the hub's one subscription | composition |
| `Assets` | downloads step by step on the file system, uploads | component |
| `ChatList` | lists of chats, cursors, archived state | component |
| `MessagePages` | pages of messages and searches | component |
| `Paging` | a client that pages through the one or the other | composition |
| `Reactions` | adding, showing and removing reactions, with gomuks and the homeserver | component |
| `StartChat` | `createChat` and the account of a room | component |
| `Contacts` | `listContacts` over the rooms of `StartChat`, which it extends | composition |
| `ContactMerge` | one list of contacts in the making: sources, scores, merging | component |
| `ContactLists` | `Contacts` with `ContactMerge` | composition |
| `ManagePage` | the script of the manage page, its handlers, sessions and Beeper logins | composition |
| `WsFingerprintsProofs`, `WsHubProofs`, `OAuthStoreProofs`, `EmbeddedProofs`, `AssetsProofs`, `StartChatProofs`, `MessagesProofs`, `ManagePageProofs` | theorems | proofs |
| `MC*` | values of the constants for TLC | instances |

`WsHub` takes the filter by its abstract specification. That is sound because
`WsFingerprints` implements it, which is checked (`ImplementsWindow`) and proved
(`Refinement`).

Names follow the code. Conventions shared by the modules:

* An action is what runs without giving way: a critical section, a file system
  call, a JavaScript turn up to its next call of a handler, a database query with
  what is computed from it. Where the code waits for a lock, a network or an
  `await`, a new action begins.
* A variable marked *history* is read by properties only, never by a guard.
* A definition commented *Mutant of X* is X with a plausible bug. Nothing uses
  it; putting it in the place of X must break the property named with it in
  `PROJECT.json`.
* Constants commented *bound* limit the counters of a run, and are assumed to be
  no more than natural numbers by the proofs.

### State and actions against the code

**Hub.** `clients`, `chatIDs`, `seq`, `eventQueue` are the fields of the same
names. `hub` is the program counter of `run`, `reader[c]` that of `wsEvents` for
one websocket, `out[w]` the `write` that goroutine `w` is in: waiting for
`writeMu` ("lock"), sending ("send"), then, after a failure, unregistering and
closing. `wire[c]` is what the peer got. `BeginSend`, `SendOK`, `SendFail`,
`Unregister`, `CloseTransport` are the steps of a write; `Open`, `ReadText`,
`ReadBinary`, `SetSubscriptions`, `LookUp`, `ReadFails` those of a reader;
`Dequeue`, `NextEvent`, `Snapshot`, `Keepalive` those of `run`; `Emit` is the
listener. The order of rooms in a sync is that of a Go map: every order is
possible.

**Filter.** One action `DropDuplicate`; time passes in `Elapse`. The code uses
`time.Now().UTC()`, which has no monotonic reading, so the wall clock may also be
set (`StepClock`); `elapsed` is the time that really passes.

**OAuth.** `mem*` are the maps, `disk*` the file. A critical section with its
save is one action, and the save may fail (`Persist`). `Redeem` consumes a code,
`IssueToken` of the same request comes later, `Crash` and `Start` may come in
between, and `Start` may fail to read the file (`blind`). Values drawn from 12,
24 or 32 random bytes are taken to be new. Scopes and resources are copied from
record to record and left out; so are handlers that only read. The expiry that
the code computes just before the lock is part of the section. The path of the
file is never empty in this program, so the branch without a file is left out.
The static token of the configuration is there: it is loaded, never saved.

**Embedded.** A JavaScript turn runs up to its next `await`, but the message
handlers it calls may do what a turn may, so calling one is an action of its own.
`stack` has these calls, innermost first: a message goes to the listeners
(`CallListeners`), then to `onmessage` (`CallOnmessage`), and the handler acts,
returns or throws. Setting `onmessage` puts the whole backlog on the stack, one
frame for each message (`SetOnMessage`, `Flush`); the answer to a send in one of
these handlers is dispatched ahead of the frames that wait, and is marked "nested".
A handler that throws loses what is left of its flush. A send in a handler that Go
called back would wait for the lock of its own caller: the process goes no further.

`conn` has each call of `connectRealtime` and its connection, `handle` and
`connections` are the fields of `EmbeddedRuntime`, and `live`, `databases`,
`clients`, `targets` the Go side. The runtime is the application's own, or one that
`createEmbeddedRealtime` made for its adapter: then `owner` is the call whose adapter
has it, nobody else can use it before that adapter is returned, and closing the
adapter stops it (`CloseAdapter`). A request (`Invoke`) starts the runtime as
`connectRealtime` does. A native start may fail before its database is open or after
it, and then leaves the database (`broken`). The goroutine and ticker of a hub never
end in the code; they are not counted. The callback comes on a thread it was not made
for and its payload is freed by both sides: the behaviour is undefined, and the model
lets either the process end (`Abort`) or the callback run between two turns. Left
out: handlers of "close" and "error" events that call the runtime, and an `onmessage`
that is set back to null.

**Lifecycle.** Each thread of the host is in one call of the C interface:
create, start, stop, a request, or the opening of a stream. `mu` of
`embedded.Runtime` is `lock`; `withConfiguredGomuksRoot` is the steps `SaveRoot`,
`SetRoot`, `ReadDirectory`, `RestoreRoot`. A creation begins with `LoadConfig`: with
no directory from the host, the runtime keeps as its own what `GOMUKS_ROOT` says at
that moment (`stateDir`). `RAILWAY_VOLUME_MOUNT_PATH`, which stands in
for an empty `GOMUKS_ROOT` and never changes, and a `GOMUKS_ROOT` in a `.env` file
are left out. A client may fail to start before
or after its database is open. The bootstrap is the steps `BootCheck` (read the
state of the client) and `BootAsk` (submit to whatever client the runtime has
then) for token, password and recovery key. A logout by gomuks is not modelled,
here or in `ManagePage`: sessions only come.

**Assets.** Files are values, and the cache path and the temporary path name
one or none; a download holds on to its file when the path is renamed or
removed. One URL has one path of its own, so one asset is modelled, and all
copies of it have the same contents. `Crash` ends all requests. A file that was
being written when the process died, or whose write failed, is as it was, cut short,
or whole (`Left`). `Attached` reads `metadata.json` whoever wrote it: contents
uploaded under that name are read as metadata until the real ones replace them.

**Lists.** A page is one action. A page of chats reads the rooms and then their
account data, in two queries; data synced between them might as well have come before
both, and an event after both, so nothing is lost by reading at once. The
client is the `walk` with the cursors it was given. `ChatList` has times that
tie, account data that arrives later than it was written, and both marks a chat
can get. `MessagePages` has rows that are shown or hidden; the external
`Paginate` of gomuks is assumed to return from one to the limit of rows, and
none only if nothing is older. In `Contacts` the index cursor walks a list that
is merged anew for each page; a query would add sources with higher scores, but
the same pages. A walk begins at the top, up from a cursor, or up from no cursor
(`blind`), which gets the first page as if it went down.

**Reactions.** `server[e]` is where an event is: queued by gomuks, refused, on the
homeserver, redacted there by a removal ("removed") or by anyone else.
`store[e]` is what gomuks has of it, echoes included. `Look` is everything of
`removeReaction` before its loop, a round of the loop is `Redact` or
`RedactFails`, and the latter may have reached the homeserver. A key is stored
with its blanks, shown without, and removed if it has none.

**Contacts.** `ContactMerge` adds candidates in the order of their sources, each
merged into the map at once, as the loop over the finished list would. The four
fields that are merged alike are one, the detail; names and details are told apart
by the candidate they came with. Who does not match the query is not added. That
a contact is the user's own, or cannot be messaged, is left out.

**Manage page.** A click is a record: its action, the call it waits for, the answer,
and what it read when it began. `Click` is the part of a listener up to its first
call, the `Manage...` actions are the handlers, and `Continue` is what the script
does with an answer, up to the next call; any call may fail or lose its answer.
`page` has the fields that clicks share. A Beeper login is named by the click that
began it, and a token by the domain that issued it. The refreshes of the interval
are `poll`. HTML, presets and the status line are left out.

**New chats.** A request reads the accounts, then the rooms, then creates a
room, which is listed only when gomuks has synced it (`SyncRoom`); the answer of
the homeserver may be lost, or the first message fail, and the room stays.
Accounts are the bridges' logins, several of a bridge among them (`Bridge`), or the
Matrix account alone if there is none (`LoadedAccounts`). The server part of a room's
ID names a login, or just its bridge, which gives the room to the first login of that
bridge, or neither, which gives it to the first account of all (`Attributed`). That
a server names two bridges is left out.

## 3. Runs

Each run's constants are in its `.cfg`. `CHECK_DEADLOCK FALSE` is there where a
bound ends the behaviour.

| Run | Instance | Shows |
| --- | --- | --- |
| `fingerprints` | 2 events, debounce 2, pruning interval 3, retention 4, clock steps of −3 and +2 | `ImplementsWindow`: the pruned map gives the answers of the window. `MapFaithful`: it has every offer that matters. `MapBounded`: it has nothing older than the retention at the last pruning. `WrongAnswersNeedClockStep`: only a step since the last offer of that event makes an answer wrong |
| `hub` | 2 clients, 2 chats, one sync of two events, 2 and 1 payloads, queue of 1 | `ReadyFirst`, `StreamIsLog`, `StaleAtMostOnce`, `ClosedOnce` over all interleavings of `run`, readers, lost peers and pings |
| `hub_live` | 2 clients, 2 emitted syncs, one of them not a sync | `QueueDrained`, `DeadClientForgotten`, `PayloadsAnswered` under fairness |
| `oauth_store` | 1 code, 2 tokens, 2 requests, 2 crashes, a clock of 2 ticks | `AtMostOneTokenPerCode`, `HandedOutIsDurable`, `RevocationSticks` |
| `embedded` | 2 connections or requests, 2 handles, 1 event, 2 commands that Go answers, the runtime owned by an adapter or not | `OwnStream`, `NothingLeft` while no two starts overlap |
| `embedded_adapter` | the same | a violation, see Findings |
| `lifecycle` | 2 threads, 2 runtimes (one with a directory, one that looks for it in the environment), 2 clients, 5 calls | `OwnDirectory`, `OneClient`, `HearsClient`, `LoggedInOnce` |
| `assets` | 4 downloads of 2 pieces, 1 upload, 1 crash | `CachedComplete`, `TempOwned`, `AttachesContents` |
| `paging` | 3 rooms, pages of 1, 2 times, 2 writes of account data during walks and 4 without; or 7 rows, pages of 1, all patterns of hidden rows | `ReturnedOnce`, `WalkComplete`, `ArchivedAsWanted`, `PollCatchesUp`; `NoneTwice`, `BackComplete`, `ForwardMisses` |
| `contacts` | 3 users of whom two share a localpart, 3 accounts, two of them of one bridge, 2 changes, 2 requests, or 1 during a walk by pages of 1 with 2 accounts; or 3 candidates for 2 people, one of whose IDs is spelled in two ways | `OneChat`, `NobodyPassedOver`; `MergedRight` |
| `reactions` | 2 events of the user, 1 of another, 2 keys, 1 removal with retries | `RemovalSticks`, `OnlyAskedFor`, and `RetriesEnd` under fairness |
| `manage` | 4 orders of up to 4 clicks, 2 at once, 2 domains, 1 poll at once | `SentIsSent`, `TokenToItsDomain`, `LoginsAreTrue`, and `PageCatchesUp` under fairness |

Every property is stated in words above its definition, with the lines it is
about. Several of them have a condition, and the condition is the point: the
code does not promise the property without it, and TLC shows a counterexample
when it is dropped.

* `ImplementsWindow`, `MapFaithful`, `MapBounded`: a clock that was stepped ends all
  three.
* `StaleAtMostOnce`: an acknowledged change of subscriptions does not stop the
  one event whose targets were chosen before.
* `HandedOutIsDurable`: a start that cannot read the file goes on with empty
  maps, and its next save replaces the file.
* `RevocationSticks`: the error of the save is ignored on revocation, and a
  restart brings the token back until any save succeeds.
* `OwnStream`, `NothingLeft`: two overlapping starts leak a native runtime and
  mix the IDs of connections.
* `OwnStream`: while the backlog is handed over, the answer to a send in a handler
  overtakes the rest of it, and a handler that throws loses the rest.
* `NothingLeft`: a native start that fails after it opened its database leaves it
  open until the process ends.
* `NothingLeft`: an adapter destroys the runtime it owns only if its connection is
  open when it is closed, and nobody can stop an owned runtime whose connecting
  failed. A closed runtime is started again by a request or a connection that was
  waiting.
* `CachedComplete`: two downloads that write to one file let a part of it be
  seen; it is whole in the end unless a step fails.
* `AttachesContents`: an upload named `metadata.json` is replaced by its
  metadata, and if it was cut short before that, it may name another file to attach.
* `PollCatchesUp`: the first page after a cursor is the newest one; what is
  between is missed unless it fits in one page. A poll looks at the time of the last
  event alone, so it misses a room that came behind the first of the walk by an event
  with an old time, or by account data: unarchived, say, where the walk had passed.
* `ForwardMisses`, `BackComplete`: a full page forward drops the message next to
  its cursor, and enough hidden rows end a walk early.
* `ArchivedAsWanted`: archives by order and marks without a time are left out, and
  the model has one clock, so clocks of clients that differ are not covered.
* `OwnDirectory`: nothing keeps two runtimes from changing `GOMUKS_ROOT` at once, or
  one that is being created from taking as its own, for good, what another has set.
* `HearsClient`: a hub subscribes once in its life, so it is deaf after a restart
  of its runtime, or after a subscription that failed.
* `LoggedInOnce`: the bootstrap's check and its login are two steps, and the
  login goes to the client the runtime has by then.
* `OneChat`: a chat that is not yet synced is not found, nor one made here for
  another account than the first, nor one whose server names only the bridge for
  another login of it than the first.
* `NobodyPassedOver`: a contact who moves towards the part already walked is
  missed; and so are all but the first page by a walk that goes up without a cursor:
  it is told that there is more, and then gets an empty page and that there is not.
* `MergedRight`: the detail of a contact is not always that of its best source,
  and when two spellings of an ID meet, the ID may take the place of a name.
* `RemovalSticks`: a reaction added with blanks around its key is shown, and its
  removal succeeds without redacting anything; one whose redaction is not synced
  yet, or that the store did not have, is still shown.
* `RetriesEnd`: the echo of an event that the homeserver refused has an ID of
  gomuks, whose redaction fails at every retry.
* `SentIsSent`: with two requests for a code under way the page names the login of
  the later one when the code of the earlier one was sent.
* `LoginsAreTrue`: there is a session, but not always of the user or homeserver that
  was asked for; and nobody logs out.
* `TokenToItsDomain`: looking up a homeserver changes the field that a token was
  left with.

### Why the bounds are enough

The hub treats clients alike, and two of them show every conflict: one that
reads while the other blocks `run`. Two events of one sync show that targets are
chosen again for each event; a queue of one is full after one event. The clock
runs show every order of an offer, a pruning and the ends of both windows. One
code, two tokens and two requests make every double redemption, and two crashes
allow one to restore what a failed save left and one to lose it again. Four
downloads of `Assets` allow one to rename, one to fail and remove, and one to
create anew while a fourth still writes. Pages of one are the smallest with
something on either side, and three rooms or contacts leave one on each side of
a cursor; seven rows are as many as a list request and a search forward read
together. Two threads
and two runtimes make every pair of calls overlap, and five calls are a create
for each runtime and three more, so that a stop and a restart can happen around
a third call. `MaxChanges` of 2 lets the accounts and the contacts of the bridge
both change during a walk, and `MaxBegun` of 1 lets a chat be started during it;
that the bridge may fail to answer any one page is not bounded. `WalkAccounts` are
one login of each of two bridges: another login of one of them gives rooms to a
different account, which is what a change of accounts does to a walk anyway, and the
chats that are started without a walk have all three. In `embedded`, two commands
allow one to subscribe and one to be answered in the middle of a hand-over, and one
event reaches both connections; the theorems have neither bound.

One removal is enough to meet every pattern of the two events it redacts; that
removals do not disturb each other is proved for any number. `Plans` names the orders
in which the user may click, so that the run covers a login by code with its token
used again, two requests for a code, and logins next to each other;
`MaxAtOnce` of 2 lets any two of them overlap. The theorems have neither bound.
Three candidates (`MaxHeard`) show a better, an equal and a worse one in every order.
In `Paging` and `ContactLists` the parts share no state of the code, or one of them
only reads what the other changes, so the runs take one at a time: chats, messages, or
archiving alone, with more writes (`MaxActs`) than a walk meets (`MaxWalkActs`); chats
started alone, a walk with few of them, or merging.

Symmetry is used only over values that nothing orders and no `CHOOSE` picks
from, and never in a run with a temporal property.

### Fairness

`hub_live`, `reactions` and `manage` have liveness properties. `Fairness` of `WsHub`
says:

* weak fairness of `run`'s own steps, of the steps of readers and of writes: the
  Go scheduler runs every goroutine that can go on, a send ends by its write
  timeout (`wsWriteTimeout`) and a `writeMu` is released by its holder;
* strong fairness of `Dequeue`: `run` selects between the queue and the keepalive
  ticker, and Go picks one of the ready cases at random, so a queue that is ready
  again and again is chosen in the end;
* nothing about peers, clients and gomuks: they may stop at any point.

`Fairness` of `Reactions`: gomuks sends what it has queued and syncs (weak), handlers
go on (weak), the client retries until it gets no error (weak), and a redaction
that is tried again and again succeeds in the end (strong): that is assumed of the
homeserver, not of the code.

`Fairness` of `ManagePage`: the browser handles answers that have come, and the
interval fires (weak), and polls are not answered with errors for ever (strong).
Nothing is assumed of the user, of Beeper, or of the answers to clicks.

### Findings

`embedded_adapter`: the adapter of `createEmbeddedRealtime` (`src/realtime.ts:56`)
listens to "message" events of its connection, and the connection dispatches
them only once its `onmessage` is set, which the adapter never does. An
application that follows `src/README.md:231-235` hears no event.

## 4. Proofs

A theorem holds for every value of the constants under the assumptions that the
component's module names; nothing else is assumed.

**Duplicate filter** (`WsFingerprintsProofs`; `WindowAssumption`, in particular
`Debounce <= Retention`). `EntriesInv` relates each entry of the map to the real
time of the last offer: an entry is as old as the offer, and an event without an
entry was never offered or longer ago than the retention, unless the clock was
stepped since. `BoundInv` is for the pruning: its time is not ahead of a clock that
was not stepped. The properties alone are not inductive, since
they say nothing of what pruning took out. Results: `AnswersCorrect` (with clock
steps), `MapCorrect`, `MapStaysSmall`, and `Refinement`: every step of the filter
is a step or a stutter of `DebounceWindow`.

**Hub** (`WsHubProofs`; `HubAssumption`, `SyncsAssumption`: a sync lists the rooms
that were left and maps finitely many rooms). That a sync becomes a sequence of
events of the four types is proved (`EventsFacts`): the concatenation over its rooms is
a recursive function, and a shortest failing beginning of it cannot exist
(`LeastNat`). `Shape` has the full types, with what each program counter implies.
`Closing` adds that a goroutine about to close a transport is alone and
has taken the client out of the map; `ClosedOnce` follows (`CloseOnce`).
`Greeting` adds that, while a client is new or its `ready` is being written, nobody
else writes to it: it has no subscriptions, no target set has it, and a ping or an
event cannot be under way. `ReadyFirst` follows (`ReadyComesFirst`).
`Orderly` says whose writes are whose: a reader writes to its own client and no
events, and `run` writes only while it fans out. `Streaming` counts: the entry that is
being fanned out is the last of the log, `seq` is the number of entries due to a
client but for one it still waits for, and a live peer lacks at most the message under
way. `StreamIsLog` follows (`StreamFollowsLog`). `Timeliness` says of the one event
that may be under way to a client by what it was chosen: the subscriptions last
acknowledged, those that are set and about to be acknowledged, or older ones, in which
case no event was delivered since an answer; and that what a peer was last told is
what the hub has.
`StaleAtMostOnce` follows (`AtMostOneStale`), from all of the others.

**OAuth** (`OAuthStoreProofs`; `OAuthAssumption`: the kinds of drawn values are
disjoint). `Safe` is inductive with `TypeOK`: `Known` (what is stored was drawn),
`OneHolder` (a code is in the maps, or with one request, or has become one token)
and `Loaded` (what was sent is in memory after a start that could read). Results:
`TypeCorrect`, `SingleUse`, `Durability`, `Revocation`.

**Runtime** (`EmbeddedProofs`; `LifecycleAssumption`). Each of the four
properties is about what is true between calls, and needs what a thread relies on
between two of its steps. `Locked`: whoever starts or stops a runtime holds its `mu`,
and a runtime that is being created has one thread. `Rooted`: while no runtime reads
`GOMUKS_ROOT`, for its configuration or its directories, beside another that looks for
its own, one thread at most is between saving and restoring the variable, which is
what that thread set or found; and a runtime that has its configuration has in it the
directory that the host named. `Single`: who starts a runtime found no
client, and who clears the client has stopped it. `Hearing`: who is to use a runtime
that was never stopped finds a client. `Sessions`: a bootstrap that finds another
client than its own has meddled with it. Results: `LifecycleInvariant`,
`LifecycleTypes`, `EveryClientInItsDirectory`, `OneLiveClient`, `HubHearsItsClient`,
`NobodyLoggedInTwice`, for any threads, runtimes, clients and calls.

**Embedded realtime** (`EmbeddedProofs`; `EmbeddedAssumption`: finitely many calls).
`EmbeddedShape` holds whatever starts overlap: what the map of connections holds is
open and under its own ID (`Filed`), no handle gives an ID twice (`Originates`), since
a call uses up at most one ID there are IDs for all (`Ended`), and handlers are called
of connections that have an `onmessage` (`Framed`). `EmbeddedWhole` holds until two
starts overlap. `Served`: an open connection is of the handle in use and is the one
filed under the ID of its Go client, so a callback for that client finds it and no
other. `Streamed`: before `onmessage` is set all that was sent waits in order;
afterwards, what was heard and what the turn has still to pass on (`Pending`) are
together all that was sent but for what a throw lost, none twice, and a later message
comes before an earlier one only if it is nested (`Passed`). It is this pairwise order
over the frames of the stack that makes the property inductive: in the middle of a
hand-over what was heard alone is neither whole nor in order. `Kept`: no other handle
is alive, no client is without a connection, and no database is open but that of the
handle and those that failed starts left. A stop closes all that is filed, and so, by
`Served`, all that is open. Results: `EmbeddedTypes`, `EmbeddedInvariant`,
`ConnectionsGetTheirStream`, `NothingIsLeftBehind`.

**Assets** (`AssetsProofs`; `AssetsAssumption`). `Inv`: a file exists from its
creation on (`Unborn`), never has both names (`Apart`), a named file is whole, being
completed, or given up (`PathsWhole`), and the temporary file has one writer
until two have shared it (`Exclusive`). Results: `CacheCorrect`, `TempCorrect`.
Uploads touch other files and have their own invariant, `UploadInv`: how far an upload
is says what is in its directory (`Kept`). Results: `AttachmentsCorrect`, `FileTypes`.

**New chats** (`StartChatProofs`; `StartChatAssumption`). `Searching`: a request that
has a chat to find is looking, or has ended, and while it looks the chat is still
there to be found, since no room is unlisted; and no request makes a room before it
creates. `FoundByStart` is the heart: with the accounts the request read,
`inferAccountForRoom` gives that chat to the account asked for, whether the chat names
the login, only its bridge, or neither. Results:
`NoSecondChat`, and `NoSecondChatWithWalks` for the composition with `Contacts`.

**Walks through contacts** (`StartChatProofs`). `Owing`: between two pages the place
of everybody who is owed to the client is on the side of the cursor where the walk
goes on, unless the walk goes up without a cursor. Places are cardinalities of sets of users, so a change of the list moves a
user by what the library says of adding to and removing from a finite set. Result:
`WalkPassesNobody`.

**Merging** (`StartChatProofs`; `MergeAssumption`). `MergedAt` says of every
contact in the making which of the candidates heard so far gave it its score, its
detail and its name, as the first or the last of a set of them; a new candidate
changes those sets in a known way (`With`). Results: `MergesRight`, and `ListsAreBoth`
for the composition that the run checks.

**Reactions** (`MessagesProofs`; `ReactionsAssumption`). `Known`: what has a place
anywhere has a key, which never changes again. `Asked`: what a removal has still to do
has the key it was asked for. `Progress`: what it had found and has no more to do
is gone from the homeserver. Results: `TypeCorrect`, `RedactsOnlyAskedFor`,
`SuccessSticks`, for any number of removals.

**Pages of messages** (`MessagesProofs`; `PagesAssumption`: a batch and a scan are
longer than a page). First what one answer has: `NewestFirst` and `OldestFirst` say
what counting rows from an end selects, for any set of rows. From them come the
contracts of the four kinds of requests: `PageBack` (no gap between the cursor and what
is returned; nothing returned only when all that was read is hidden) and
`PageForward` (at most the row next to the cursor left out). Then `Walking`, which
holds between two pages: what was returned is on one side of the cursor, what is
missing on the other, or, going forward, next to a cursor that was used. New and
redacted rows leave all that alone (`MeanwhileKeeps`). Results: `PagesInvariant`,
`NoMessageTwice`, `PagingBackIsComplete`, `PagingForwardMissesLittle`, for any page
size, batches, scans and timeline. The least element of a set of numbers, which the
counting needs, comes from the well-foundedness of finite sets (`LeastNat`).

**Lists of chats** (`MessagesProofs`; `ChatListAssumption`). `PageItems`: a page is
the beginning of its candidates, and not empty if there are more; `PageDown`: what it
leaves is older than its own cursor, ties included. `Between`: what the walk returned
and did not move is not older than the cursor nor newer than the first room, and
what it owes is older. An event makes one room active, and synced account data
may make one join the inbox (`RoomChanges`); both together are `Changed`. Results: `RoomsReturnedOnce`, `WalksComplete`, and
`PollsCatchUp`, a property of steps. `ArchivesAsWanted` rests on `ActInv`: no
write has a later time than the clock. `PagingIsBoth`: the composition that the run
checks implements both lists.

**Manage page** (`ManagePageProofs`; `ManageAssumption`). `ClickFine` says of each
click what the call it waits for, and an answer on its way, tell of the session,
of its login and of its token; `PageFine` that the login the page has is of a click
whose code was sent, is still to be sent or could not be, and that its token has its
homeserver beside it; `PollsFine` that an answer to a poll was true once. A step
of one click leaves the others fine because sessions only grow and sent codes stay
sent (`Grows`). Results: `TypeCorrect`, `SentWhenShown`, `TokensStayAtHome`,
`LoginsHold`.

Each component states its types as one invariant (`TypeOK`), which is part of the
inductive invariant wherever there is a proof module.

Every invariant and every action property of a passing run is stated by a
theorem. Only model-checked is liveness, which rests on fairness and `ENABLED` and is
out of the prover's reach: `QueueDrained`, `DeadClientForgotten` and `PayloadsAnswered`
of `WsHub`, `RetriesEnd` of `Reactions`, `PageCatchesUp` of `ManagePage`. The run
`embedded_adapter` shows a counterexample, which needs no proof.

## 5. Not modelled

* What has no state: authentication, routing, parsing, cursors as strings, error
  and API types, HTML, the SDK client. Their effects appear as guards and inputs.
* Sending and editing of messages, reminders, the other account data of a chat, the
  filters of searches, the look of a message.
* A logout by gomuks. Handlers of the "close" and "error" events of a connection that
  call the runtime, and an `onmessage` that is reset to null.
* The resolution of a name, number or address to a user before a chat is started.
* gomuks itself, homeservers, bridges, file systems beyond the calls used (a
  directory is not synced after a rename: what a power failure undoes is outside).
* `waitFor` of `src/realtime.ts`, the translation of requests and answers in
  `src/runtime.ts` and `src/native-fetch.ts`; scripts and examples.

## 6. Plan

Order so far: hub and filter, OAuth, embedded realtime, assets, lists, runtime,
new chats and contacts, reactions, manage page, merging of contacts. Next:

1. An abstract specification of a client's stream, in order and without gaps, that
   `WsHub` implements.
2. `EmbeddedRealtime`: `waitFor`. `ChatList`: unread and mute state folded from
   account data.
