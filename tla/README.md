# A model of the StarShell wallet

StarShell is a browser extension (with mobile builds) that keeps a user's keys
and lets web apps ask for signatures. This project models the parts of it that
keep state shared by several windows, survive a crash or wait for each other,
checks them with TLC on small instances, and proves what matters most with
TLAPS.

## The system

| Part | State it keeps | Operations | What is hard | Module |
|---|---|---|---|---|
| Vault entries and stores (`crypto/vault.ts`, `store/_base.ts`) | ciphertexts in the local storage; a browser lock per store; the private fields of each entry | `acquire`, `readonly`, `read`, `write`, `release`; `open`, `read` and the map operations over them | several windows, lease and abort timers, logout and closed windows between any two awaits | `VaultStore` |
| Login and key rotation (`share/auth.ts`, `crypto/vault.ts`, `Register.svelte`, `Authenticate.svelte`) | base, salt and hash parameters in the local storage; root key and vector in the session | `register`, `login`, `recryptAll`, `logout`, `factory_reset` | a login re-encrypts every store and can stop anywhere; browser restarts, new builds | `VaultLogin` |
| Incidents and histories (`store/incidents.ts`) | two stores: the incidents, and their order with the sync heights | `record`, `mutateData`, `filter`, `updateSyncInfo` | a crash between two saves; a filter that reads two stores at once | `TxSync` |
| Transactions in the service (`script/service-tx-abcis.ts`, `chain/cosmos-network.ts`, `RequestSignature.svelte`) | pages, offsets and pending records of a synchronization under way | approve, broadcast, `sent_data`, `sent_error`, `synchronize` | events, synchronizations and broadcasts of one transaction race; nodes lag behind the events they send | `TxSync` |
| Background service (`script/service.ts`, `service-router-instruction.ts`) | the list of feeds, two locks | `check_network_feeds`, the wake instruction, login, logout | two walks over one list under two locks | `ServiceFeeds` |
| Network feeds and websockets (`script/service-feed.ts`, `cosmos/tm-json-rpc-ws-const.ts`) | sockets, calls, subscriptions | `create`, `createAll`, `recreate`, `wake`, `autoSubscribe`, `restart`, `destroy` | lost connections, late answers, full connections, callers that take turns | `ServiceFeeds`, `FeedSockets` |
| Flow lanes (`script/msg-flow.ts`) | per tab: a queue, an intent, a `clear` function, tab listeners | `open_flow` | requests that wait while the lane changes, tabs that close or navigate | `FlowLanes` |
| Flow windows (`open_flow_query`, `util/pulse-monitor.ts`, `entry/flow.ts`) | a port, a heartbeat timer, a shutdown timer | connect, answer, reload, disconnect, `tardy`, `shutdown` | reconnection against shutdown | `FlowWindows` |
| Memory stores (`app/mem-store.ts`, `app/mem.ts`) | a value, subscribers, a lock | `set`, derived stores | notifications that overlap, transforms that finish after the next change | `ChainSelection` |
| Lock pool of the memory stores (`util/async-lock-pool-2.ts`) | locks out, queue, listeners | `acquire`, release, `settled`, `use` | newcomers between a release and its microtask | `AsyncLockPool2` |
| Service comms (`extension/service-comms.ts`) | a port, open channels, a queue while paused; ports and handlers of the host | `connect`, `send`, `request`, `close`, the routers, the refresh | a refresh every 90 s while calls are in flight | `ServiceComms` |
| Rate limiting (`util/rate-limiting-pool.ts`, `temporal-slots.ts`, `async-lock-pool.ts`) | free slots and locks, two queues, timers | `acquire`, the returned release | two resources taken in turn; hand-over in a microtask | `RateLimitingPool` over `TemporalSlots` and `AsyncLockPool` |
| Limiter, Consolidator, secrets, keys in memory, navigation, migrations | see `PROJECT.json` | | | planned or left out |
| Everything else | | | conversions, screens, wrappers, generated data | not modelled |

How they interact. Every store is a vault entry; `open()` fetches the cipher
that a login put into the session, takes the entry's lock, decrypts, lets its
callback work on the cached object and writes it back. A login replaces the
session's key and rewrites every entry, without those locks, while no session
exists. The service, which answers pages, opens flow windows through lanes and
talks to the windows over ports. A window that sends instructions to the service
does so over a client of service comms. In a window, the stores of the selected
chain follow each other and read the vault. The service keeps feeds to the
chains, which subscribe over websockets; what they report is recorded as
incidents, and after each subscription a synchronization asks for what was
missed. Requests to web APIs and contract queries go through the rate limits.
All windows and the service are separate event loops: what they share is the
storage, the session, the browser's locks and messages. Inside one of them code
runs from await to await without interruption, which is what an action is here.

## Modules

| Module | Models | Notes |
|---|---|---|
| `StoreData` | contents and calls of a map store | `Jobs` are the calls, `Effect` what one does, `Throws` and `Unsaved` when it rejects or saves nothing |
| `AtomicStore` | abstract: what a caller of a store relies on | a call that resolves has taken effect once, atomically |
| `VaultStore` | `open()`/`read()` over `Vault.acquire`/`readonly` | `holder` is the browser's lock, `Holds` that the entry is not neutered |
| `VaultStoreProps`, `VaultStoreProofs` | properties, the mapping to `AtomicStore`; proofs | |
| `VaultLogin`, `VaultLoginProps`, `VaultLoginProofs` | registration, login, recryption, logout, reset; properties; proofs | a key is the term of what it is derived from, a ciphertext the term of key, salt and vector |
| `VaultLoginCalm` | the same with a moment, `calm`, after which nothing interrupts a login | under fairness, for `EventuallyUnlocks` |
| `TxSync`, `TxSyncProofs` | the life of a transaction record over incidents, events, synchronizations and the node | one or several feeds, each of a chain of its own |
| `ServiceFeeds` | the service's list of feeds, its checks and wake instructions | feeds of one chain, a socket each |
| `FeedSockets` | the subscriptions of one feed over its sockets | details what `ServiceFeeds` sees as a socket |
| `FlowLanes` | the lane of one tab; abstract towards its windows | lanes of different tabs share nothing |
| `FlowWindows`, `FlowWindowsProofs` | the windows of the lane, with their ports | EXTENDS `FlowLanes` and implements it |
| `AsyncLockPool2`, `AsyncLockPool2Proofs` | the lock pool of the memory stores | instantiated twice by `ChainSelection` |
| `ChainSelection`, `ChainSelectionProofs` | the five stores of the selected chain over two pools | |
| `ServiceComms`, `ServiceCommsProofs` | a client, the host and the frames between them | |
| `TemporalSlots`, `AsyncLockPool` | the two resources of a request | `RateLimitingPool` instantiates them |
| `RateLimitingPool` | their composition | first slot, then lock, both released together |
| `NetworkProofs` | proofs about `FeedSockets`, `RateLimitingPool` and `ServiceFeeds` | it extends the first two and instantiates the third |

`MC...` modules instantiate these for TLC; an operator whose comment begins
with "Mutation" is a plausible bug, used to test that the properties can fail.

### Correspondence with the code

`VaultStore`. A task is a chain of awaits; `pc` names the await it is at. `Call`
is `open()` or `read()`; `FetchCipher` is `fetch_cipher()`, before the lock is
requested; `Acquire` is the browser granting `navigator.locks.request`,
`Checkout` the `storage_get` and the start of the lease; `Decode` is
`readJson()` with the default of a new store; `Use` the callback up to its
`save()`; `LoadVector` and `StorageSet` are the awaits of `write()`; `Release`,
`AbortAcquire`, `ExpireLease` are the ways out; `Close` and `Logout` come from
outside. A lease that runs out empties the private fields: `Holds(t)` fails, and
`release()` and `write()` throw, except that a `write()` past its check goes on.

`VaultLogin`. A frame is a window; `pc` names where in `register()` or `login()`
it is, `try` its local variables. `HkdfSalt` is the lazily drawn salt. `GetBase`,
`DeriveRootKeys`, `VerifyRootKey`, `RecryptAll`, `RecryptRead`, `RecryptWrite`,
`RecryptEnd`, `Sign`, `SetBase`, `SetParams`, `SetSession` follow the code in
order; the stores are re-encrypted concurrently, so reads and writes of several
entries interleave. `Open`, `OpenRead`, `OpenVector`, `OpenSet` are the awaits of
an `open()` that a login can overtake. `Verifies` says which of the two derived keys
may verify: on the authenticate screen, which sets `b_recover`, also the new one.
`HkdfSalt` reads the base and the salt in one step although they are two
awaits: nobody who might change either runs between them, as a registration and a
reset have the wallet to themselves. `Restart` keeps the local storage, drops
session and windows, and may bring another build with other Argon2 parameters.

`TxSync`. Three actors work on a transaction. `window` is the request to sign:
`Approve` and `ApproveInsert` are the two saves of `Incidents.record()`,
`Broadcast` and `HandleCheckTxError` what the node's first answer leads to.
`event` is the handler of the event of a transaction (`data()` of `tx_abcis()`
with `downloadTxn()`). `step` is a feed, from `create()` through the pages of
`synchronize()` and the check of what is still pending to `updateSyncInfo()`.
`Saving` is the lock of the incidents, which is kept from the first save of a
record to the second. `Commit`, `NewBlock` and `Index` are the chain as its
nodes show it: an event comes before the node finds the transaction when asked.
`CloseWindow`, `EventThrows` and `FeedThrows` are calls of a store or the node that
reject at any await (the wallet was locked, the request failed): they end what
the actor was doing, between the two saves of a record as well. `torn` and
`dropped` are ghosts that name what a fault has cost.

`ServiceFeeds`. A call is a run of `check_network_feeds()` or of the wake
instruction. `a_feeds` and `h_feed` are the service's list and `H_FEEDS`;
`i_feed` is the position of the loop, which the list can change under.
`Replace` is the destruction of a feed with the creation of another, `Followed`
the end of `create()` and what the caller does with the result: a check that
recreates a feed lists nothing. `create()` swallows what is thrown in it and
`autoSubscribe()` what a node answers, so that a feed may be listed that follows
nothing. `marked` is what a feed counts as followed, `followed` what it has
subscribed to; `Follow` marks first. At the end of its list a check goes through
it again for an account that no feed has marked (`AtEnd`, `FollowNew`).

`FeedSockets`. `pc` is how far a caller of `autoSubscribe()` is. `Call` picks the
active socket before it waits, `Subscribe` uses it when the turn has come,
`Confirmed`, `Full` and `Denied` are the node's answers; `TurnsDown` is when it
gives one of the last two, being full or for another error (`denied` lists
the sockets that had such an error). `Opened` is the `onopen` of a socket,
`Lost` and `Refused` its `onclose`, with `restart()` the first time.

`FlowLanes`, `FlowWindows`. `state[r]` is how far a call of `open_flow()` has come.
`Request` is its code up to the first await, `TabsGet` the await of
`chrome.tabs.get` and the queueing, `Resume` the promise its predecessor
resolved, `Condition` the await of its condition, `Answer` the end of
`open_flow_query()`, `TabChanged` a tab listener. `owner` is the request whose
`clear` the lane holds; whoever calls `g_lane.clear()` calls that one, also a
flow that was overtaken. Anything may happen during the awaits; `met` notes what
the lane has met by then that the code does not reckon with. `FlowWindows`
opens a window with every flow (`Launch`) and lets it `Connect`, `Respond`,
`Reload` or be closed; `port` is the service's side: `f_port_listener`, then the monitor, then the second after a
disconnection, which a connection of any name calls off (`CalledOff`).

`ChainSelection`. A pick is a call of `yw_chain_ref.set()`: the value changes at
once, `Transform` is when the call has the lock of the store, `ChainAt` when the
derived store has its value and tells those who follow. The search for a
provider runs beside it (`propagating`) and ends in `yw_provider_ref.set()`,
with a lock and followers of its own. `ChainFails` and `ProviderFails` are what
rejects under either lock: nobody releases it.

`ServiceComms`. `toHost` and `toClient` are the frames on their way; each carries
the port it was posted on. `Post` is `_post()`, which posts on a connection and
queues during a pause; `Connected`, `Refresh`, `Lost`, `Ack`, `Response`, `Error`
are the client's router and listeners; `Accept`, `Receive`, `PortClosed`,
`Handled`, `Expire`, `Reopen` are the host. A handler returns, throws an error with
a message, or one without: the client tells an error by its message, so it
takes the last for a response (`wordless`). `cut` holds the calls whose channel
was open when their port went.

`RateLimitingPool`, `AsyncLockPool2`: one action per method, timer or microtask.
Timers count ticks and may be late, never early.

## Runs

| Run | Instance | Shows |
|---|---|---|
| `store_atomic` | 2 tasks, 1 store, 1 path, 2 structs, 1 key | `FreshSnapshot`: what a lock holder read stays what is stored. `StoreIsAtomic`: the stores implement `AtomicStore`. `LockReturned`: a granted lock comes back |
| `login_crash` | 2 frames that may log in at once, 2 stores, 2 passphrases, 1 build, 3 rotations | `Unlockable`: wherever a login stops, the passphrase is accepted and every store opens with a key the next login derives. `SessionReadsAll`: while unlocked every store opens with the session. `EventuallyUnlocks` |
| `login_upgrade` | 1 frame, 2 builds | finding: a crash between base and parameters locks the user out |
| `tx_recorded` | 1 feed; a transaction of this wallet, one of another and an old one; 1 fault | `NoneMissed`: what is on chain up to the saved sync height is recorded. `HistoryComplete`: only what ends `record()` between its two saves (a crash, a closed window, a rejected call) keeps a record out of the history. `Recorded`: what is on chain gets recorded by its event or the next synchronization, unless the node does not know it yet or a call of the handler or the feed rejects |
| `tx_chains` | 2 feeds of 2 chains, 1 transaction, no fault | finding: one feed undoes what the other has recorded |
| `feeds_heard` | 2 checks, 1 wake instruction, 6 feeds, 2 faults, 1 logout | `Heard`: once connections and nodes hold, a check brings a feed that hears, also in place of one that follows nothing, unless one has swallowed that a subscription failed (`Deaf`). `CallsEnd`: walks over a list that they change come to an end, and locks are passed on |
| `sockets_settled` | 3 topics, 4 sockets of 1 subscription, 2 faults (losses, refusals, other errors of the node) | `OneAsks`: callers take turns. `Settled`: each gets its answer. `Restored`: a restart restores what was subscribed. `Remembered`: and nothing in its stead that the node had turned down as it was full |
| `flow_served` | 3 requests of one tab, 2 of one intent, 1 with a condition | `OneFlowPerTab`: two flows are open only after the tab has changed under one or one has overtaken another during its condition. `ListenersGone`: no listeners stay behind, unless one was overtaken. `Resolves`: every flow that is heard ends. `QueueServed`: whoever queues gets its turn, unless the lane was freed before it queued |
| `flow_repeats` | the same | finding: a request is ignored as a repeat of a flow that is over |
| `mem_selected` | 3 picks of 3 chains, 2 failed reads | `OneTells`, `Follows`: the derived stores end up with what is selected. `NetworkInStep`: the network is that of the provider, until making one fails. `Told` |
| `comms_settles` | a send and a request, 2 refreshes, 1 fault | `InOrder`: calls are received in order, once. `TrueAnswers`: a call resolves only when it was handled, a request also when its handler threw an error without a message. `Settles`: all calls settle but those whose port went first |
| `ratepool_through` | 3 requests, 2 slots, 1 lock, 2 calls each | `RateLimited`, `LetThrough` |

### Bounds, and why they are enough

- `store_atomic`: locks are per store, so stores interact only through the
  session; a third task adds waiting but no new pair of writer and reader.
  Structs have two values, which makes a lost update visible. Contents are maps
  over one path: what an operation does to the paths it does not name is the
  business of `Effect`.
- `login_crash`: two stores make recryptions interleave and let one be done
  while the other is not; a crash after each leaves all four combinations of old
  and new key. `MaxNonce = 3` allows interrupted rotations, in two windows or in a
  row, and a complete one after them; `MaxDraws` allows a registration to be repeated.
  `EventuallyUnlocks` leaves out the base the bound keeps from rotating.
- `tx_recorded`: pages of one transaction, so that a synchronization asks for
  several and blocks arrive between them; `MaxHeight = 2` has a block before and
  one after the feed starts; one fault of any kind at any point. The old
  transaction is what the first synchronization of a new wallet finds.
- `feeds_heard`: two checks are one that works and one that waits for its lock;
  six feeds are more than three calls and two faults replace at once, and a feed
  nobody can reach any more is reused.
- `sockets_settled`: a capacity of one makes the second caller open a socket and
  the third open another; with a fault the fourth is used.
- `flow_served`: one flow open, two queued, or one open, one queued and one at its
  condition, and a request that repeats the intent of another.
- `mem_selected`: of three picks one tells, one waits, and one comes between a
  release and its microtask; two failures reach both locks.
- `comms_settles`: one call of each kind is enough for the order of two; two
  refreshes let a call that was queued during the first meet the second.
- `ratepool_through`: two slots and one lock are the least with which a slot holder
  waits for a lock; a resolution of 2 ticks separates the ages of timers.
  `MaxCalls` bounds how often a request comes back.

`MaxFaults`, `MaxLogouts`, `MaxRefreshes`, `MaxHeight`, `MaxNonce`, `MaxDraws` and
`MaxCalls` cap what could go on for ever. The theorems hold for any of their
values.

### Assumptions

- `LeaseMidWrite = FALSE`: the 3 second lease does not run out between the check of
  a `write()` and the end of its `storage_set`. The code does not ensure it.
- Logins in two windows overlap only if all of them have read the base before the
  first saves the next one (`SameBase`), which is what happens when both screens are
  open and the passphrase is entered in both: they write the same. A login that
  reads the base after its twin has saved it, a registration or reset beside
  anything, and an `open()` that lasts from before a logout into the recryption of
  the next login are assumed away. The screens make this usual but do not
  ensure it; `Unlockable` and `SessionReadsAll` do not hold without it. With
  `Twins = FALSE` logins do not overlap at all.
- A dequeued request, and a caller of `autoSubscribe()` that gets its turn, go on in
  a microtask before the next event.
- `TxSync`: a node that has confirmed a subscription knows of the blocks before it,
  one synchronizer works per chain, and `NoneMissed` is for one feed
  (`tx_chains` shows why).
- `ServiceComms`: the frames of a direction arrive in order, across ports as well;
  one client.
- A node confirms the first subscription on a connection that was opened because
  another was full.

### Fairness

- `VaultStore`: browser storage answers and timers fire. Nothing is assumed of the
  callback given to `open()`, which may await anything; the lease is what ends it.
- `VaultLogin`: the awaits of a login and of an `open()` settle, a window that was
  told to close does, and a user whose vault is locked enters the passphrase
  again. Nothing is promised while windows go on being closed, so `VaultLoginCalm`
  adds the moment from which on nobody closes windows, logs out, resets or
  restarts. It may come at any point of an interrupted rotation.
- `TxSync`: calls return (with or without success), a feed goes on, a node gets to
  index what it has. Nothing is assumed of the user, the window or the chain.
- `ServiceFeeds`: strong fairness for the steps of a call, since the locks of
  `navigator.locks` are granted to all who wait in turn while others take them
  in between; a restart ends one way or the other, and the message of a logout
  arrives.
- `FeedSockets`: callers go on, and a node answers on a connection that holds; a
  connection that is lost owes no answer.
- `FlowWindows`: callbacks resolve, windows load, and a window that is shown again
  and again is in the end answered or closed (strong fairness, since the user
  may reload it in between). Nothing is assumed of `Tardy`.
- `ChainSelection`: the vault answers, and microtasks run.
- `ServiceComms`: frames arrive, the timer of a refresh fires, handlers return.
- `RateLimitingPool`: time passes, microtasks run, a request ends (`fetch` settles
  and `finally` releases).

Deadlock is checked in `store_atomic`, `login_crash`, `login_upgrade` and
`ratepool_through`. The other systems may really stop: the user does nothing more, a call hangs, or
everything that was asked for is done.

## Proofs

Each theorem holds for any values of the constants that the `ASSUME` of its
module allows; TLC evaluates those assumptions in the runs.

`VaultStoreProofs`: `TypeCorrect`, `HolderIsFresh` (`FreshSnapshot`) and
`StoreRefines` (`StoreIsAtomic`), the last two if `~LeaseMidWrite`. `FreshSnapshot` alone is not inductive: a step of one task
could write a store another has read. `IInv` adds, for each task, what it has
loaded by each await (`Loaded`), that a lock is only in the hands of a task that
asked for it and is not done (`HoldsOnlyItsOwn`), and that a write keeps its lock
(`WriteHolds`). Then a write of one task and a lock of another on the same store
exclude each other. Lemma `Frame` carries the other tasks through a step; each
action has a lemma for the task that takes it.

`StoreRefines` needs, besides, what a task knows of the struct it works on
(`ContentInv`): before the callback the cached object is what was read, after it
the effect of the call on that; a new store is empty; a task that is told "done"
has what it last wrote. With `FreshSnapshot`, what was read is what is stored, so
the `storage_set` of a write is the effect of its call on the latest content: the
step `Apply` of `AtomicStore`. A read takes effect where its `storage_get` resolves
(`TakesRead`), a `delete` of nothing at the end of its callback, and a read that
made the store when it releases the lock. The first save of a store is
`Initialize`, a way out is `Settle`, a closed window `Vanish`; every other step
stutters, a lease that runs out among them. Five lemmas (`Stutters`, `Settles`,
`Applies`, `Initializes`, `ReadApplies`) say what of a step decides which it is,
and each action has a lemma that shows it. The hypothesis is needed: with
`LeaseMidWrite = TRUE` TLC finds a write that lands after its lease was revoked,
over what the next holder works on.

`VaultLoginProofs`. `TypeCorrect` holds for twins and for any builds.
`CalmSession` (`SessionReadsAll`) and `CalmUnlockable` (`Unlockable`) are for
`~Twins`: one login, open or reset is over before the next begins. The twins are
TLC's part (`login_crash`).
`CalmInv` says where a login stands and what it has done by then: what it read is
still the base, nothing is being opened once it recrypts, every store outside
`todo` and `writing` is sealed with the new key or empty, and none is left when the
base is signed. So the base changes only when every store is sealed by the key it
will name, which is the step both properties turn on. `CalmSession` is for any
builds. `CalmUnlockable` is for one (`OneBuild`; `login_upgrade` shows that two
break it): its invariant `BuildInv` adds that the parameters on disk, and those
of the code, are the ones every stored key was derived with, so that the key of
a base, and the key the next login derives, can be told from the base. Crashes,
wrong passphrases, repeated registrations and interrupted rotations are in both.
Each was checked with TLC before it was proved. `BaseAssumption`, new in
`VaultLogin`, says that `None` is no base, as the code's null is none.

`AsyncLockPool2Proofs`: `NeverOverAllotted`, for any finite set of callers and any
number of locks. The invariant says that the count of busy locks is the holders
plus the releases whose microtask has not run: a lock passed on stays counted,
which is why a newcomer cannot take it as well. The lemmas `OneMore` and
`OneLess` count the holders. The assumption on the pool's constants is a
hypothesis of each fact, so that they can be used under other names.

`ChainSelectionProofs` is built on it. `Implements` shows that every step of the
selection is a step of each of its two pools or leaves it alone; what is
proved of the pools then holds of the locks of both stores: `OneTellsAlways`,
and, with an invariant about the calls, `TypeCorrect` and `NetworkStaysInStep`,
whose exception is the call under whose lock making the network failed.
`FollowsAlways` (`Follows`) rests on who has the last value that was set
(`Latest`): the last in line for the lock; if nobody is in line, the one that has
the lock; if nobody has, the derived store. Joining the line, being passed the
lock and leaving it each keep that (`Joins`, `PassesOn`, `Leaves`), and whoever is
at a lock has yet to tell (`AtLock`), so that when all is told both lines are empty.

`TxSyncProofs`: `TypeCorrect` for any feeds, and `OneFeedMissesNone`
(`NoneMissed`) for a service with one feed, any transactions, page sizes, heights
and faults. The argument is about what a synchronization relies on at each of
its steps. `IndexInv` says that what a node does not find yet is above the
saved sync height and above the block that was latest when the feed subscribed,
so that "not found" never speaks of those. `PageInv` says that of everything up to
that block, what is above the offset is recorded or on the page; after the last
page that is all of it, since what lies below was up to the old sync height, where
`NoneMissed` already holds. Lemma `Harmless` shows that what other actors write
meanwhile is final, or about a transaction the feed does not rely on.
`HistoryKept` (`HistoryComplete`) is for any number of feeds, with calls that
reject at any await. A record is in the history, torn by what ended its `record()`,
or on its way there under the lock (`PlacedOf`); that a
change of a record never makes one that no history has takes two more facts: a
transaction is sent once, before its event (`SentOf`), and a feed asks only about
what has a record (`AskedOf`).

`ServiceCommsProofs`: `TypeCorrect`, `ReceivedInOrder`, `AnswersAreTrue`. What was
received, is on its way to the host and is queued are calls, pairwise in the
order of `called`, each of the three before the next (`Ordered`); what answers a
call on its way to the client is about a call that was received, and a response
about one whose handler has returned or thrown without a message
(`AnswersInv`).

`FlowWindowsProofs`: `OneFlow` (`OneFlowPerTab`) and `NoListenersLeft`
(`ListenersGone`), with anything happening while a request awaits `tabs.get` or its
condition. `LaneInv` says that one dequeued request at a time is about to take the
lane and finds it free; `ListenInv`, unless two have taken the lane, that the
only listeners are those of its owner; `OpenInv`, as long as the tab has not
changed either, that one flow is open and has the lane taken. That every step of the windows is one of the lanes or a stutter is the
lemma `ImplementsLanes`, by the way `FlowWindows` is written; it carries the two
over.
`WindowsTyped` (`WindowsTypeOK`) adds that a port listens only for a flow that is
open, and that a window exists just for those that are or were answered
(`PortsInv`), with a queue that holds a request once.

`NetworkProofs`, of three components.
- `FeedSockets`: `TypeCorrect` and `OneAsksAlways`. A flag and a list are all
  that lets callers take turns; `TurnInv` says that a waiting caller is listed
  once, that one caller asks, that the feed is busy exactly then, and that nobody
  waits otherwise. That the connections do not disturb it has a step per action.
  `TurnNeverLost` is the other half of it: while callers wait, one has the turn or
  has hung with it. It is the part of `Settled` that does not need fairness.
  `RememberedAlways` (`Remembered`) is about a list that keeps too much: what a
  node turned down stays in `_h_subscriptions`, and a restart asks for it again. It
  leaves out sockets on which the node had another error: what was turned down so
  may come back ahead of what was not.
  The topics that count are before it in the list. On the first connection of
  a socket what the node has yet to answer is the end of the list, each topic is
  in it once, and the node has the first ones, as many as it takes (`FirstTime`);
  so after a loss each of them is within the capacity. Afterwards an answer moves the
  rest one place forward and takes one place at most. That each topic is there
  once needs that who has its turn has not asked before (`Begun`), and the caller
  that opens a socket is the first to use it (`Between`), which rests on
  `TurnInv`.
- `RateLimitingPool`: `RatesTyped` (`PoolTypeOK`) and `NeverTooFast`
  (`RateLimited`). `SlotsInv` says that a slot is available, held or cooling down
  (`SlotsAccounted`), that the callers in the queue wait, each queued once
  (`QueueWaits`), and that what was granted less than n ticks ago is held, or cooling down for less
  than n (`RecentAccounted`). The counts by age are sums over a function, a fold
  that chooses its next element. That the order does not matter (`SumUnique`),
  that a fold exists at all (`SumExists`), and what a change of one value does to a
  sum (`TotalStep`) are lemmas, by induction over the size of the domain;
  `SetInduction` states it of a set of numbers, from their well-foundedness,
  since the induction theorem of the library has an operator as its parameter.
  `NeverStuck` is the part of `LetThrough` that does not need fairness: while
  somebody has a slot or waits for one, there is a lock to hand over, a timer, a
  request to end, or a caller to go on to the locks, although callers hold slots
  while they wait for locks. Its invariant (`WaitersQueued`) says of both queues
  that everyone who waits is in them (`Queued`), that slots come before locks
  (`SlotFirst`), and that nobody queues for what is available (`QueuesBacked`).
  It needs `Concurrency` to be at least 1: the code has 6 and 10. A setting may give
  another rate, whose numbers `parse_rate_limit_config()` of `popup.ts` does not
  bound; a rate of zero would let nothing through, and is excluded.
- `ServiceFeeds`: `FeedsTypeCorrect` (`TypeOK`, with a list that has each feed once
  and locks that are held by who works on the feeds). `FeedsInv` adds where a
  call stands and what it has in hand (`CallsAt`), and that a feed under creation
  is in nobody else's hands and not listed (`NewUnlisted`): two calls append to
  the list under different locks, and that is what keeps one feed from being
  listed twice.

The third is used under other names, so the assumption of its module is the
hypothesis `ServiceAssumption`. Every inductive invariant was checked with TLC before
it was proved.

Only model-checked: the liveness properties, since fairness and `ENABLED` are out of
the prover's reach. The invariants of the passing runs and the refinement of `store_atomic` are
theorems; those of the stores under the assumption of their run, those of the login
for `~Twins`, so that what two logins at once do is only model-checked.

## Findings

1. Base and hash parameters are saved by two writes; a crash between them, after
   an update that changes the parameters, locks the user out (`login_upgrade`,
   `share/auth.ts:223`).
2. A synchronization looks up the pending transactions of every chain on its own
   and marks what it does not find as absent; what another feed has recorded
   meanwhile stays absent for good (`tx_chains`, `chain/cosmos-network.ts:1156`).

3. The comment of `open_flow()` says "ignore repeat flows" (`script/msg-flow.ts:240`),
   but a lane keeps the intent of the request that made it while others take it
   when it is empty: a request whose flow is long over is ignored, and a repeat
   of the flow that is open is queued (`flow_repeats`, `script/msg-flow.ts:241`).

### Other deviations

These were met while modelling. The properties name them as exceptions, or the
constants exclude them, and no run of its own shows them.

Stores and locks:
- A lease revoked during `storage_set` does not stop the write (`vault.ts:645`).
- An acquisition aborted after 5 seconds never settles for its caller, since the
  request of the lock is `void`ed (`vault.ts:612`).
- `Secrets.put()` releases without `finally` (`secrets.ts:178`), and
  `Secrets.update()` reads without a lock and writes back under one
  (`secrets.ts:192`).
- `AsyncLockPool` counts a lock as free that it hands to a waiter, and so grows by
  one for every waiter served (`async-lock-pool.ts`).
- `Limiter` never resets `_b_pending`, and drops every notice after the first
  execution that it has scheduled (`limiter.ts:67`).
- A transform that rejects keeps the lock of its store (`mem-store.ts:29`); a
  provider or a network that cannot be made keeps that of the provider, and the
  network stays the old one (`mem.ts:79`, `mem.ts:83`).
- `Incidents.record()` saves the incident before it opens the history: if that
  rejects, the incident is in no history (`incidents.ts:265`).
- Two quick picks of a chain can leave a provider of another chain, since the search
  for one runs beside the change (`mem.ts:94`).

Flows:
- `open_flow()` checks the lane before an await and takes it after one: a request
  that comes during the condition of another overtakes it, so that both open, and
  one that queues after the lane was freed waits for a flow that nobody has asked
  for (`msg-flow.ts:239`).
- A window that reloads, or any connection in the second after a disconnection,
  cancels shutdown and monitor, and nobody listens to the new port
  (`msg-flow.ts:175`); a window closed before it connects is never noticed
  (`msg-flow.ts:197`). Both strand the query.
- A dequeued request that fails its condition does not pass the lane on
  (`msg-flow.ts:262`).

Feeds:
- A check that runs during a logout can create feeds after the service has destroyed
  those it has (`service.ts:859`).
- A feed whose `create()` has failed is listed although it follows nothing
  (`service-feed.ts:243`), and accounts count as followed before they are
  subscribed to: if the node turns that down, no check repairs it
  (`service-feed.ts:644`).
- A feed that a check has recreated is not listed (`service.ts:875`).
- Any internal error of a node is taken for a full connection
  (`tm-json-rpc-ws-const.ts:297`).
- `destroy()` does not reach a socket that another caller has replaced, nor one that
  was closed once and has restarted (`tm-json-rpc-ws-const.ts:367`).

Service comms:
- A refresh cuts the calls in flight: the answers go to the closed port
  (`service-comms.ts:177`), although the handlers get a second to return.
- `request()` has no error handler (`service-comms.ts:353`).
- An error without a message, such as that of an access while the wallet is locked,
  resolves a request with null (`service-comms.ts:209`, `service-comms.ts:579`).
- A connection that times out leaves its client connecting for ever
  (`service-comms.ts:277`).
- `close()` during a pause is undone by the timer of the refresh.

## Not modelled

Cryptography is symbolic. Store subscriptions and the migrations after a login
are left out, as are the timeouts of `AsyncLockPool.acquire()`, which no caller
passes. Seen marks and the order by time of incidents, notifications, received
transactions and feeds of tokens are left out of `TxSync` and the feeds; the
other stores of `mem.ts` and derived stores of several sources out of
`ChainSelection`; the pages in the windows out of `FlowWindows`. Most of the
source by size is user interface, conversions of chain formats, content scripts
that relay messages, and wrappers of platforms, which keep no state that
several actors share; they are listed with their reasons in `PROJECT.json`, and
the hazards that a property covers in part say so.

## Plan

1. `Secrets` and `RuntimeKey`: entries without `finally`, and the rotation of the pad
   around each access.
2. `VaultStore` and `VaultLogin` composed: real stores under a login, with `Secrets`.
3. `Navigator`; `Consolidator` and `Limiter` with the feeds of tokens.
4. `ServiceFeeds` over `FeedSockets`, with the socket of a feed as its refinement.
5. `run_migrations` after an unlock, over the stores.

Theorems to come: that a store read after a login is what was stored before it, once
`VaultStore` and `VaultLogin` are composed; that a feed that `ServiceFeeds` takes to
hear is one whose socket `FeedSockets` has open.
