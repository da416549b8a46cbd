# Data share: a verification development

TLA+ modules for the core of `distributeddatamgr_data_share`, the OpenHarmony
framework through which an application reads, changes and observes data that
another application or a system service owns. The repository
has the framework twice, in C++ (`src/frameworks/native`) and as a port to Rust
(`src/frameworks/rust`), with a binding to ArkTS in Rust and C++
(`src/frameworks/ets/ani`). The subscriber managers and the connection are modelled
from the C++ code and, where the port behaves differently, again from the Rust code;
the other parts from the Rust code. TLC checks the modules on small instances, TLAPS
proves part of the results for every instance. `PROJECT.json` lists the runs, the correspondence
of definitions and source lines, the hazards and the theorems.

## 1. The system

A consumer holds a `DataShareHelper`. It reaches the data in one of two ways:

- **non-silent**: through `DataShareConnection` to the provider's extension
  ability (`GeneralControllerProviderImpl`, `DataShareProxy` on the consumer's
  side, `DataShareStub` and the extension ability on the provider's);
- **silent**: through `DataShareManagerImpl` to the DataShare service, which reads
  the provider's database itself (`GeneralControllerServiceImpl`,
  `DataShareServiceProxy`). Subscriptions to query templates (rdb data), to
  published data and to proxy data go this way too.

| Part | State it keeps | Operations | Interacts with | Hard | Correct when |
|---|---|---|---|---|---|
| `CallbacksManager` | `callbacks_`: key to vector of observer, helper, `enabled_`, `isNotifyOnEnabled_` | add, delete, enable, disable, mark, list | base of the three subscriber managers, called with callbacks to run outside its lock | several lock sections per call | a key is in the map iff somebody observes it |
| `RdbSubscriberManager`, `PublishedDataSubscriberManager` | the registry, `lastChangeNodeMap_` | AddObservers, DelObservers (two forms), EnableObservers, DisableObservers, Emit, EmitOnEnable, RecoverObservers | clients from above, the service below, binder thread delivering changes, system-ability listener | all of it concurrent; partial refusals; death of the service | enabled observers are carried by the service; no change is missed |
| `ProxyDataSubscriberManager`, `DataProxyHandle` | the registry, values in it | Add, Del, Recover, Emit | as above | as above | as above |
| Observer stubs | one mutex | OnChangeFromRdb, OnPublishedDataChange | Emit | order of deliveries | one Emit at a time |
| `DataShareManagerImpl` | the handle of the service, death recipient, register callbacks, call counters | GetServiceProxy, OnRemoteDied, OnAddSystemAbility, Set/Del callbacks | samgr, every silent operation | death and restart at any time, stale handle | observers restored after a restart |
| `DataShareServiceProxy` | none | requests of the service | the service | a request that is not answered | answers reported per key |
| `DataShareConnection` | `dataShareProxy_`, `uri_`, `isInvalid_`, `isReconnect_`, `reConnects_`, `observerExtsProvider_`, pool | Get proxy, connect, wait, two callbacks, reconnect at once or later, re-register, release | ability manager, extension, clients | callbacks against timeouts, release and crashes; unlocked counters | nothing leaks, the proxy follows the extension, observers survive |
| `DataShareSAConnection` | proxy, interface info, pool | GetDataShareProxy, death | system ability | timeout under the lock | a dead proxy is dropped |
| Controllers | `GeneralControllerServiceImpl`: observers, pool | CRUD, observers, timed query | the two connections | late result of a timed query | a late result is dropped |
| `DataShareHelperImpl` | controllers, ObserverImpl map | dispatch, Release | controllers | Release against calls | no call after Release |
| Provider: stub, extension ability, `DataShareUvQueue` | task entry | hand-over to the JS thread and waiting for it | JS engine | timeout against late task | the entry is freed once |
| Result sets: `SharedBlock`, block writer, `DataShareResultSet` | shared memory block, cursor, window | alloc, put, get, go to | consumer and provider | the block's limit, row-group boundaries, 32-bit offsets | what is read is what was written |
| Predicates and verification | list of operations | add, verify | - | nesting | - |
| `DataShareCallReporter` | counters and windows per function | count | every silent call | window boundaries, clock | at most so many calls per window |
| Permission and configuration | none | queries of bundle and token managers | - | - | - |
| Serialisation | none; published items own shared memory | write and read of every message, a buffer for large predicates, JSON | every request | streams that end early, two formats for one value, widths | what is read is what was written, and damage is refused |
| C interfaces of the Rust crates | handles | one function per operation | C++ callers | unreadable arguments, conventions for failure | success means done |
| ArkTS binding | helper object, observer lists per uri | calls from worker threads, on, off, close | helper, extension | threads, lists shared by helpers | listed callbacks are registered; values keep their place (but those of a batch update) |
| N-API, Cangjie bindings | observer tables of the language layer | conversions | helper | threads of the runtime | - |

`PROJECT.json` has the same list with sources and what is modelled of each, and
under `hazards` the places where this code is hard to test.

## 2. What is modelled

| Module | Models | Extends |
|---|---|---|
| `CallbacksManager` | the registry: one operator per lock section of `callbacks_manager.h` | - |
| `SubscriberManager` | what the rdb and the published manager share: the client calls step by step, the service with its refusals and its deaths | `CallbacksManager` |
| `RdbSubscriberManager` | delivery, replay and recovery of rdb data; its specification | `SubscriberManager` |
| `PublishedDataSubscriberManager` | the same for published data | `SubscriberManager` |
| `DataShareConnection` | the connection, its clients, callbacks, pool and release; ability manager and extension | - |
| `SharedBlock` | the shared block, to the byte: header, row groups, row directories, string bytes | - |
| `ResultSet` | block writer, bridge, result set with cursor and window, its stub and proxy; its refinement of `ResultCursor` | `SharedBlock` |
| `ResultCursor` | what a result set promises: a position, and the row a read shows | - |
| `BlockFfi` | the C interface of block and writer, by two handles on one mapping | `SharedBlock` |
| `Predicates` | building predicates (Rust and ArkTS) and their verification | - |
| `ParcelCodec` | the layouts of the messages, and writing and reading a layout as tokens | - |
| `WireTransfer` | predicates built step by step, sent as parcel or buffer, cut, read | `Predicates`, `ParcelCodec` |
| `JsonNode` | JSON nodes: set, get, dump, parse, with integer widths | - |
| `PublishedItem` | published items and nodes that own shared memory | - |
| `IpcCall`, `ServiceProxy`, `ExtProxy` | one request with all its ways to fail; the methods of the two proxies | - |
| `HelperCalls`, `HelperFfi`, `ControllerFfi` | a call from the C interface through helper and controller to its handler and back | the proxies, by instance |
| `CallReporter` | the call limiter | - |
| `ServiceRecovery` | `manager_impl.rs` with the observers of `service_impl.rs` | - |
| `SaConnection` | `datashare_sa_connection.rs`, by its two routes | - |
| `ExtConnection` | `datashare_connection.rs` | - |
| `RdbManager`, `PublishedManager`, `ProxyDataManager` | the three subscriber managers in Rust | - |
| `ObserverStub` | `observer_stub.rs` and its C handles | - |
| `ExtensionCall` | a request in the provider: stub, `DataShareUvQueue`, main thread, ArkTS handler, answer | - |
| `AniHelper`, `AniValues` | helper objects and observer lists of the binding; batches, buckets and change infos on their way | - |
| `PeerRecovery` | the consumer in Rust when a peer dies: the last three connections together, and what they promise | `ServiceRecovery`, `SaConnection`, `ExtConnection`, by instance |
| `ConsumerDelivery` | how a change reaches the Rust observers: managers, stubs and items together, and what they promise | `RdbManager`, `PublishedManager`, `ProxyDataManager`, `PublishedItem`, `ObserverStub`, by instance |
| `MCDataPath` | the data path for TLC | `ResultSet`, `BlockFfi`, `ExtensionCall`, `AniHelper`; `JsonNode` by instance |
| `MCConsumer` | the consumer for TLC | `PeerRecovery`, `ConsumerDelivery`, `CallReporter`; the others by instance |
| `MCRdbSubscriber`, `MCPublishedSubscriber`, `MCDataShareConnection` | symmetry sets for TLC | the three specifications |
| `SubscriberManager_proof`, `SubscriberDelivery_proof`, `RdbSubscriberManager_proof`, `PublishedDataSubscriberManager_proof` | theorems about the C++ managers, each module on top of the one before | the specifications |
| `DataShareConnection_proof`, `DataPath_proof`, `PeerRecovery_proof`, `ConsumerDelivery_proof` | theorems about the connection; shared blocks, result sets, a request in an extension and the binding's lists; the two compositions and, in `PeerRecovery_proof`, the call limiter | the specifications |

### The subscriber managers

State: `callbacks` is `callbacks_`; `lastChangeNodeMap` is `lastChangeNodeMap_`,
with a change abstracted to its number (0 is "no entry"). `op[t]` is where client
thread `t` is in which call. `disp` is the one Emit in progress (the stub's
`mutex_` admits no second one). `rec` is the recovery `OnAddSystemAbility` runs.
`svc[k]` is what the service holds for this process (none, on, off), `up` and
`epoch` say whether it lives and which incarnation it is, and a call keeps the
incarnation its proxy was fetched from. `seen`, `owed` and `tainted` are history.

A call is a sequence of steps at exactly the places where the code releases the
lock: change the registry; replay the last change to an observer that joined keys
others listen to (read the map, call the observer); ask the service; roll back what
it refused; replay after an enable. An answer refuses any subset of the keys. A
request that is not answered returns an empty vector, which the code takes for
success. `DelObservers(subscriber, proxy)` erases and unsubscribes key by key in
the rdb manager; in the published one it erases everything first and then sends
one request.

Delivery differs between the two. `RdbSubscriberManager::Emit` stores the change,
then marks and lists in one lock section, then calls. The published one goes datum
by datum through mark, list and store as three sections and then calls each
observer once. `EmitOnEnable` of rdb data reads the flag as it is at that moment,
the published one uses the flag as it was when the observer was enabled. Recovery
restores the status of each key (rdb) or restores it as enabled (published).

Abstracted: templates and subscriber ids are part of a key; the payload is a
number; logging, result codes and the dfx reports are left out. The recovery sends
key by key what the code sends per template, which is the more general case.

### The connection

`GetDataShareProxy`, `ConnectDataShareExtAbility` and `WaitForProxy` are the two
lock sections of `ConnectDataShareExtAbility` with the request between them; the
wait ends with a proxy or with the timeout. The callbacks are handlers on binder
threads with one step per lock section, access to an atomic, access to the observer
map or request. `reConnects_`, which nothing locks, is read and written in separate
steps. Delayed reconnections are tasks in a pool of two threads; a task that got
hold of the connection keeps it alive until it is through. The release is the
deleter that `CreateExtHelper` installs: set invalid, clear the uri, disconnect.
`quiet` is the clock: MAX_RECONNECT_TIME_INTERVAL has passed since the last
reconnection. The extension is a number (its incarnation); a crash drops its
registrations and queues a disconnect callback. Refused requests, callbacks without
a remote object and failing registrations are counted by `failures`.

### The data path

`SharedBlock` keeps offsets and sizes as the code computes them, with the sizes of
its structures and ROW_OFFSETS_NUM as constants, so that the block fills up and the
row groups chain after a few rows. A block is a record of the header's fields and of
what lies at each offset; `WellFormed` says that no byte belongs to two of them.
`ResultSet` fills a block from `SourceRows` through the writer, as a bridge does, one
call of the writer at a time: `fill` says for whom, which rows, and at which cell the
bridge is. The bridge of `on_go` has no more than the trait `Writer`, which cannot free a
row: when a cell of a row is refused it can only stop or report an error, and the row stays
in the window without its end (`TornRow`). Only the writer of a provider, which fills a
block before there is a result set, may free it (`ProviderFreesLastRow`). The result set moves cursor and window as `result_set.rs` does; a fetch may be refused,
end early or (`FailAfterRows`) fail after it wrote rows. Handlers run under the stub's
mutex, so nothing else happens to a result set while its block is being filled. `ResultCursor` is the abstract
specification: a position, and a read that shows the row at it, that row without its end,
or nothing.
`ImplementsCursor` maps the row shown to the row whose cells a read would give, and
to "another row" when they are mixed, which the abstract cursor never shows.

`ExtensionCall` has two IPC threads, the queue to the main thread and the main
thread. The entry of `DataShareUvQueue` is counted as in the code, the `ResultWrap`
of a request is written in two steps (value, flag) and read in two (flag, value). When a
task cannot be posted, the entry is deleted and then unlocked by the guard of its mutex,
which are two steps (`PostFails`, `UnlockDeleted`).

### The consumer in Rust

`IpcCall.Request` is one request: it is sent if its writes succeed and read if it is
answered. The methods of the proxies, the controllers, the helper and the C functions
are operators over it, one per function, and `HelperFfi` and `ControllerFfi` call each
with every outcome: a write that fails at any place, no answer, a short reply, a
refusal, a late answer, an unreadable argument, a missing proxy, too many calls. What
of the arguments could be read is `args`: all of them; some, an item being left out or a field
replaced by its default; none, and the call goes on with an empty list or a default; or
`unread`, which ends it. `ArgsOf` says which of these the conversions of a function allow.

`RdbManager` and `PublishedManager` differ from the C++ managers: the calls have no
transaction around them. They are written anew, with one step per lock section and
request. A request that is refused is rolled back; one that is not sent or not answered
gives no results, and the entry stays. `ServiceRecovery`, `SaConnection` and `ExtConnection`
number the lives of the peer, so that a kept proxy tells whose it is; notices of death arrive
later than death. A life of the service is `watched` once a death recipient is registered for
it. Registering may fail without anybody noticing, and `SetServiceProxy`, by which C++ hands
over the proxy it has, registers none: a proxy can be stored of whose death nothing will tell.

The stubs of `ObserverStub` read published and proxy data item by item up to the announced
number, as their loops do, which do not stop at an item they cannot read: the one leaves it
out, the other takes a default for each field. From the first damage on the cursor may be
anywhere, so that any item may be read as another one or as `Garbled` (fields of one beside
defaults or beside what stands in a wrong place). Rdb data is read as a whole, or comes out of
shared memory, which may end after any read or announce any length. `CallReporter` keeps, besides the counters of the code, the calls of
each function since the clock last failed for it (`calls`), which its property is about.

A list of which the code uses no order is a set: the observers of a controller in
`ServiceRecovery`, the callbacks of a uri in `AniHelper` and in `ProxyDataManager`, the
entries of a subscriber in `RdbManager`. In `PublishedManager` they are a sequence,
because an enable and its replay take the first one.

`ParcelCodec` describes each message by a layout (primitives, lists, records, tagged
values) and defines once how a layout is written and read; `WireTransfer` builds a
message, may cut its stream and reads it. A token stands for one primitive, so bytes,
alignment and escapes are abstracted.

A batch update of the ArkTS binding crosses three conversions in `AniValues`: flattened by
Rust, made into operations by C++ (`GetOperations`), and flattened and rebuilt for the ArkTS
extension; its codes come back on one. The C++ takes of the values of operation j the pair at
place j, in whatever order the map of the values is walked.

### Composition for TLC

The subscriber managers and the connection are composed with their environment in
their own modules. The components of `MCDataPath`, and those of `MCConsumer`, share no
variable: the code couples them by values that each module takes from its environment
(a missing proxy in `HelperCalls` is what `ServiceRecovery` and `ExtConnection` leave
behind; a refused call in it is the answer of `CallReporter`). A run therefore chooses
in `Init` which of them it follows (`part`), and the others stay as they are. This
explores each one completely, and not their product, which would add no behaviour to
any of them. `PeerSpec` and `DeliverySpec`, which the theorems are about, let all their
components step: there the product is covered.

## 3. The runs

| Run | Checks | Instance |
|---|---|---|
| `RdbConcurrent` | `TypeOK`, `ServiceCarriesEnabled`, `NoMissedChange` | 2 threads, 2 helpers, 1 key, 2 observers, 2 changes |
| `RdbRecovery` | `ServiceCarriesEnabled`, `RecoveryRestoresStatus` | 1 thread, 2 helpers, 2 keys, 2 observers, 1 restart |
| `PublishedConcurrent` | as `RdbConcurrent` | as `RdbConcurrent` |
| `PublishedBatch` | `ServiceCarriesEnabled`, `NoMissedChange` | 1 thread, 1 helper, 2 keys, 1 change of both, 1 restart |
| `ConnectionRelease` | `TypeOK`, `ReleasedIsDisconnected` | 2 clients, 1 binder thread, 2 crashes, 1 failure |
| `ConnectionReconnect` | `ProxyFollowsExtension`, `ObserversFollowReconnection`, `Reconnects` | 1 client, 1 binder thread, 3 crashes, 1 failure, MAX_RECONNECT 2 |
| `DataPath` | `BlockRegionsDisjoint`, `ReadsOwnRow`, `ReplyDescribesBlock`, `ImplementsCursor` | header 4, group 12, cell 4 bytes, 2 rows a group, block of 70 bytes, 5 rows of 2 columns |
| | `CellsKeepValues` | blocks of 50 and 74 bytes, 3 rows, 7 calls |
| | `GetterGivesStored` | widths 4, 8, 16; 2 keys |
| | `AnswerIsOwn`, `EntryOutlivesUse`, `EveryCallReturns` | 2 IPC threads, 2 requests of 5 kinds, 1 poll |
| | `ListedIsRegistered` | 2 helpers, 1 uri, 1 callback in two kinds, 1 worker |
| `Consumer` | `SuccessIsReal` | every function of the C interfaces, every outcome |
| | `LimitsCallRate` | thresholds 2 and 3, window 2, 7 calls |
| | `DeadPeerIsForgotten`, `CallbackUsesLiveController`, `RecoveryKeepsObservers` | 2 lives of the service, 3 of the system ability (2 threads), 3 sessions |
| | `SessionsEnd` | 3 sessions, MAX_RECONNECT 2 |
| | `EnabledIsUpToDate`, `ObservedIsSubscribed` | 2 threads, 2 subscribers, 2 changes, 3 or 4 calls |
| | `RemovedIsSilent`, `RegionsHaveOneHolder`, `SharedDataArrives` | 2 messages of each of 3 kinds, of 2 items that announce -1 to 4; 2 items, 3 regions |
| | `SurvivesWire`, `DamageIsRefused`, `PathsAgree` | every layout, 1 built operation, every cut |
| | `ValuesKeepPlace` | 3 uris, 2 operations (of 1 and 2 values) or codes each, 3 buckets, 3 changes |
| `ResultSetStaleWindow` | violates `ReadsOwnRow` | as `DataPath`, with `FailAfterRows` |
| `RdbEnableAll` | violates `EnableEnablesObservers` | 1 thread, 1 helper, 2 observers |
| `PublishedMarkRace` | violates `MarkedWhenNobodyEnabled` | 1 thread, 2 helpers |
| `ConnectionStored` | violates `StoredForReconnection` | 1 client, 1 binder thread, 2 crashes, 1 failure |

What the properties say:

- **ServiceCarriesEnabled**: while no call and no recovery works on a key, an
  enabled observer's key is enabled at the service. Excepted are the keys on which,
  since the service last died, two calls overlapped (nothing orders their requests),
  a request was not answered (the code does not notice) or the recovery's request
  failed (it is not repeated). These exceptions are facts about the code and are
  listed as hazards.
- **NoMissedChange**: an observer that was registered when a change arrived and is
  enabled now has been called with that change or a newer one.
- **RecoveryRestoresStatus**: when the recovery ends, the service holds for every
  key exactly what the registry holds.
- **ReleasedIsDisconnected**: a released connection is not kept by the ability
  manager, however timeouts, late callbacks and reconnections raced the release.
- **ProxyFollowsExtension**, **ObserversFollowReconnection**: after any number of
  crashes the proxy is that of the running extension, and the observers the clients
  registered are stored and registered there.
- **Reconnects**: a connection in use that lost its extension gets a new proxy.

- **BlockRegionsDisjoint**, **CellsKeepValues**: no byte of a
  block is used twice, nor in the middle of a fill or after a refused call, and what was
  put is what is got, through either handle, until the block is cleared.
- **ReadsOwnRow**, **ReplyDescribesBlock**, **ImplementsCursor**: a getter gives the
  row the cursor stands on; what the stub tells its client lies in the memory; the
  whole is a cursor. The last row of a window may break off (`BreaksOff`): where the
  bridge was refused a cell, that one and those behind it read as nulls.
- **GetterGivesStored**: a getter gives the value last set, or refuses what its width
  does not hold.
- **AnswerIsOwn**, **EntryOutlivesUse**, **EveryCallReturns**: a late answer reaches
  nobody else, the entry of a task is freed once and last, and every request returns. One
  use after the deletion is excepted, because the code has it (`UnlocksDeleted`): the
  entry of a task that could not be posted is unlocked after it was deleted.
- **ListedIsRegistered**: a callback the binding lists is registered with the provider.
- **SuccessIsReal**: what looks like a success was done by the right handler
  (`SuccessIsAnswered`, which names the functions whose answer is not looked at:
  `batch_update`, the user-defined function, subscriptions and publishing through the
  helper), and from arguments that could be read (`DamagedInputFails`). A damaged item or
  field goes unnoticed wherever the code leaves it out or replaces it. Of the calls that
  had nothing left to read, these still succeed: queries, templates, batches of values,
  registrations and notifications, with a default, and the unsubscription of published
  data, which removes the subscriber from all uris. Every other one gives an error or no
  results, and one that gives no results may have been executed: the rdb one deletes all
  observers of the subscriber.
- **LimitsCallRate**: across the borders of windows at most two windows of calls pass,
  and a refused call had a window of calls before it.
- **DeadPeerIsForgotten**: a dead proxy is dropped when its death is told; not if the
  peer died between the fetch and the store (`raced`), nor if the recipient was dropped
  by the late notice for the provider before (`crossed`), nor if none was registered for
  that life of the service (not in `watched`), as after `set_service_proxy`.
- **CallbackUsesLiveController**, **RecoveryKeepsObservers**: the recovery calls no
  controller that is gone and loses no observer, nor does a reconnection.
- **SessionsEnd**: an open session has a holder of its handle, and a released connection
  reopens at most MAX_RECONNECT times. Excepted (`overlap`) are two sessions opened at
  once and a task that slept through the drop.
- **EnabledIsUpToDate**, **ObservedIsSubscribed**: as `NoMissedChange` and
  `ServiceCarriesEnabled`, for the Rust managers. Excepted are keys on which a request
  failed, was not answered or came late (`excused`) and, for rdb data, an observer enabled between the
  mark and the store of a change (`missed`).
- **RemovedIsSilent**: a cleared or removed callback is not called again.
- **RegionsHaveOneHolder**, **SharedDataArrives**: shared memory is closed once, by
  whoever holds it, and gives what was put into it; a callback gets all the items before
  the first damage of its message, unchanged and at their places (out of shared memory, or
  through a handle of the C interface, a beginning of them), and no more items than the
  message announced. What it gets behind the damage may be anything.
- **SurvivesWire**, **DamageIsRefused**, **PathsAgree**: messages are read as written, a
  cut stream is refused, and parcel and buffer mean the same (but only the buffer keeps
  an empty list).
- **ValuesKeepPlace**: batches, buckets, maps and changes are rebuilt as they were
  flattened, but of the values of an operation in a batch update only one pair is kept,
  and that only if there are as many as the place of the operation in its list.

Why these bounds: two threads suffice for every pairwise race, and one delivery and
one recovery run beside them. Two changes are needed for an older value to meet a
newer one; two observers of one key for "first" and "last" to differ; two keys for
partial refusals and for a recovery that has done one key and not the other. Three
crashes with MAX_RECONNECT 2 use up the immediate reconnection, a delayed one and
the limit. `MaxQueue` bounds the callbacks that are on their way when a client
connects. The connection's runs have one binder thread, because the ability manager
calls a connection back one way and such calls to one object are handled one after the
other. It matters: if two binder threads handled them out of order, a stale proxy could
survive, and with two crashes a released connection could stay linked (an answer to
Connect is then overtaken by the notice of the crash). One crash is too few to show the
second. The order is listed as a hazard. A block of 70 bytes holds two of the five rows, and one when a long
string comes second: it fills up at a group's border, in a row directory and in a
string. Two requests with one poll suffice for an answer that is late by one request.
A second life of a peer is needed for a stale proxy and a third for the notice of the
first to meet the second. `MaxUpdates` is 1 in `ExtConnection`: with one observer a
removal only weakens `RecoveryKeepsObservers`. A predicate of one operation exercises
every tag and both formats, since lists of operations are written by one loop.
Deadlock is not checked: when the bounds are used up and every
call has returned, nothing need happen.

Fairness, for `Reconnects` only: a binder thread that has a callback to handle, and
a pool thread that has a task to run, eventually take their next step (weak
fairness). Both only run code that does not block. Nothing is assumed of the
clients, the owner, the clock or crashes. For `EveryCallReturns`: an IPC thread goes on
with its request, and the main thread finishes a task it has begun. That it begins one,
and that a handler answers, is not assumed: waiting ends after 3 s and polling after
TRY_TIMES.

### Disagreements between code and documentation

1. `EnableEnablesObservers`: `EnableObservers` enables only the first observer a
   helper has for a key, `DisableObservers` disables all; `datashare_helper.h` says
   "Enable observers by the given uris and template".
2. `MarkedWhenNobodyEnabled`: in `PublishedDataSubscriberManager::Emit` an observer
   disabled between the two lock sections is neither marked nor called, against the
   comment there.
3. `StoredForReconnection`: an observer stored while a re-registration runs, or
   whose re-registration fails, is dropped from `observerExtsProvider_`, against the
   comment at that member and against a unit test's description.

4. `ReadsOwnRow` in `ResultSetStaleWindow`: when the bridge fails after it has written
   rows, `on_go` (`result_set.rs:243`) sets the window to -1 and keeps the rows;
   `block_row_index` then takes the cursor position for an index. The comment there says
   "invalidate cache".

Others met while modelling, which the modules contain and no run singles out:

- `service_proxy.rs:44`: IS_SYSTEM is one flag of the process; in C++ it is one per thread.
- `general_controller.rs:100` says "`business_error` is filled with error details if the
  query fails."; a blocked query and one whose writes fail leave it as it was.
- `proxy_data_subscriber_manager.rs:191` says "Emit change notifications to matching
  observers."; every observer of every uri is called, with the map locked, so that an
  observer that uses the manager blocks itself. The published manager does the same.
- `datashare_connection.rs:457` says "raw pointers are valid for the connection's
  lifetime"; the thread spawned there may outlive the connection.
- `manager_impl_ffi.rs:129` says "re-register observers after service restart."; it is empty.
- `publish_ffi.rs:26` says "Returns 0 on success, DATA_SHARE_ERROR on failure."; it returns 0
  with results that are all errors.
- `result_set.rs:483` says that a blob gives the empty string; it gives the bytes as UTF-8
  or an error (500-505).
- Rust: a timed query keeps the error of an earlier attempt and retries after any failure;
  `batch_update` returns 0 whenever there is a reply; `get_proxy` can store a proxy whose
  death has been told already; the late notice of a dead system ability clears the recipient
  of its successor (C interface); deleting all rdb observers of a subscriber, or any observer
  of proxy data, does not unsubscribe; unreadable uris make the C interface of the controllers delete all observers;
  a subscription that was not sent or not answered leaves its observer listed and enabled;
  the handle of a death recipient is not kept, nor its failure noticed (`manager_impl.rs:200`);
  `set_service_proxy` adds none; a row of which a cell was refused stays in the window;
  an observer of published data that joins a key whose observers are all disabled leaves it
  off at the service; `ClearCallback` of the C stubs takes no lock; `set_raw_data` ignores
  the read-only flag.
- Binding: of the values of an operation in a batch update one pair arrives at the provider
  (`datashare_ani.cpp:1272-1300`), and of an operation with fewer values than its place in the
  list what lies behind them; the test of it (`DataShareBatchUpdateTest.ets:93-119`) updates
  four values and expects to find one of them; the observer list of a uri is one for all helpers, so that `on` through a second
  helper does nothing and `off` through another forgets without unregistering; errors of a
  registration are swallowed; a helper is checked and used while `close` may take it away;
  error codes 4 to 6 of proxy data become Success (`datashare.rs:1215`); empty buckets are
  lost and buckets with a boolean split in change infos.
- Provider: `DataShareUvQueue` deletes the entry whose mutex it holds when the event cannot
  be sent; the main thread holds that mutex while a handler runs, so that the limit of 3 s
  does not apply then; `ResultWrap` is read under a lock its writers do not take.

## 4. The proofs

TLAPS checks every proof to its last leaf; keys, observers, threads, clients, helpers,
uris and bounds are arbitrary.

| Theorem | Module | States |
|---|---|---|
| `RdbTypeCorrect`, `PublishedTypeCorrect` | `Rdb...`, `PublishedDataSubscriberManager_proof` | `Spec => []TypeOK` |
| `RdbServiceCarriesEnabled`, `PublishedServiceCarriesEnabled` | as above | `Spec => []ServiceCarriesEnabled` |
| `RdbRecoveryRestoresStatus` | `RdbSubscriberManager_proof` | `Spec => RecoveryRestoresStatus` (an action property) |
| `RdbNoMissedChange`, `PublishedNoMissedChange` | as above | `Spec => []NoMissedChange` |
| `ConnectionTypeCorrect` | `DataShareConnection_proof` | `Spec => []TypeOK` |
| `ConnectionReleased`, `ConnectionProxyFollows`, `ConnectionObserversFollow` | `DataShareConnection_proof` | `OneByOne => (Spec => []P)` for `ReleasedIsDisconnected`, `ProxyFollowsExtension`, `ObserversFollowReconnection` |
| `ExtensionAnswers`, `ExtensionEntries` | `DataPath_proof` | `ExtensionSpec => []AnswerIsOwn`, `[]EntryOutlivesUse` |
| `HelperCallbacks` | `DataPath_proof` | `AniHelperSpec => []ListedIsRegistered` |
| `FfiBlockIsWellFormed`, `CellsAreKept` | `DataPath_proof` | `BlockFfiSpec => []FfiBlockWellFormed`, `[]CellsKeepValues` |
| `RegionsAreDisjoint`, `ReplyIsTrue` | `DataPath_proof` | `ResultSetSpec => []BlockRegionsDisjoint`, `[]ReplyDescribesBlock` |
| `GettersReadOwnRow` | `DataPath_proof` | `~FailAfterRows => (ResultSetSpec => []ReadsOwnRow)` |
| `ResultSetIsCursor` | `DataPath_proof` | `~FailAfterRows => (ResultSetSpec => ImplementsCursor)`: the refinement of `ResultCursor` |
| `PeersForgotten`, `RecoveryCallbacksLive`, `RecoveryObservers`, `ConnectionSessions` | `PeerRecovery_proof` | `PeerSpec => []P` for `DeadPeerIsForgotten`, `CallbackUsesLiveController`, `RecoveryKeepsObservers`, `SessionsEnd` |
| `CallRateIsLimited` | `PeerRecovery_proof` | `ReporterSpec => []LimitsCallRate` |
| `ConsumerUpToDate`, `ConsumerSubscribed`, `ConsumerSilent`, `ConsumerRegions`, `ConsumerItems` | `ConsumerDelivery_proof` | `DeliverySpec => []P` for `EnabledIsUpToDate`, `ObservedIsSubscribed`, `RemovedIsSilent`, `RegionsHaveOneHolder`, `SharedDataArrives` |

Assumptions on constants: fillers are not members of what they fill in for
(`NoSubscriberAssumption`, `DeliveryAssumption`: "none" is no uri, `<<>>` no key, "moved"
no item); a message to a stub has a list of items, announces an integer, and a region can be
read a natural number of times (`DeliveryAssumption`); the thresholds of the call limiter are positive (`CallReporterAssumption`;
100, 3000 and 30000 in the code); bounds are naturals (`BoundsAssumption`, `ConnectionBoundsAssumption`,
`ExtensionCallAssumption`, where TRY_TIMES is one too); the number of reconnections is
positive (`MaxReconnectAssumption`, `PeerRecoveryAssumption`; it is 6 in the code).
`SharedBlockAssumption`, `ResultSetAssumption` and `BlockFfiAssumption` say of the blocks
that header, groups and cells have positive sizes and a group at least one row, that a
block is larger than its header and first group (432 bytes of 2 MiB in the code), and that
sources hold cell values; alignment, the number of columns and how many rows fit are free.
`~FailAfterRows` is a hypothesis of two theorems: a bridge that reports an error, also that
of a refused cell, has written no rows. Without it both are false, as `ResultSetStaleWindow` shows; `ReplyIsTrue` and
`RegionsAreDisjoint` do not need it.
`OneByOne` (`CallbackThreads` is a singleton) is a hypothesis of three theorems: the
callbacks of one connection are handled one at a time, in the order they were sent. The
binder guarantees it, since both callbacks are one-way calls to one object; section 3
says what happens without it. `ConnectionTypeCorrect` does not need it.

Every inductive invariant below was an invariant of a TLC run on the instances of
section 3, or near ones, before it was proved.

**The C++ managers.** `TypeInv` adds to the types that observer numbers in the registry
are below the next number, and that a dead service may still be restarted.
`ServiceCarriesEnabled` says nothing about keys in the middle of a call, so it is not
inductive. `CarryInv` adds, for every key that is not tainted (`KeyInv`): it is in at
most one call, in none during a recovery, and what the registry and the service hold
at each point of the call (`CallInv`): the keys still to be accepted or rolled back
(`Refusable`) have no enabled observer but those of the calling helper, so that rolling
back leaves none enabled; a key being unsubscribed or disabled has none enabled; a
refused disable leaves the service enabled. `RecInv` says what a recovery has read
and done: a key with an enabled observer is still to be read, or still to be
subscribed, or carried. `ExactInv` is the converse, which `RecoveryRestoresStatus`
needs: the service holds nothing before it is told, and what the recovery has read is
still so, because a call that touches the key meanwhile taints it.
`SubscriberManager_proof` has one lemma per step of a call
(`...Type`, `...Carry`), shared by both managers; the managers' modules add delivery,
replay and recovery and combine everything.

`NoMissedChange` speaks of keys that nobody works on; in between, a debt may be open.
`DeliveryInv` (`SubscriberDelivery_proof`) says that it is then written down: an observer
that is behind is still to be called by the Emit in progress, or has the flag on its
disabled node, or has the flag on its enabled node together with the replay of an
EnableObservers call (`Pending`), and that changes are numbered in the order in which they
are stored (`Ordered`). Which step writes the debt down differs between the two managers,
because one stores a change before it marks and lists and the other after.

**The connection.** `OwnerInv`: one call creates the helper, and the connection is
invalid from the moment the deleter said so. `FollowInv`: until then, following the
callbacks that are queued or being handled (`Heading`) leads to the proxy of the running
extension. `BackedInv`: a link is always noticed by a callback that is on its way.
`ReleasedInv`: if a released connection is still linked, a callback that will find it
invalid and disconnect it is on its way. `Heading` is where the order of callbacks is
used. For the observers, `StoredInv` says where they are while a handler has moved them
out of the map, `RegisteredInv` that a handler loses none while it registers them, and
`SyncInv` that the extension has them unless a callback or a handler is about to
register them; `ProxyInv` and `FirstInv` bound who can store one and when.

**A request in an extension.** `AnswerInv`: `result_` and the wrap the ArkTS callback
points to belong to the request the main thread is at (`OwnPoint`), so whatever is in a
wrap is its own (`OwnValue`). `OnceInv`: a request is served by one thread and posted
once. `CountInv`: the count of an entry is the number of those who refer to it, which is
why the last one to let go frees it, and only that one.

**The binding.** `ListedInv` adds to `ListedIsRegistered` that every listed callback has
an observer of its own: otherwise `off` of one could end the registration of another.

**Shared blocks.** `WellFormed` alone is not inductive. `BlockInv` adds the shape of the
record (`IsBlock`), that header and first group lie below the unused offset (`HasRoom`),
that the chain of groups has one for every row (`Chained`), and that every row has a
directory whose cells point to bytes that are there (`Filed`). Each operation has one lemma
(`ClearInv`, `SetColumnNumInv`, `AllocRowOffsetInv`, `AllocRowInv`, `PutInv`,
`FreeLastRowInv`, ...): it keeps `BlockInv`, whatever it answers, and the value of every cell
but the one it is asked to change (`KeepsCells`). Rows and slots are matched by division
(`RowIsSlot`); the walk of the code asks `row > 100` where it allocates and `row >= 100` where
it looks up, and `AllocRowOffsetInv` says that both reach the same group. A row refused for
want of memory stays counted only in a block of no columns, which the lemma says too.
`FfiInv` is `BlockInv` and that the table of what was written is what the cells hold
(`Tabled`).

**The result set.** `ResultSetInv` has three parts besides the types. `WindowInv`: between
calls the rows of the block are those the window names. `FillInv`: while a bridge writes,
all rows but the one it is at are whole and in the order of the source, and of that one the
cells passed so far, the cells behind them being null. Where a cell is refused there is no
room for it, and since nothing more is put there will be none: this is why the last row of a
window is whole or breaks off exactly there. `ReplyInv`: what the client was told is the window. For the
refinement, a getter is a stutter; the start of a fetch is `Lose`, nothing is shown while the
bridge writes, and its end is `Move`, or `Lose` when it failed; closing is `Close`. That
the row shown after a move is the row moved to follows from `WindowInv`.

**A peer that dies** (`PeerInv`). `ProxyInv`, `ProviderInv`: a proxy that is
cached or held by a thread names a peer that runs, or one of whose death a notice is on its
way, or whose death is recorded as having come in between; of the service this is said of
the lives for which a recipient stayed registered. `LiveInv`: only controllers that are
not dropped have a callback, and the recovery keeps the lock over the one it is at.
`ConnectionInv`: without an `overlap` there is at most one session open and its handle is
stored or about to be (`OneSession`), and the reconnections of a released connection are
among those that were counted (`CounterInv`).

**Delivery to the Rust observers** (`DeliveryInv`), one invariant per component; a lemma
says of each that the steps of the others leave it alone. `RdbReachInv` and `PubReachInv`:
what an observer has not seen is about to be delivered, about to be replayed, or kept as a
mark on a disabled entry with the change stored. `RdbAskInv` and `PubAskInv`: a key with
an enabled observer is subscribed, or a thread is about to subscribe it or to take the
observer back, or a request on it is excused. `PdInv`: observers are called only while the map is locked. `SilentInv`: who runs a callback has its mutex.
`RegionInv`: the region of a message is open from its arrival to the recovery of its
data. `HoldInv`, `WantInv`: the handles held by items, nodes and messages are exactly
those that are open, each held once, and each region has the content its item wants; the
cardinality that `RegionHasOneHolder` counts is derived from this exactness. `SentInv`:
while a stub is at an item, every item before it that is intact was taken, at its own place
(`Taken`), and afterwards all of them are, or a beginning of them where a region ends early
(`RegionTaken`).

**The call limiter.** `LimitsCallRate` speaks of any stretch of time, the code of windows
only. `ReporterInv` says that every call belongs to a window, which another call began
(`InWindow`), that the windows begin at least TIME_THRESHOLD apart (`Apart`), that a call
was refused exactly if it is the ACCESS_COUNT_THRESHOLD-th of its window or a later one,
and that the entry of the function counts the last window (`Counts`). The two halves
follow: a stretch of TIME_THRESHOLD meets at most two windows, each with at most
ACCESS_COUNT_THRESHOLD - 1 calls that passed (`TwoWindows`), and the calls of the window
of a refused one up to itself lie in the stretch before it (`FullWindow`).

Only model-checked, and why:

- `Reconnects`, `EveryCallReturns`: liveness under fairness, which this prover does not
  handle (nor `ENABLED`).
- `GetterGivesStored`, `SurvivesWire`, `DamageIsRefused`, `PathsAgree`, `ValuesKeepPlace`: what
  codecs and flattenings compute by recursion or iteration over layouts, nodes and lists;
  there is no induction over data, and none over RECURSIVE operators.
- `SuccessIsReal`: a table of the functions of the C interfaces, each one step, without a
  constant to generalise over: TLC evaluates all of it, and the instance is not a bound
  but every outcome of a request.

## 5. Not modelled, and the plan

`components` in `PROJECT.json` has every part with its reason. In short:

- **C++ originals of what is modelled from Rust** (result set, predicates, serialisation,
  controllers, `DataShareSAConnection`, proxy data): the port follows them function by
  function; where it does not, the C++ side is not covered.
- **Rust provider**: stub handlers, extension ability and JS bridge return fixed values;
  there is no behaviour to model yet. The provider is modelled from the C++ stub and the
  ArkTS extension, which are complete.
- **ArkTS runtime in Rust** (`src/common/ani_rs`, its macros and bindings): one function per
  primitive type or operation of the virtual machine, and serde glue, with no state of
  this system; modelling it would restate the language runtime.
- **N-API and Cangjie bindings**, the subscriber managers of the ArkTS binding
  (`ani_subscriber_manager.cpp`) and its proxy handle: conversions around registries.
- **Uri and string utilities, permission, configuration, dfx, platform wrappers**: text
  processing, stateless queries, output, declarations.
- Release of a `DataShareHelperImpl` racing its calls; loading a system ability.

Plan, in order:

1. An abstract specification of a subscription (registered, enabled, informed), and the
   refinement of it by the C++ and the Rust managers.
2. The registries of the N-API and ArkTS subscriber managers on top of the managers.
3. `ProxyDataSubscriberManager` in C++ on `CallbacksManager`; what its roll-back removes.
