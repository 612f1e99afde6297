# Verification of liveconfig

TLA+ modules, TLC configurations and TLAPS proofs for `liveconfig`, a Go library
that serves a config struct whose fields can be overridden at run time from a
store. Paths such as `provider.go:383` are relative to `src/`.

## 1. The system

| Part | State | Operations | Interacts with |
|---|---|---|---|
| `Provider` (`provider.go`) | snapshot pointer `current`, `lastErrText`, counters, one-element `refreshTrigger`, `eventCtx` | `New`, `Get`, `Refresh`, `Stats`, event loop (`eventLoop`, `refresh`, `handleChangeEvent`) | calls `Store.List`, reads the channel of `Store.Watch` |
| Subscriptions (`provider.go`) | `subs` under `subsMu`, one bounded channel each | `Subscribe`, a cleanup goroutine each, `notifySubscribers` | the loop sends, the application receives and calls `Get` |
| Shutdown (`provider.go`) | `closeMu` (a `sync.Once`), `wg` | `Close`, cancellation of the context given to `New` | waits for the loop, closes subscriber channels, then the store |
| `Store`, `ChangeEvent`, `HistoryOptions` (`store.go`) | none | the contract of `List`, `Set`, `Delete`, `Watch`, `History` | implemented by the stores |
| `MemStore` (`memstore/store.go`) | `data`, `audit`, `seq` under `mu`; `watchers` under `watchMu` | `Get`, `List`, `Set`, `Delete`, `Watch` and its cleanup goroutine, `broadcast`, `History`, `Close` | broadcasts to the channels of `Watch` after releasing `mu` |
| `PollingWatcher` (`pollingwatcher.go`) | `prev`, `seeded` of each `pollLoop` | `Watch`, `pollLoop` | lists a custom store, sends the differences |
| Catalog (`catalog.go`) | immutable field descriptors; the structs that base and snapshots point to | `buildCatalog`, `applyOverrides`, `navigateField`, `parseFieldValue` | `New` builds it, `refresh` applies it |
| `PGStore` (`pgstore/`) | tables of values and audit records, a LISTEN connection per `Watch` | `Get`, `List`, `Set`, `Delete`, `History`, `Watch` with `listenLoop`, `Migrate` | the trigger and `Delete` notify every process that listens |
| Options, errors | defaults, sentinels | - | - |

What is hard to test: `List` and the installation of its result are two steps
during which the store moves on; watch events are dropped, reordered and may
announce older states than the one listed; subscriber events are dropped; a
refresh fails after its event was consumed; the loop, cleanup goroutines and
`Close` close and send on the same channels; refresh requests coalesce; `Stats`
reads several atomics without a lock; the poller and the Postgres listener block
on a channel whose reader may be gone; transactions of several processes
interleave and fail halfway; the listen connection drops and reconnecting fails;
`applyOverrides` works on a shallow copy of base. `PROJECT.json` lists these hazards with their lines and the
properties that cover them.

What makes each part correct:

* `Get` serves the base struct with all overrides of one state of the store,
  never a mixture and never an older state again; it catches up with the store.
* A subscriber's event is never ahead of `Get`; an event dropped at a full
  subscriber channel leaves no subscriber behind; every subscriber hears of
  every recreate-on-change write that the watch channel did not drop.
* `Close` returns; then nothing moves any more; no channel is
  closed twice or sent on after its close.
* A `MemStore`'s audit trail explains its data; its channels carry genuine events
  of their namespace, once; paging through `History` misses nothing.
* A `PollingWatcher` sends a complete diff, and ends with its context.
* `PGStore`'s rows, audit trail and notifications agree, whatever fails; while the
  connection listens every commit reaches the Provider once and in order.
* The catalog is exactly the dynamic leaves that nothing hides; an override
  reaches its field with the value it spells, and, where base shares no struct with
  its copies, leaves no trace when it goes.

## 2. Modules

    ConfigData          overrides, config struct, ChangeEvent, applyOverrides,
                        HistoryOptions
      Provider          New, event loop, refresh, Subscribe, Refresh, Close
      StoreContract     what a Provider may assume of any Store
      LiveView          abstract: what Get promises
      MemStore          memstore, at the grain of its two mutexes
      PollingWatcher    pollLoop
      PGStore           transactions of Set and Delete, History
      PGListener        Watch and listenLoop on a connection that breaks
    LiveStore           Provider + StoreContract; implements LiveView
    LiveMem             Provider + MemStore;      implements LiveStore
    LivePoll            LiveStore + PollingWatcher; implements LiveStore
    MemUse              MemStore + writers, watchers and a reader of History
    PGWatch             PGStore + PGListener; implements StoreContract
    ProviderStats       refresh and Stats at the grain of atomic operations
    Catalog             the walk over a struct type, and parsing
    CatalogUse          Catalog + applyOverrides on a heap of structs
    LiveStoreProofs     TLAPS proofs about LiveStore
      LivePollProofs    ... LivePoll, on top of LiveStoreProofs
    CatalogProofs       ... the walk and the keys (Catalog, in CatalogUse)
      CatalogUseProofs  ... applyOverrides and Get, on top of CatalogProofs
    LiveMemProofs, MemUseProofs, PGWatchProofs,
    ProviderStatsProofs ... the module each is named after
    MCLiveStore, MCLiveMem, MCLivePoll, MCMemUse,
    MCPGWatch, MCCatalog                values for TLC

**ConfigData.** A raw string is an element of `RawValues`; a field is named by its
store key. The catalog is the constant `Strategy`, the outcome of
`parseFieldValue` the constant `Parse`, whose result may be `Invalid`.
`ApplyOverrides` is `applyOverrides` for a struct that holds its fields and nested
structs by value (CatalogUse is about the others). `ChangeEvent` has one field the Go struct lacks: `ver`, the
number of the store state the change led to, so that properties can relate events
to states. `NormalLimit` and `NormalOffset` are `HistoryOptions.Normalised`, which the
`History` of both stores applies. `ChangedBy` and times are left out.

**Provider.** `pc` is the control point of the goroutine that runs `New` and then of
the event loop: `newList`, `newInstall`, `newWatch`, then `select` and, per case,
`list`, `install`, `notify`. `refresh` is two steps, so that the store can change
between `List` and `current.Store`. `listed` is the local map of `refresh`,
`handling` the event `handleChangeEvent` works on. `Notify`, `SubCleanup` and
`CloseSubs` are the three critical sections of `subsMu`; each records in
`panicked` whether it would close or send on a closed channel, which in Go is a
panic. `once` is the progress of the function given to `Once.Do`: `waiting`
(in `wg.Wait`), `subsClosed`, `done`; other callers of `Close` block until
`done`. `listedVer`, `currentVer`, `asked`, `notified` and `built` number store
states and exist for the properties only. The subscriber is external: it rebuilds
from `Get` when it subscribes and whenever it receives.

**StoreContract.** The store's namespace goes through a sequence of states
(`states`); `List` returns the last one or fails; the watch channel may lose,
delay, repeat and reorder announcements of states the store has reached, and may
be closed at any time. No order and no completeness is assumed, so what is shown
on it holds on every store that keeps this contract.

**MemStore.** `Set` and `Delete` are `Write` (the section under `mu`, with the audit
record) followed later by `Broadcast` (the section under `watchMu`): in between the
event is a member of `unsent`, and writers broadcast in any order. `WatchCleanup`
is the goroutine of `Watch`. `History` works on the ids of audit records, and a page
is a set of them: the record that `sort` and the bounds of the slice put at place
`n` is the one with `n` newer records of its key.

**PollingWatcher.** `PollSeed` and `PollCompare` are the ticks whose `List`
succeeds; `PollSend` sends one event and blocks while the channel is full;
`PollExit` is `ctx.Done`, while waiting for a tick or for room.

**ProviderStats.** `After` is the order of the atomic stores of `refresh`;
`LoadErr`, `LoadTime` and `LoadCount` are the loads of `Stats` in order.

**PGStore.** A transaction goes through `read` (the `SELECT` of `Set`, which takes no
lock), `written` (upsert or `DELETE ... RETURNING`, which wait for the row) and
`audited`, and ends in `Commit` or, when a statement fails or the caller's context
ends, in `Rollback`. Postgres is external and modelled as the code uses it: READ
COMMITTED, row locks to the end of the transaction, audit ids that are taken
before the commit and never given back, notifications that leave with the commit.
A `Delete` that finds no row and a failed `Watch` change nothing and are no
actions. `Migrate` has run. Nobody but `Set` and `Delete` writes the tables: the direct
inserts of `README.md:162-173` fire the trigger too, but leave no audit record.

**PGListener.** `loop` is the control point of `listenLoop`: `wait`
(`WaitForNotification`), `send`, `backoff`, `connect`. Notifications queue in
`inbox` while the connection listens; when it breaks, a suffix of them is lost
with it. A failed `ConnectConfig` leaves `conn` nil, and the next
`WaitForNotification` panics (`WaitOnNil`), which runs the deferred close of the
channel and ends the process. How long the loop backs off is left out.

**PGWatch.** The database, one `Watch` and the Provider's end of its channel. It
implements `ContractSpec` of StoreContract, so that what section 4 proves of
LiveStore holds of a Provider on a PGStore. `listenAt` and `seenVer` exist for
the properties only.

**Catalog.** A path is the sequence of indices that leads to a field, and a struct
type is a function that maps each path to the attributes `walkStruct` looks at; a
key is the sequence of its parts. `walkStruct` handles one field per step:
`cursor` is the path of the next field, whose length is the depth of the recursion,
and `prefixes` holds the parameter `prefix` of each active call. `EnterStruct` and
`ReturnFromStruct` are the recursive call and its return, `CollectLeaf` and
`SkipField` the rest of the loop's body, `RefuseField` the errors. Integers keep a
width: `WordHalf` and `NarrowHalf` stand for 2^63 and 2^7 and are scaled to 8 and 2
for TLC, so that values exist that do not fit a narrow type, and values that do not
fit 64 bits. Which raw strings other kinds accept is a constant, and so is `Single`,
what is left of a float64 in a float32 field. T is a struct: for anything else
`buildCatalog` returns `ErrNotStruct` before it walks.

**CatalogUse.** `heap` holds base, the result of each `applyOverrides`, and the
structs behind pointers; copying base copies its pointers, as in Go. Any of base's
pointers may be nil. `applyOverrides` handles one descriptor at a time: `at` is its
index, and `SkipDescriptor` a `continue`. `navigateField` follows one index per
step: `depth` is the next one, `obj` the struct it has come to, and `Follow` lets it
through a pointer, which it allocates if nil. A caller may keep what `Get` returned
at any time, also in the middle of a refresh. The field `of` of an object, the copy
it was allocated for, is history and exists for the proofs only; so do `installed`
and `seen` for the properties.

Operators named `Fault_...` are plausible faults of the definition that follows
them. No specification uses them; substituting one for its original must violate
the property `PROJECT.json` pairs it with.

## 3. Runs

Deadlock is not checked in any run: a closed Provider stops, and the bounds stop
writers.

| Run | Configuration | Shows |
|---|---|---|
| `provider` | one subscription, two calls of `Close`, buffers of 1, a store that changes both fields at once, one value that does not parse, fairness | `TypeOK`; `NoPanic`; `EventsNotAhead`: the change of every event in a subscriber channel is in the snapshot; `OverflowIsHarmless`; `NoLostRefresh`; `CloseIsFinal`; `ImplementsLiveView`: refinement of the abstract view; `CloseTerminates`; `CancelledChannelCloses`; `SnapshotConverges`: the ticker alone catches up |
| `memstore` | two namespaces and watchers, 3 writes, pages of 1 | `AuditExplainsData`, `EventsGenuine`, `PagingMissesNothing` |
| `provider_on_mem` | two namespaces, one subscription, one `Close`, buffers of 1, 2 writes, no fairness of the ticker | `TypeOK`, `NoPanic`, `NoMissedRebuild`, `NoLostWakeup`: dropped and reordered broadcasts leave no change unread, `EventsKeepCurrent`: events alone keep the snapshot current, `ImplementsLiveStore`: a MemStore keeps the contract |
| `polling` | 3 states out of three, channel of 1, one `Close` | `LPTypeOK`, `DifferenceWakesLoop`, `ReplayGivesList`, `ImplementsLiveStore`, `PollLoopExits` |
| `stats` | two readers, 4 refreshes | `TimeIsCounted`, `CountedIsVisible` |
| `postgres` | two writers, 3 transactions, two namespaces, channel of 1, connections that break and fail | `TypeOK`, `AuditEndsAtRows`, `NotificationsChain`, `NewRecordsOnTop`, `ListenIsExact`: while the connection listens every commit is on its way once and in order, `WatchClosesAfterCancel`, `ImplementsContract`: PGStore keeps the contract |
| `catalog` | some 530 struct types, any of base's pointers nil, 2 refreshes | `TypeOK`, `CatalogIsComplete`, `FieldIsFoundByKey`, `SnapshotSpellsOverrides`, `NilSectionStaysNil`, `OnlyUnassignablePanics`, `UnsharedIsPointInTime` |

Runs that are expected to be violated; each checks what a comment or a document
says and the code does not do:

| Run | Statement | What the code does |
|---|---|---|
| `missed_event` | `provider.go:248-249`: "The next event (or the next periodic refresh) will trigger the rebuild." | the ticker's refresh never notifies subscribers |
| `postgres_audit` | `README.md:14`: "every change is recorded with who made it and what the previous value was" | two concurrent calls of `Set` record the same previous value, since the `SELECT` takes no lock |
| `postgres_reconnect` | `pgstore/store.go:315-316`: "The connection is re-established automatically with exponential backoff when it drops." | one failed attempt leaves a nil connection, on which the loop panics |
| `point_in_time` | `provider.go:214-215`: "the returned struct is a point-in-time copy and is not auto-updated" | `navigateField` writes through a pointer that base and all snapshots share |
| `restart_required` | `docs/ANNOTATIONS.md:60`: "No live reload is performed - the current process continues to use the old value." | `applyOverrides` looks at no strategy, and the next refresh installs the new value |

The passing runs next to them say what remains true: `AuditEndsAtRows` and
`NotificationsChain` hold of the trail and of the events where
`AuditRecordsPreviousValue` does not, `UnsharedIsPointInTime` of every leaf that
is held by value or behind a pointer that is nil in base. `SnapshotSpellsOverrides`
looks at a restart-required leaf in the snapshot of `New` only, where code and
documents agree.

**Bounds.** `MaxStates`, `MaxWrites`, `MaxTx` and `MaxRefreshes` cap the store's
history and the refreshes. In `provider` one change
of both fields tells a mixture from either state, and its event may arrive before,
between and after the steps of a refresh, or again; longer histories, where an event is
older than both snapshot and store, are in `polling` (three states) and in the
proofs of section 4, which are for all values. Channels of capacity 1 make overflow
happen at the second event (the code's 64 and 16 would need that many events for
the same situation). One subscription is enough for a cleanup goroutine, the loop
and two calls of `Close` to meet at one channel; channels do not influence each other,
and section 4 proves the safety properties for any number of them.
Three transactions let two of one key overlap while a third
commits before or after, in the other namespace too. In `catalog` a section or
its leaf takes every combination of the attributes, beside a second field whose key may
coincide with the first one's; one type nests pointers two deep; two refreshes let
an override go and leave a struct with a caller while the second one runs.

**Fairness.** A goroutine that can run eventually does: weak fairness of
the steps of a refresh, of broadcasts, of cleanup goroutines and of the steps of
`Close`. Go's `select` chooses uniformly among the ready cases, so a case that is
ready again and again is taken: strong fairness of a case. The safety ticker
fires for ever (strong fairness of `LoopTick`; not assumed in
`provider_on_mem`). A `List` that is called again and again succeeds again and again: strong
fairness of `ListNow`, needed for `SnapshotConverges` only. `Fairness` of LiveStore has no
more than its liveness properties need; `missed_event` runs under `FullFairness`, with
weak fairness of `New` and of the subscriber and strong fairness of every case of the
`select`, so that its counterexample is not one of a Provider that merely stops.
In LivePoll `LPExit` is strongly fair,
since `pollLoop`'s two selects offer `ctx.Done` each time they are reached. In PGWatch
`listenLoop` runs when it can, `LoopEnds` is strongly fair for the same reason,
attempts to reconnect that are made again and again succeed in the end, and the
Provider receives until its context ends. No
fairness of callers, writers, cancellations, of List errors, or of the delivery of
events by a store.

## 4. Proofs

All theorems hold for every value of the constants, under these assumptions:

* `DataAssumption`: the shape of `Strategy`, `Parse` and `Base`; `Absent` is no raw
  string and the empty string is one.
* `ProviderAssumption`: `SubBuf` is at least 1 (`WithSubscriberBuffer` replaces
  smaller values). `ContractAssumption`, `MemAssumption`: watch buffers are at least 1.
* `LiveMemAssumption`: the Provider's watch is one of its own namespace.
* `UseAssumption` of MemUse: a page holds at least one record.
* `PGAssumption`: there is a namespace and a key; `PGWatchAssumption`: a namespace may
  hold any overrides, which is what `Set` and `Delete` can write.
* `CatalogAssumption`: a type is finite, its fields are numbered without gaps and only
  structs have fields; `Absent` is no raw string; the narrow integers are narrower
  than the wide ones; `Single` gives a text for each one that a float32 accepts.
  `UseAssumption` of CatalogUse: `MaxRefreshes` is a number. It is arbitrary, so the theorems hold for any number of refreshes.

Each safety theorem comes from an inductive invariant: the checked property and what
it rests on. TLC has checked each invariant on the instances of section 3 too (of `UseInv`
all but `heap \in Seq(Objects)`, whose values mix integers and texts).

**LiveStoreProofs**: `TypeCorrect`, `NeverPanics`, `GetSeesEvent`,
`DropsAreHarmless`, `RefreshNotLost`, `SnapshotIsAtomic`, `CloseIsFinalForAll`.
The inductive invariant `IInv` strengthens the checked invariants with
`RegisteredOpen` (a channel in `p.subs` is open: what makes close and send safe),
`Reached` (no number in flight exceeds the store's), `ListedIsState` (what
`refresh` holds is exactly the state its number names, at least as new as the
snapshot: what makes `Install` a step of `LiveView`) and `HandledIsRead` (an event
at `notify` is covered by the snapshot: what `EventsNotAhead` needs, since
`LoopListFail` forgets the event). `CloseIsFinal` rests on `ShutdownInv`: `once`
passes `waiting` only after the loop has exited, and a loop never comes back.

**LiveMemProofs**: `TypeCorrect`, `NeverPanics` (both kinds of channels, with
`ChannelInv`: registered channels are open), `WakeupNotLost`, `RebuildNotMissed` and
`MemKeepsContract`. `WakeupNotLost`: a full channel is not empty, so a dropped event
finds the loop with something left to receive; receiving takes the loop to `list`;
and `List` reads everything written so far. `NoMissedRebuild` is not inductive alone:
between the write and `notifySubscribers` the event is with its writer, in the
channel or with `handleChangeEvent`, and a refresh on behalf of another event may
install the change first. `UnreadInTransit` says that a change not yet in the
snapshot has its event on the way; `HandledAfterList`, that an event is handed to
subscribers only after a `List` that includes it, so that a subscriber who received
it has rebuilt from its change. `MemKeepsContract` shows that every step of
Provider and MemStore is a step of LiveStore or none, with `StoryInv`: an event still
tells the change its write made (`states` and the audit trail grow together), however
long its broadcast was delayed.

**MemUseProofs**: `EventsAreGenuine`, `AuditTellsStory` and `PagingIsComplete`. An
event that is not broadcast yet is as genuine as one in a channel (`UnsentGenuine`);
each write appends to the chain of its key and leaves the others alone; and writers
only push records to later pages, so that a record with fewer newer ones than the
reader's offset has been read (`PagedIsSeen`). An empty page then means that every
record was: `Cardinality` of a key's newer records takes every value up to their
number, which is shown with the well-founded order of finite sets.

**LivePollProofs**: `PollTypeCorrect`, `ReplayIsComplete`, `DifferenceNotLost`,
`PollKeepsContract` and `PollInheritsSafety`. In the middle of a tick the mirror has the new text of
every key whose event was sent (`ReplayInTick`), and both lists of the poller are
states of the store (`PollReads`). A refresh that succeeds clears the error that a
later wakeup could rest on, hence `InstallLeavesEvent`. LivePoll's steps are LiveStore's
steps variable by variable, so the theorems of LiveStoreProofs carry over; that is
`PollInheritsSafety`.

**PGWatchProofs**: `TypeCorrect`, `AuditMatchesRows`, `NotificationsTellHistory`,
`HistoryGrowsOnTop`, `KeepsContract` and `ListenerIsExact`. All rest on `DbInv`: a row
lock excludes other transactions of its key (`LocksExclude`), so the value
overwritten under it is still the row's at commit (`LockedValue`) and the id taken
under it is newer than every visible record of the key (`LockedIsNewest`), although
ids are taken before the commit and other keys may overtake. `WatchInv` numbers the
commits and says that all that is on its way was notified by one; with it every
step of the transactions and of `listenLoop`, the panic on a nil connection included, is a
step of `ContractSpec`. `OrderInv` is the order of channel, held event and connection,
and that nothing committed since the LISTEN is missing while the connection listens.

**CatalogProofs**: `CatalogIsCompleteHolds` and `FieldIsFoundByKeyHolds`, for every
finite struct type. The walk visits the fields in the lexicographic order of their
paths (`Before`), and the invariant `WalkInv` says where it stands: the structs around
the cursor are ones that it walks (`InWalked`), the catalog has only exposed dynamic
leaves that have been passed, none twice (`CollectedOK`), and no field that has been
passed was overlooked (`NoneMissed`). The steps that need an argument are those that
jump: skipping a secret struct passes all fields below it, none of which is exposed,
and returning from a struct passes nothing new. At the end of the walk every field
has been passed. `KeysOK` says that a key is the list of the names on the way; with
names that have one part and differ among siblings, the key of a field determines
its path (`NamesTell`: two paths differ first at a place where they are siblings).
That a prefix of the walk, or of a way through the heap, has a property is shown from
the least index where it would not (`LeastIndex`, `Upward`), which takes the place of
an induction.

**CatalogUseProofs**: `TypeCorrect`, `SnapshotSpellsOverridesHolds`,
`UnsharedIsPointInTimeHolds`, `NilSectionStaysNilHolds` and
`OnlyUnassignablePanicsHolds`, for every type, base, integer width and sequence of
overrides. The inductive invariant `UseInv` needs an account of who can see which
struct, since `navigateField` writes in place: `Owners` says that a pointer set in
base is shared by all copies, and that whatever else a copy's pointers lead to was
allocated for that copy alone. `Navigation` says that `obj` lies on the way from the
copy to the field, belongs to the copy in work or to base, and is never nil, which is
why only the type of a field can make `SetField` panic, and why a panic is always at a
descriptor that is `Unassignable`. From both: a write or an
allocation never touches an object of a snapshot or of a caller's copy (`HeldStays`),
and the way to an unshared field stays among these objects (`OwnWay`, `Frozen`),
through pointers below pointers too.
`WorkOK` holds of the copy in work: the descriptors before `at` are `Spelled`, leaves
without an override are `Plain`, and the `Sections` that were allocated for a copy, in
the copy itself or in another section of it, lie above one of its overrides. `FinishApply`
turns it into `CurrentOK`. `WayGrows` is the lemma on allocation: a way that led
somewhere leads there still, one that met nil leads nowhere or to the new, zero
section. `ParsedFits` is the arithmetic of `Convert`.

**ProviderStatsProofs**: `TornStatsAgree` and `GetFollowsStats`. `refresh` stores
snapshot, count and time in this order and `Stats` loads in the opposite one
(`RefreshOrder`, `ReadOrder`).

Model-checked only: liveness and everything that needs fairness
(`CloseTerminates`, `CancelledChannelCloses`, `SnapshotConverges`,
`EventsKeepCurrent`, `PollLoopExits`, `WatchClosesAfterCancel`), which are out of the
prover's reach. All invariants and action properties of the passing runs, and all
refinements, are proved. The termination of `walkStruct` is not stated.

## 5. Plan

1. ConfigData, Provider, StoreContract, LiveStore, LiveView: done, proved.
2. MemStore, MemUse, LiveMem: done, proved.
3. PollingWatcher, LivePoll, ProviderStats: done, proved.
4. Catalog, CatalogUse: done, proved.
5. PGStore, PGListener, PGWatch: done, proved.

## 6. Not modelled

* Option defaults (`options.go`, `New`) and error sentinels (`errors.go`), which have
  no behaviour of their own: a bad value is replaced by the default, which is where
  `SubBuf` at least 1 comes from.
* Logging, times, `ChangedBy`, descriptions and type names; the error that `Close`
  returns. The deadline of a single `List` is not told apart from its failure.
* The length of the backoff of `listenLoop`; that the DDL can be run again; how
  identifiers are validated; payloads that are not JSON, which only other users of
  the channel could send.
* A struct type that contains a pointer to itself, for which `walkStruct` does not
  return, and a base in which two pointer fields lead to the same struct.
* The two notations of string slices, which strings `strconv` and
  `time.ParseDuration` accept, and how a float64 is rounded to a float32.
* A type parameter that is no struct (`ErrNotStruct`).
* Direct SQL inserts into the tables (`README.md:162-173`).

Differences between documents and code that are plain from the code:

* `provider.go:234-235`: a subscriber channel is closed "when the Provider is closed";
  one subscribed after `Close` is closed by its own context only.
* `provider.go:271-273`: a future `SubscribeWithBarrier` "could guarantee that the
  snapshot visible via Get already reflects the event being delivered". `Subscribe`
  guarantees it already: it is `EventsNotAhead`.
* `store.go:176-177`: the watch channel is closed when "Close is called";
  `MemStore.Close` and `PGStore.Close` are no-ops.
* `docs/ANNOTATIONS.md:165`: `New` fails for unsupported types, which "avoids surprises
  at the first store update"; a pointer to a leaf and a slice of a named string type
  pass the catalog, and `field.Set` panics on them (what `OnlyUnassignablePanics` allows).
* An integer that fits 64 bits and not its field wraps without an error, and a float64
  too large for a float32 field becomes infinite.
* A section that is nil in base and lies below a pointer that base has set stays
  allocated in all later snapshots once it had an override: `navigateField` allocates
  it in the struct they share. `NilSectionStaysNil` leaves these sections out.
* Two fields may have the same key (equal tags, or a tag with a dot): both take the
  override, and `descByKey` keeps the strategy of the last. `FieldIsFoundByKey` is about
  names that differ among siblings and have no dots.
* `WithMaxBackoff` below two seconds does not shorten the first wait.
