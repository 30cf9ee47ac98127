# dynamic-config for Node: a TLA+ model, its checks and its proofs

`dynamic-config-node` is the Node binding of a Rust configuration engine. A
compiled half (`dynamic-config-node/src/*.rs`, `dynamic-config-node-remote/src/*.rs`)
runs loads on libuv's pool, on watcher threads and on the event loop; a
JavaScript half (`*/js/index.js`) keeps the document a program reads, its streams
and its groups. The engine itself (the crate `dynamic_config`), napi and the
store clients are not in the repository.

What is hard here is hardly ever one function. It is the order in which workers,
the file watcher, queued callbacks and awaited promises get at the same few
variables. That is what the modules model: control in full, documents reduced to
what tells them apart.

Contents: [the system](#the-system), [the modules](#the-modules),
[the runs](#the-runs), [the proofs](#the-proofs),
[where code and words disagree](#where-code-and-words-disagree),
[what is left](#what-is-left).

## The system

| part | state it keeps | operations | where |
| --- | --- | --- | --- |
| publication | `staged`, `next_sequence`, `last_committed`, `cache`, `generation`, `hooks`, `prepared` | init, reload, load, prepare, commit, discard, replace, on_reload, remove_hook, a watcher's reload | `config.rs` |
| declaring phase and layers | `Engine::Building` or `Ready`, the runtime layers | file, env and the other sources; defaults, overrides, assignments, bindings, aliases; the first operation that needs the engine | `config.rs` |
| facade | `#cached`, `#generation`, what an onChange() hook compares with | current, tryCurrent, `#pull`, `#settle`, onChange | `js/index.js` |
| streams | pending document, refusal flag, failure count | changes, events | `js/index.js` |
| reports | none | changedPaths, at | `js/index.js` |
| async hook | `running`, `queued`, `controller` | onReloadAsync | `js/index.js` |
| group | the members, in order | init, reload, reloadAtomic, watch, running | `js/index.js` |
| overrides | `#overrides` and the engine's override layer | overrides | `js/index.js` |
| JavaScript stores | `#awaited`, `handed`, `latest`, `JsSource` | setRemote, setRemoteAsync, refreshRemote, clearRemote, useStore | both `js/index.js`, `remote.rs` |
| file watcher | one slot for a handle | watch, stopWatching, running, signals | `js/index.js`, `config.rs` |
| calls on the loop | a queued call and a channel for its answer | validate, fetch, mint | `validate.rs`, `remote.rs`, `watching.rs` |
| store watch | a thread, `keep_going`, a join handle | watch, stop | `watching.rs`, `stores.rs` |
| stores | options, a rotating credential | the eight constructors, fetch, watch | `stores.rs`, `task.rs`, `tls.rs` |
| log bridge | `LOGGER`, the engine's sink and level | setLogger | `logbridge.rs`, `js/index.js` |

How they meet. A load validates through a *call on the loop*, stages the answer,
lets the engine install the tree and publishes it twice over, from the engine's
hook and explicitly (*publication*). Publishing queues a call for each hook;
hook 1 feeds the *facade*, others feed *streams* and *async hooks*. A *group*
drives `prepare` and `commit` of its members, a *file watcher* reloads on a
thread of its own, *overrides* and *stores* change a layer and reload.

What makes each part correct:

- publication: what is published was accepted by the validator, is never a
  candidate's, never goes back, is what the engine serves, once for each reload;
  reloads that overlap never lose the newest document;
- facade: current() is the published document once the hook calls have run, and they
  come to run; a listener compares with the value in force;
- streams: the calls of the hook in their order, none twice, the last one always,
  refusals told once;
- async hook: one call at a time where promised, the newest document started;
- group: a refused atomic reload changes nothing; members are never mixed;
- overrides: pins are gone when the block is;
- JavaScript stores: a document is handed over once, and is its own store's;
- stores: no request is anonymous that was meant not to be, none carries a credential
  older than its call;
- reports: the paths reported are exactly those whose values moved;
- log bridge: no line is lost to a logger that is there;
- lifetimes: no watcher outlives its owner; every stop() resolves after the thread;
- calls on the loop: answers are not mixed up, and no thread waits for good;
- declaring: whatever source was accepted is in every document, and whatever was set
  in a layer before its load began.

`PROJECT.json` lists every hazard at its line, with the properties that watch it.

## The modules

### Publication: Install, Publication, MCInstall

A step is one lock scope or one atomic operation of one thread; all steps of all
threads interleave. The labels in `pc` follow the code:

| steps | code |
| --- | --- |
| `StartLoad`, then `Refused` or `Accepted` | `Load::compute`, `Inner::validate`, the thread-local `CANDIDATE` |
| `DrawSequence`, `Stage` | the `fetch_add` before the lock; the push and the trim under it |
| `EngineInstall`, `RefusedLate` | the engine's swap and its call of the reload hook; a load it refuses after validation |
| `TakeStaged`, `NothingStaged` | `take_staged`: the first entry with an equal tree |
| `Claim`, `Overtaken` | the `fetch_max` on `last_committed` |
| `WriteCache`, `BumpGeneration`, `QueueHooks` | the rest of `Inner::commit`, each its own step |
| `ReadInstalled` | the explicit commit that follows every reload |
| `Prepared`, `StartCommit`, `Discard`, `StartReplace` | the two-phase path of a group, and replace() |
| `OnReload`, `RemoveHook`, `Deliver` | the hooks as the event loop sees them |

A document is a record of the validation that answered it: number, tree, and the
operation it ran for. Trees are model values, because the code compares them for
equality and does nothing else with them. The engine appears as `installed` and
`loading`, the lock its reloads hold. Whether it runs reloads one at a time
(`OneAtATime`) and whether it refuses after validation (`LateRefusals`) are
constants, as the code allows for both: config.rs:135 speaks of overlapping loads,
and `Load::compute` has the error path. The overlapping run is checked with the
engine that allows more, the two violations of overlap with the one that allows
less. `Awaited` is the program that awaits each
operation before the next; a candidate load may overlap even there.

`Publication` is the contract, without threads, engine or staging area: a register
that is written, counted and announced, one document at a time, with documents that
were accepted (or handed in) and that no announced one has overtaken. Install
implements it under the mapping `Contract` (document is `cache`, announced is `log`,
the stage is read off the thread that is publishing), as the property
`ImplementsPublication` of a run and as a theorem.

### Facade, MCFacade

Extends Install with the loop's side: the constructor's hook, `#pull` in its two
native calls with other threads in between, `tryCurrent`, and `#settle`: the
answer, a pull, and the turn of the loop that setImmediate waits for. How many of the
calls that wait run in that turn is decided by libuv and Node-API, so `Turn` may come
at any time after the pull, and what init() and reload() promise of it ("Waits for the
hooks this install queued") is not claimed: see FacadeTurn below. And
one `onChange()` listener: the value it takes (a pull, if the generation moved), the
hook it registers, and `last`, what that hook compares with. `Midway` says whether
onChange() is called at any time or only with nothing under way (`MayListen`).

### Group, MCGroup

Every member has the native state of Install, with one publication at a time:
what the group can get wrong is between members, and a step is a validation or
an install. Calls of init(), reload() and reloadAtomic() overlap with one another and
with watchers, unless the program awaits each of them (`Awaited`); the commits of one call run without a break (`LoopIsFree`). The tokens of
a refused call stay, since `prepared` is filled only after `Promise.all`.
`before` is a history variable: what a member showed when a call was made, brought
up to date whenever anybody else changes it.

### Parts of the JavaScript halves: MCProgram

Six modules that share no variable:

- `Streams`: the two generators, chosen in `Init`. A reload moves the status, then
  queues a call of the hook, then the loop delivers it, then the generator wakes: four
  steps, with further reloads in between. Reloads that overlap queue their calls in any
  order, one that was overtaken queues none, and replace() queues its own between any
  two (`QueueReload`, `Overtaken`, `Replaces`), so the stream sees calls, numbered in
  their order, and `handed` remembers which document each brought. The failures are
  read and the two hooks registered in three steps (`Start`, `HookReloads`,
  `HookFailures`), with the threads in between.
- `AsyncHook`: `onReloadAsync`, its policy chosen in `Init`. A rejection goes to
  `onError`, which may throw (`ReportThrows`): what start() has left to do is then not done.
- `Remote`: refreshes through the slots a document passes: fetched on the loop, asked
  for on a worker, handed over on the loop, and written into the layer or dropped
  (`Dropped`: the wait was over, or the answer was no document).
- `Watcher`: lifetimes that start and stop watchers in the one slot of a configuration.
  A signal is over when it aborts, a block when its body ends or when the block threw
  because a member's watch() did (`Ended`).
- `Overrides`: blocks, what they pin, what they found, the two reloads of each.
- `Documents`: `changedPaths` and `at` on all documents of two levels, both as recursive
  functions on the documents. A path is the
  sequence of its segments, a key with a dot in it one of two. Documents whose top
  level is no table are left out (`changedPaths` reports nothing for them: its
  filter drops the empty path); an array is a value, which is how `walk` treats it.
  `Reported` is what events() makes of it: nothing, for a first document.

### Parts of the native halves: MCNative

Five more:

- `LoopCall`: a call queued for the loop, its channel, the wait of 30 seconds, a
  loop that goes away; one module for the three places that do this.
- `StoreWatch`: the thread of a store's watch, its flag, its deliveries, stop().
- `Sources`: Building and Ready, the runtime layers, the operations that build the
  engine on first use and the diagnostics that do not. A cache of a mode that is none
  (`Misspelt`) is refused in either phase.
- `LogBridge`: the engine's sink and `LOGGER`, which setLogger() changes in two
  halves, and threads of the engine on their way with a line. Nothing is assumed of how
  the engine reads its sink, so a line may be inside the sink when the logger goes away;
  `crossed` names the threads whose line is, and `EveryLineIsHeard` excuses no other line.
- `Stores`: the eight classes as records (what each takes, how its fetch leaves the
  loop, whether it watches), the refusals of their constructors, and the identity
  each request carries while the credential behind `tokenFn` rotates.

Both MC modules start a behaviour in one of their parts; the others stay as they
began. This costs the sum of the state spaces where a conjunction would cost the
product, and loses nothing: no guard of one part reads a variable of another.

## The runs

| run | module, cfg | distinct states | what it shows |
| --- | --- | --- | --- |
| install_everything | MCInstall, InstallEverything | 1.1 M | `TypeOK`, `NoCandidatePublished`, `PublishedIsValidated`, `ImplementsPublication` over every operation, with late refusals and a staging area that overflows |
| install_reloads | MCInstall, InstallReloads | 137 k | `PublishedIsInstalled`, `OnePublicationEach`, `ReloadIsPublished` for a program that awaits its reloads |
| install_overlap | MCInstall, InstallOverlap | 780 k | `NothingLeftBehind`, `NewestIsAnnounced` with a watcher that overlaps, in an engine that lets loads overlap |
| facade_awaited | MCFacade, FacadeAwaited | 544 k | `DrainedIsInForce`, `ListenerIsCurrent`, `ReadsCatchUp` |
| group_refusals | MCGroup, GroupRefusals | 74 k | `RefusalLeavesEverything`, `CommitsFindTheirTokens`, `EveryCallEnds` |
| parts_native | MCNative, PartsNative | 218 k | `AnswersAreOwn`, `AllStopsWaited`, `EveryStopResolves`, `ServedWithAllAccepted`, `EveryLineIsHeard`, `NeverAnonymous`, `CarriesCurrent` |
| parts_program | MCProgram, PartsProgram | 83 k | `NeverInterleaved`, `OnlyOvertakenAreDropped`, `NewestIsStarted`, `HandedOnce`, `NoStoreAnswersForAnother`, `NoneOutlivesItsLifetime`, `PinsAreRestored`, `BodySeesItsPins`, `DocumentsInOrder`, `EventsAreTheReloads`, `NewestIsYielded`, `NoRefusalToldTwice`, `ReportIsExact` |
| overlap_cache, facade_diverges, on_change_missed, group_mixed_awaited, group_leak | | | violated: see below |

`CHECK_DEADLOCK FALSE` is in every cfg because every instance stops: a program
that has made its bounded number of calls has nothing left to do.

Bounds, and why they are enough.

- *Three threads, three or four operations.* A commit is overtaken by one other; a
  staged entry is mistaken for another when one stale entry and one fresh one are
  equal; a third operation is there to see the damage. Two trees make "equal" and
  "different" both happen, a third one is refused by the validator.
- *`MaxStaged` is 2 in the awaited runs*, 4 in the source: the trim is then reached
  with three operations where the source would need five. The proofs are for any
  bound.
- *`MaxHooks` is 1 or 2*: the constructor's hook, and one that comes and goes.
- *Two members, three calls of which two are atomic, two watcher reloads* for a group: the fewest with a
  member before and after the one that refuses, and a call that overlaps two others.
- *Three reloads*, replaced documents counted, in Streams: two whose hook calls come in
  the other order and one more, or a refusal, an install and another refusal before
  the consumer wakes. *Seven installs* in AsyncHook, which is
  small enough to let `serial` build a queue.
- *Two stores, two refreshes* in Remote: each refresh may begin under one store
  and end under the other.
- *Four calls of two threads* in LoopCall: a late answer meets the next wait of
  its own thread and a wait of the other.
- *Two emitters, three lines* in LogBridge: one line on either side of each half of
  setLogger(), and one in between. *Two fetches, a watch, one rotation* in Stores,
  for every class and every subset of its options.
- *Two keys, two values, two levels* in Documents: a table that comes, goes, changes
  inside, or becomes a value.

Fairness, and where it comes from.

- Facade: WF of `FacadeHook` and of the delivery of the program's hooks, of the steps
  of a #pull and of onChange() that have begun, of `Settle` and `Turn` (libuv runs what
  is queued), and of every begun native call (a worker goes on). Beginning an operation,
  `Subscribe`, `OnChange` and `TryCurrent` are not fair: nobody obliges a program to
  reload or to read, and no forced read covers up for a hook call that does not come.
- Group: WF of `Proceed(c)` for each call made, since its loads run on the pool and
  its continuations on the loop. `Call` and `Watch` are not fair.
- Streams: WF of the delivery of each hook, of the generator's steps, and of
  `Resume`: `NewestIsYielded` is about a consumer that keeps asking. Reloads, their
  calls of the hooks, `Start`, `Abort` and `Break` are not fair.
- AsyncHook: WF of `Settle(d) \/ ReportThrows(d)`: the program's hook resolves or
  rejects, and its onError may throw. A hook that never settles stops `latest` and
  `serial` for good, by design; an onError that throws does so too (HookStuck), so
  `NewestIsStarted` excuses it.
- StoreWatch: WF of `Started`, `Notice`, the deliveries, `Join` and `Resolve`: a
  request has a timeout of its own and the flag is polled every 100 ms. `Fail` and
  `HandOver` are not fair.
- The other parts have no liveness property and no fairness. MCNative and MCProgram state
  the fairness of StoreWatch, AsyncHook and Streams action by action, each while it is
  the part.

Every property of a passing run has a mutant in `PROJECT.json`: the module keeps a
definition with a plausible mistake next to the right one ("A mistake: ..."), and
TLC finds the property violated when the mistaken one is used.

To run one: `tlc -config InstallReloads.cfg MCInstall`.

## The proofs

Eight modules hold 39 theorems. They are of `Spec` of Install, Group, MCNative and
MCProgram and of `FacadeSpec`, for all values of the constants that satisfy the named
assumptions of the modules (bounds are numbers, null values are not proper ones, an
operation is one of the kinds there are, a group lists each member once). Further
assumptions are hypotheses of the theorems that need them, and are given here; for
each of those a cfg shows how the property fails without it.

### Install_proofs and Publication_proofs

| theorem | statement | needs |
| --- | --- | --- |
| `TypeCorrect` | `Spec => []TypeOK`, the bound on the staging area included | |
| `CandidatesStayPrivate` | `Spec => []NoCandidatePublished` | |
| `PublishedWasAccepted` | `Spec => []PublishedIsValidated` | |
| `HooksAreCalledInOrder` | `Spec => []NeverBackwards` | `Awaited` |
| `Refinement` | `Spec => ImplementsPublication` | `Awaited` |

*What is accepted.* None of the first three is inductive. That `cache` is
valid depends on `entry` of the thread that writes it, that on `staged` from which
it was taken, that on the tree the storing thread had when it drew a number. `IInv`
says it of all of them: every document anywhere is `Publishable` (`SharedInv`), and
a thread past the door holds a tree that was accepted and is no candidate's
(`AcceptedBeforeStaged` in `ThreadInv`). `Init => IInv` is `InitIInv`; `NextIInv`
goes by `LoadKeeps`, `CommitKeeps` and `LoopKeeps`, each with a step for every
action. Lemmas about `Without` and `Trim`, and about what `Finish` and `Return` do
to a thread, are stated once.

*What the hooks hear.* `HooksInv`, for the facade's proofs: what waits for a registered
hook is an end of what was announced, position by position (`IsEnd(q, l)`); `EndGrows`
and `EndShrinks` carry it over a publication and a delivery. It also says that a token
not handed out yet has an empty queue, without which a new hook could begin with
somebody else's calls.

*The order, and the refinement.* In a program that awaits its operations at most one
thread is under way that is no candidate load, so at most one is between its claim
and its hooks. From there: whatever was announced has a number no higher than the
last one claimed, and the document that is about to be announced has exactly that
number, or comes from replace(). `NeverBackwards` follows, and the refinement, by
one step for every action of Install: `WriteCache`, `BumpGeneration` and
`QueueHooks` are `Write`, `Count` and `Announce`, all others stutter. Without
`Awaited` neither holds (overlap_cache).

### Staging_proofs

| theorem | statement | needs |
| --- | --- | --- |
| `PublishedIsTheEngines` | `Spec => []PublishedIsInstalled` | `Plain` |
| `PublishesOnce` | `Spec => []OnePublicationEach` | `Plain` |
| `ReloadsArePublished` | `Spec => ReloadIsPublished` | `Plain` |
| `AwaitedLeavesNothing` | `Spec => []NothingLeftBehind` | `Plain` |
| `OverlapLeavesNothing` | `Spec => []NothingLeftBehind` | `NoPrepares`, `NoInits`, no late refusals |
| `OverlapKeepsTheNewest` | `Spec => []NewestIsAnnounced` | the same, finitely many threads, `Cardinality(Installers) <= MaxStaged` |

`Plain` is a program that awaits its operations, prepares none for a group, and whose
engine refuses nothing that the validator accepted. A load that is refused late, or a
prepared one that is never committed, leaves its entry behind, and an entry that stays
can be taken for an equal one later (StaleTwice, StaleLost); a prepared commit may
install an older tree than the one published (LateCommit); operations that are not
awaited take each other's entries (OverlapLost).

*In turn.* `Serial` describes the staging area while one operation is under way: it
holds that operation's own validation from `Stage` until one of the two commits takes
it, with a number not yet claimed, and before and after that it is empty and what is
published is what the engine installed. The first commit therefore finds its entry and
the second finds none, so an operation publishes once, and all of it before it ends.

*Overlapping.* A commit takes the first entry with an equal tree, which need not be the
one its load staged; so "my entry is still there" is not inductive, and the invariant
is about all of them together. `EveryoneIsTaken` says that there is an injection from
the staged entries to the threads that are still to run the reload hook, each with
the tree of its entry. Staging adds a pair; taking removes one and hands the taken
entry's own thread, if it is another, the one the taker was to have, which has an equal
tree; a trim removes pairs only. With all threads idle there is nobody to map to, so
nothing is staged. The engine may pass the reload hook by in an init(), which then takes
what equals the tree installed by that time, perhaps another load's; hence `NoInits`.

*The newest.* The validation drawn last is in the hands of a thread, staged, or announced,
and as long as it is not claimed nothing of its number has been (`Newest`). A commit that
takes it finds every other number lower and publishes it, whichever load it belongs to.
The one way to lose it is the trim; but by `EveryoneIsTaken` each staged entry has a
thread of its own past `Stage`, so if there are no more installing threads than places
(`Installers`, `MaxStaged`) one that is about to stage finds room (`ThereIsRoom`). The
source has four places, and libuv's pool four workers by default; with the watcher that
makes five installing threads, one too many if the engine runs them all at once.
CrowdTrims.cfg (three threads, two places) shows the newest document trimmed and lost.

### Facade_proofs

| theorem | statement | needs |
| --- | --- | --- |
| `FacadeImplementsInstall` | `FacadeSpec => Spec` | |
| `FacadeTypeCorrect` | `FacadeSpec => []FacadeTypeOK` | |
| `DrainedReadsAreInForce` | `FacadeSpec => []DrainedIsInForce` | `Awaited` |
| `ListenersAreCurrent` | `FacadeSpec => []ListenerIsCurrent` | `Awaited`, not `Midway` |

By the first one, what is proved of Install holds under the facade. For the rest,
`LogIsCache` says that a document whose hooks are queued is the one in force unless
one is half published (`Announced`), and `ReadInv` that the facade has it unless a call
of hook 1 waits, a document is half published, or a pull is between its two native
calls. The proof needs the order of hook 1's queue (`IsEnd`, from Install_proofs) for
the last waiting call to be the newest document, and "one operation at a time" (from
Publication_proofs) for no second document to be written while one is announced: without
it the calls are queued in another order than the writes (facade_diverges). `ListenInv`
says that a listener whose queue is empty compares with the document in force. A listener
registered midway misses a document (on_change_missed).

### Group_proofs

| theorem | statement | needs |
| --- | --- | --- |
| `GroupTypeCorrect` | `Spec => []TypeOK` | |
| `TokensAreFound` | `Spec => []CommitsFindTheirTokens` | |
| `RefusalsLeaveEverything` | `Spec => RefusalLeavesEverything` | |
| `AcceptedCallsNeverMix` | `Spec => []NeverMixed` | `Undisturbed` |

A call owns its tokens (`HoldsTokens`): one is there from the answer of `prepare` until
the call itself commits, so the commits of the members that are left find theirs
however many calls and watchers interleave. `ShowsNothing` carries what a member
showed when the call was made, up to date with everybody else's installs, through its
preparing phase: a validation stages an entry and draws a number, and neither is shown.
The numbers are needed for the types alone (`Numbered`: nothing is claimed that was not
drawn).

`AcceptedCallsNeverMix` is the promise of the group, that no two members serve different
deployments, and the conditions under which the code keeps it. `Undisturbed` is a
program that awaits each call and makes atomic ones only, with members that refuse none
and are not watched. `OneByOne` is the invariant: at most one call is under way, between
calls nothing is staged anywhere, and during a call each member's staging area holds
exactly the call's own validation, under a number not overtaken, from the answer of
`prepare` until its commit (`Fresh`), so that each commit publishes. Watchers and plain
reloads install in one member alone, by what they are. The other two conditions are
needed as well: group_mixed_awaited drops the one about refusals, GroupMixedOverlap.cfg
the one about awaiting.

### Native_proofs

| theorem | statement | needs |
| --- | --- | --- |
| `TypesHold` | `Spec => []NativeTypeOK` | |
| `AnswersStayOwn` | `Spec => []AnswersAreOwn` | |
| `StopsAreJoined` | `Spec => []AllStopsWaited` | |
| `LoadsFindWhatWasDeclared` | `Spec => []ServedWithAllAccepted` | |
| `NoLineIsDropped` | `Spec => EveryLineIsHeard` | |
| `RequestsAreAuthenticated` | `Spec => []NeverAnonymous` | |
| `FetchesAreCurrent` | `Spec => []CarriesCurrent` | |

Each part has an invariant of its own and leaves the variables of the others alone.
LoopCall: what is in a channel was sent for its own call. StoreWatch: as long as
nobody has taken the join handle no stop() has begun, and whoever holds it has not
resolved before the thread ended. Sources: while the engine does not exist the
builder is what was accepted, afterwards nothing is added; a load's `had` is in the
layers. LogBridge: `SinkHasLogger`: setLogger() fills `LOGGER` before the engine has the
sink and empties it after the engine has none, so a thread inside the sink finds it
full unless `Take` came by meanwhile. Stores: a store that was built has whole pairs.

### Program_proofs

| theorem | statement | needs |
| --- | --- | --- |
| `TypesHold` | `Spec => []ProgramTypeOK` | blocks nest (`Concurrent = FALSE`) |
| `CallsDoNotOverlap` | `Spec => []NeverInterleaved` | |
| `OnlyLatestDrops` | `Spec => []OnlyOvertakenAreDropped` | |
| `DocumentsAreHandedOnce` | `Spec => []HandedOnce` | |
| `DocumentsKeepTheirStore` | `Spec => NoStoreAnswersForAnother` | |
| `WatchersEndWithTheirLifetime` | `Spec => []NoneOutlivesItsLifetime` | only the first member of a block can refuse (`FirstsFail`) |
| `PinsComeBack` | `Spec => []PinsAreRestored` | blocks nest |
| `BodiesSeeTheirPins` | `Spec => []BodySeesItsPins` | blocks nest |
| `StreamsAreInOrder` | `Spec => []DocumentsInOrder` | |
| `RefusalsAreNews` | `Spec => NoRefusalToldTwice` | |
| `StreamsTellEverything` | `Spec => []EventsAreTheReloads` | |
| `ReportsSayWhatMoved` | `Spec => []ReportIsExact` | no key has a dot (`Dotted = FALSE`) |

- *AsyncHook.* The flag is up exactly while a call is under way (unless the policy is
  `every`), what was started and what waits are all installs in a row, and under
  `latest` at most the newest waits.
- *Remote.* An async document is in one place at a time: in its store's slot, in the
  hands of one refresh, or among the fills; a refresh that has not fetched has left
  no document anywhere.
- *Watcher.* A slot that names a signal's lifetime is one its listener will empty, and one
  that names a block's is that of a block whose body runs. For the latter a block must not
  fail after it has watched some of its members: `FirstsFail`, which holds of every block
  of one configuration. For a group's it does not (WatchThrows).
- *Overrides.* The blocks under way are a stack without repetitions; what a block
  found is what the one below it pinned on top of what that one found; the layer is
  what the innermost found with its own pins, or what it found once it is leaving.
- *Streams.* What was yielded, the document behind a refusal, the pending one and the
  calls that wait are one line of calls in ascending order (`InLine`), whatever documents
  they carry; and a count of failures above the stream's own means a refusal after the
  last one told (`Counted`).

- *Documents.* See the next section.

`InTurn` is what `EventsAreTheReloads` needs beyond that: until the consumer leaves
(`Leaving`), a stream that is awake before the next reload has yielded all that happened
(`AllTold`), or all but the last reload (`LastUntold`), which has then moved the status
or published its document, or waits in the hook's queue, or has woken the generator.

### Documents_proofs

`ReportsAreExact`: for any keys without dots, any values and any two documents, what
events() reports and what `at` reads agree (`ReportIsExact`): of a first document it
reports nothing, which leaves the first two parts of the property nothing to say; over
another document all three are proved of `changedPaths`. Program_proofs
instantiates the module and lifts this to every state of MCProgram.

`Walk` is a recursive function, and nothing is known of one until it is shown that some
function satisfies its equation. There is no induction to be had, and none is needed:
on documents of two levels the equation is solved by unfolding it twice, as the walk
looks only under keys of a table (`TurnsLocal`, `WalkUnfolds`). From there the walk is
computed on values, on tables of values and on whole documents: its answer is `Moved`,
the keys under which the documents differ where not both have a table, and the paths of
two where both have. `at` is unfolded in the same way for paths of up to three
(`Reading`). The three parts of `ReportIsExact` are then statements about `Moved`.
With a dot in a key they are false (DottedKeys).

### Only model-checked

Every invariant and every action property of a passing run is stated by a theorem. The
liveness properties are not, being beyond the prover: `ReadsCatchUp`, `EveryCallEnds`,
`EveryStopResolves`, `NewestIsStarted`, `NewestIsYielded`. Documents of more than two
levels would need induction over data, which the prover has not either.

## Where code and words disagree

Five runs show that the code does other than it says. They are in `PROJECT.json`
under `findings`.

1. **overlap_cache** (`config.rs:215`). The claim and the write of the cache are two
   steps. A thread that claimed first may write last: the older document stays
   published while the engine serves the newer one. config.rs:81 calls the cache
   "The published document".
2. **facade_diverges** (`js/index.js:217`). The hook stores the document it was called
   with beside the generation of the moment it runs. A replace() between a
   watcher's bump and its hooks queues the calls in the other order, and the facade
   stays on the wrong document: "The hook keeps `#cached` current" (474).
3. **on_change_missed** (`js/index.js:921`). onChange() notes a value (921) and then
   registers its hook (923). A commit on another thread that bumps the generation and
   queues its hook calls in between changes no value already noted and calls no hook not
   yet registered: the listener compares the next document with the one before. Called
   between two hook calls that wait, it notes the older of two documents, with the same
   effect. "Called when the value at `path` changes, and not otherwise" (915).
4. **group_mixed_awaited** (`config.rs:176`). A program that awaits every
   reloadAtomic(), in a group of two. Twice a deployment *a* is refused by one member
   after the other has prepared it, which leaves two validations staged there (discard()
   drops the commit, never the staged entry). A deployment *b* is accepted. When *a* is
   accepted at last, the member's two attempts to publish take the two stale entries,
   find both overtaken, and publish nothing; the other member publishes *a*, and the
   call resolves: "The mixed state this exists to prevent" (js/index.js:1214).
5. **group_leak** (`js/index.js:1243`). `prepared` is filled once Promise.all has
   resolved, so the loop that discards after a refusal runs over an empty list, and
   the commits of the members that prepared stay for good. config.rs:822 of discard():
   "What a group does to every member's commit when one member refuses".

The others below are narrower, and each has a cfg of its own to run by hand. Every
one of them ends in a violation of the property named.

| cfg, module | property | what happens, and the words it is at odds with |
| --- | --- | --- |
| StaleTwice, MCInstall | `OnePublicationEach` | A reload claims a stale staged entry that is equal to its own; its own is claimed by the explicit commit: two generations. config.rs:189: "keeps one reload to one generation and one round of hooks". |
| StaleLost, MCInstall | `ReloadIsPublished` | A stale entry has a number already overtaken, and the reload that claims it publishes nothing. book/src/reference.md:58 of `await reload()`: "the new document". |
| LateCommit, MCInstall | `PublishedIsInstalled` | A prepared commit that runs after a newer reload swaps the engine's document and publishes nothing. config.rs:786: "install what `prepare` validated". |
| OverlapLost, MCInstall | `ReloadIsPublished` | If the engine lets loads overlap, a reload's entry is taken by another that has not published yet when the first comes back. js/index.js:430. |
| GroupMixedOverlap, MCGroup | `NeverMixed` | Two overlapping reloadAtomic() calls may validate in different orders in two members; a commit is dropped in one and published in the other. js/index.js:1214. |
| StreamsOrder, Streams | `RefusalComesFirst` | An install that follows a refusal resets the count before the stream wakes; only `reloaded` is yielded. js/index.js:614: "arrives as both events, refusal first". |
| FacadeStale, MCFacade | `ReadsAreInForce` | After a #pull has noted the newest generation, a hook call that was queued before brings back its older document under it, until the next call runs. js/index.js:474. To be seen, something of the program has to run between two queued calls of one hook, which libuv allows and a busy queue makes happen. |
| FacadeTurn, MCFacade | `HookHasSeenIt` | The turn that reload() waits for comes before the hook has run for what it published, if the loop runs fewer queued calls per turn than wait. js/index.js:426: "Waits for the hooks this install queued". Whether it happens is up to libuv and Node-API. |
| CrowdTrims, MCInstall | `NewestIsAnnounced` | More threads install at once than the staging area has places; the newest validation is trimmed. config.rs:165: "Four is two overlapping loads' worth". |
| HookStuck, AsyncHook | `NewestIsKept` | An onError that throws leaves the running flag up: the document that waits is never started, nor any later one. js/index.js:846: "keeps the newest and drops what it overtook". |
| WatchThrows, MCProgram | `NoneOutlivesItsLifetime` | A group's running() calls watch() before its `try` (1303); when a later member's throws, the earlier ones are left watching. js/index.js:723: "cannot be left running by an exception on the way out". |
| StreamsBehind, Streams | `LastIsInForce` | Hook calls queued in another order than the documents: the last one told is not the one in force. js/index.js:534: "A consumer that falls behind is handed the document in force". |
| RemoteLost, Remote | `FetchedIsHandedOver` | Two overlapping refreshes share one slot, and the second finds nothing although its fetch resolved. js/index.js:973: "hands the engine the document it already has". |
| StoreTwice, StoreWatch | `StopWaits` | A second stop() finds no join handle and resolves at once. remote/README.md:112: "idempotent, and it waits for the loop to notice". |
| StoresStale, Stores | `WatchCarriesCurrent` | A watch mints its credential when it starts and goes on asking with it. watching.rs:14: "called on the event loop before each fetch"; of a watch nothing is said. |
| LogLost, LogBridge | `NoLineIsLost` | A line that is inside the sink when setLogger() takes the logger away finds `LOGGER` empty, unless the engine holds its sink while it calls it. logbridge.rs:57: "a logger that drops lines silently is the failure mode this bridge exists to end". |
| DottedKeys, MCProgram | `ReportIsExact` | A key with a dot in it and a table with the same path are told apart by nobody: `at` finds neither value moved where the report says it did. js/index.js:108: "Which dotted paths differ". |
| SourcesUnloaded, Sources | `RefusedOnceLoaded` | A refresh or a load that failed closes the declaring phase with nothing loaded. config.rs:335: "this configuration has already loaded". |

Read in the model and not made a run:

- js/index.js:1090: overrides() makes its pins before the `try`; if the layer refuses
  the second, the first stays (`EnterRefused`). And blocks that overlap without
  nesting restore each other's pins (`Concurrent`, which is FALSE in the run).
- js/index.js:1112 says of a reload that fails on the way out "The configuration is
  back where it was either way"; the layer is, the document is not (`LeftUnread`).
- js/index.js:776: an abort calls stopWatching(), which also ends a watcher that was
  started since under another signal (`Abort`).
- watching.rs:264 says a joined thread cannot deliver after stop() has returned; a
  delivery it queued before still can (`OnChange` after `Resolve`).

## What is left

Not modelled: the scrubbing of secrets from messages (`Door.without_secrets`), the
shapes of outcomes and errors, the schema adapters, packaging. Each is text or somebody
else's library, without a state that the other parts read. Partly modelled: the
failure hooks as far as events() uses them; snapshot(), fingerprint() and
remoteStatus() as far as they build no engine; the file watcher without its debounce
and its thread. The rest of these is metadata and scheduling of the engine, which is
not in the repository.

What could follow, in order:

1. *A group over real publications*: Group's member replaced by Install's steps, to
   see overlap_cache and group_mixed_awaited meet; and Group shown to implement an
   abstract group whose atomic reload is one step, from the invariant `OneByOne`.
2. *Streams over real publications*: the order of hook calls, free in Streams, taken from
   Install's queues.
3. *Weaker hypotheses for the staging theorems*: `PublishedIsInstalled` also holds of a
   program that prepares, as long as each commit comes before the next reload.
4. *Order of hook calls under overlap*: what remains true of `NeverBackwards` per thread.
