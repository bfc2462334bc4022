# A TLA+ model of PodSteer's concurrent core

PodSteer is a desktop client for Kubernetes: a Go backend (`app/`) behind a
Svelte window (`web/`). The window opens one tab per cluster; the backend holds,
per open cluster, a client, a set of watched stores, a read cache and the local
port-forwards, and has to give all of them back when the tab is closed, when the
program ends, and while other calls are still under way. Those parts are the
ones that unit tests reach least, and they are what is modelled here. Paths are
relative to `src/`.

Contents: [the system](#the-system) · [the modules](#the-modules) ·
[the runs](#the-runs) · [the proofs](#the-proofs) ·
[disagreements](#where-the-code-and-its-comments-part) ·
[not modelled](#what-is-not-modelled) · [plan](#plan)

To check: `tlc -config <run>.cfg <module>` with the pairs of the table of runs,
and `tlapm <Module>Proofs.tla`.

## The system

Calls go down: window API (`app/adapters/wails`) → services (`app/application`)
→ ports (`app/ports`) → adapters (`app/adapters/k8s` and its siblings). State is
kept in the services and adapters below; every map is keyed by the cluster.

| component | state it keeps | operations | what is hard | correct when |
| --- | --- | --- | --- | --- |
| Port forwards, `k8s/portforward.go` | registry `byID`; per forward a supervisor goroutine, its attempt, the row shown, `stop` and `retry` channels | start, reconnect now, stop one, stop all, sweep a cluster; drop, search, redial, adopt | a dial cannot be cancelled; three kinds of stop race the supervisor, a nudge and a panic; a lost forward waits for ever | a stopped forward holds no port; one owner per supervisor; the row says what the supervisor does; stops return |
| Watched stores, `k8s/watch.go` | registry of sets, a state word and version per kind, `lastRead`, `closed` | first read starts a set, reflector events, stall, promote, condemn, sweep of the idle, forget, stopAll | reflector and supervisor write one word without a lock; sets are ended outside the lock | a store that answers is synced and its set is not cancelled; a refusal is final; a running set has one owner |
| Read cache, `k8s/readcache.go` | per key an entry in flight or finished | read, join, borrow, detach, finish, forget | a fetch outlives the caller it started for; a write forgets while fetches are under way | no read is answered from before a forget that precedes it; identical reads share |
| Connection, `application/cluster.go`, `registry.go` | open clusters, tab order, read-only marks; the custom-kind catalogue | Connect, Disconnect, RefreshCredentials, listings | Connect and Disconnect of one cluster overlap, each in several critical sections | closing a tab releases what was built for it |
| Forward keeper, `application/forwardkeeper.go` | one restore run per cluster, failures; the definitions are in the settings | restore on connect, Resume, Keep, Forget, stop, Close | a restore runs across a disconnect or a shutdown | nothing it starts outlives the tab |
| Client factory, `k8s/client.go`, `credentials.go`, `adapter.go` | client per cluster, generation, fingerprint of the credentials | build under the lock, invalidate, release | the order in which release forgets its caches | nothing built from a client that was released is kept |
| Query transports, `k8s/promforward.go`, `promquery.go`, `application/metricsquery.go` | refusals and routes keyed by generation; forwards of a query batch | query, refuse, open, end of batch | a batch ends while it opens a forward | every internal forward is stopped |
| Overview cache, `application/overview.go` | assessment per cluster, the one in flight | OverviewWithin, Invalidate | an assessment in flight over a disconnect | an assessment is of this connection |
| History, `application/history.go`, `history/store.go` | retention, cadence, one file of samples per cluster | sample, prune, SetRetention, Series | crash in an append or a rewrite; retention reduced while sampling | files stay readable, nothing is kept past the retention |
| Settings, `settings/store.go` | the document in memory and on disk | Load, Update, adopt, sideline | crash or failure between writing and swapping | memory says what the disk says |
| Kubeconfig watcher, `application/kubeconfigwatch.go` | the last fingerprint | tick, publish, refresh credentials | a change between the look and the refresh | no change is missed |
| Topology feed, `application/topology.go` | pending changes and timers per cluster, demanded scopes | change, flush, Close | a timer firing while it is closed | announcements are neither lost nor made after Close |
| Shells and terminals, `k8s/nodeshell.go`, `clustershell.go`, `wails/terminal.go`, `localshell` | registries of sessions, pods created for them | start, resize, write, close, stop all | a start racing the shutdown leaves a privileged pod | every pod created is deleted |
| File copies, `application/filecopy.go`, `k8s/filecopy.go`, `archive` | two goroutines and a pipe | copy, cancel | one half fails first | no half waits for the other for ever |
| Writes, `application/management.go`, `bulk.go`, `k8s/drain.go` | none beyond the call; the read-only guard | write, bulk, drain | bounded pools, cancellation midway | every object has one result |
| Reads over all clusters, `application/fleet.go`, `traffic.go` | bounded pools, short caches | list, count | one cluster hangs | the others answer |
| Domain, `app/domain` | none | plans, assessments, parsers | | tables in the tests |
| Agent server, update check, vendor CLIs | none between calls | one request each | | |
| Frontend, `web/src/stores` | session, workspace, forwards, terminals | requests, events | answers that arrive after another tab was chosen | an answer is shown where it was asked |

How they interact: Disconnect closes the registry entry, forgets the catalogue,
asks the keeper to cancel its restore and waits for it, and then invalidates the
adapter, which sweeps the forwards, ends the watched set, forgets the caches and
drops the client. A write forgets the read cache. A supervisor looking for a
replacement pod lists pods like any other reader. OnShutdown closes the keeper,
then sweeps all forwards, shells and watches.

## The modules

| module | models | depends on |
| --- | --- | --- |
| `Custody` | what a registry of goroutines promises: whoever ends one took it out first, asks it once and lets go of it when it ended | |
| `PortForwards` | `k8s/portforward.go`: registry, dial, supervisor, stops | implements Custody |
| `MCPortForwards` | its instances for TLC | EXTENDS PortForwards |
| `KindWatch` | one watched kind: state word, reflector, promoting supervisor | |
| `WatchSets` | the watch manager: which cluster has a set, who ends it | implements Custody; a set's inside is KindWatch |
| `FreshReads` | what a cache promises: an answer no older than the last forget before the read, given up for its own caller only | |
| `ReadCache` | `k8s/readcache.go`: join, borrow, lead, detach, forget | implements FreshReads |
| `Tab` | what a tab promises about restored forwards: none is started but for an open tab or before a sweep to come | |
| `Connection` | Connect, Disconnect, the keeper's restores and calls, the shutdown | implements Tab; a start and a sweep are abstracted from PortForwards |
| `Settings` | `settings/store.go`: a document in memory and on disk over faults and crashes | |
| `History` | `application/history.go`, `history/store.go`: the sampler, the calls that change its policy, the samples on disk | EXTENDS Settings |
| `Clients` | `k8s/client.go`, `credentials.go`, `adapter.go`'s release, the slow caches, `kubeconfigwatch.go` | a watched set is abstracted from WatchSets |
| `Shells` | `k8s/nodeshell.go`, `clustershell.go`, `localshell`, the sessions of `wails/terminal.go` that own a shell | |
| `*Proofs` | the theorems of the module named before | EXTENDS it and TLAPS |

**PortForwards.** One `Forwards` element per `startForward` call. `pc` is where
its caller and then its supervisor is: `run` watches, `drop` saw the attempt end,
`backoff`, `find`, `dial`, `adopt` are the reconnect window, `lost` the slow
search, `stopping` and the `unwind` states the deferred clean-up. `cur` and
`next` are attempts: `ForwardPorts` on its goroutine, which may bind its port
after the dial gave up. `byID`, `stopClosed`, `retry` are the registry and the two
channels; `call` is what a stopper took and waits for. A panic of the supervisor
is an action. Wall-clock time is left out; a window is `WindowTries` searches. A
dial that timed out closes its attempt and waits for it (`teardown`); an attempt
that is still connecting (`aborting`) may stay so for ever, since nothing bounds the
request `ForwardPorts` opens with (`portforward.go:784`, `827-834`): `Hung`.

**KindWatch.** `state` is the atomic word, `version` the reflector's resource
version as a count. `stall` is two steps (record, flip) on the reflector's
goroutine, and `supervise` reads the record, the version and swaps in three, so
each may be overtaken. What the cluster answers is free.

**WatchSets.** `registry` is `m.sets`; a set is `starting`, `running`, `done`.
`taken` is what a forget, a stopAll or the sweeper took out under the lock and
has not waited for. Reads touch and create sets until `closed`.

**ReadCache.** A value is the epoch its fetch began in, an epoch being the time
between two forgets. `cache` maps a key to an entry in flight or finished;
`pc` is a reader looking, borrowing, leading or waiting. `Forget` drops entries in
flight too, while their readers hold them in `on`. `FreshReads` has the same
interface (`epoch`, `since`, `outcome`, `got`, `cancelled`) and no cache.

**Connection.** One cluster. `pc` is a call's or a restore run's next critical
section, so that any two Connects, Disconnects, Resumes, stops, keeps and
restores overlap in every way. `restoring` is the keeper's entry, `cancelled` the
runs whose context was cancelled, `on` the run a disconnect waits for; `live`
says which worker's start holds a port. `exit` is OnShutdown's progress through
the keeper's Close and StopAllPortForwards. `ReconnectClusters` is the
invalidation of open clusters after a change of transport settings. A restore may
panic at any step (`Panic`): its deferred functions drop its entry and close its
`done`, and what it had not tried stays untried. A start's dial may never return.
Only a restore's context is ever cancelled; a call's is the application's, which
is not (`history.go:27`, `nodeshell.go:89`).

**Settings, History.** A document is the recording policy it holds (`Values`, one
retention on, one off), `onDisk` the settings file and the older file an upgrade
adopts, `store` what `Open` made of them. Each file operation is a step, may fail
(once per launch, `Fault`) and may be the last (`Crash`). History's sampler is at
`At`: pruning, beginning a pass, waiting for the turn of this cluster, assessing,
appending. A pass looks once whether anything is recorded; the other open clusters
are the time until the turn comes. `retention` and `interval` are HistoryService's
own, which the sampler acts on: a call of the window changes its half and copies
both under the service's lock, then saves the copy, prunes or signals. `crossed`
remembers that the last change came while another was being saved. A sample is
whole, torn, or joined to a torn one. `Edit` is an operator's edit of the file
between launches.

**Clients.** One cluster. An asker's `pc` is where it is in `clientsFor` and after
it; `over` says whether the client it answers with has been discarded meanwhile.
A behaviour follows one kind of cache (`followed`) or the set of watched stores,
since they share no state but the client and the generation: *plain* writes what
it read, *numbered* carries the generation its read began in, *swept* keeps only
the sweep that is still the cluster's. `stage` is a releaser's next step of
`Adapter.release`; its forgets are one step, because a behaviour sees one of them.
The Helm listing is forgotten after the bump and not before it; it carries no
number, so it is a plain cache. `Rewrite` and `Complete` write the kubeconfig, in
one write or two.

**Shells.** A session is one start or one adoption with all that follows. `pod`
and `cluster` are what it created and what the API server has; `registry` is the
three `byID` maps, `taken` and `cleared` the records that the shutdown's sweep and
the window's stop controls took out of them, `asked`, `signalled` and `at` the
waits of a local shell's `end`. A failed deletion, and a creation whose answer was
lost, put the pod in `lost`; the context directory of a local shell whose removal
failed is `leftBehind`, whether the shell retired, was refused or never began.
`shutdown` is OnShutdown's progress through the three
sweeps.

## The runs

| run | module, cfg | instance | states |
| --- | --- | --- | --- |
| `forwards_safety` | MCPortForwards, PortForwardsSafety | 2 forwards (one internal) of 1 cluster, 1 port, 2 stoppers, window of 1 search | 796 000 |
| `forwards_liveness` | MCPortForwards, PortForwardsLiveness | 1 forward, 2 stoppers, window of 2 | 2 000 |
| `kind_watch` | KindWatch | 4 versions | 5 200 |
| `serving_is_healthy` | KindWatch, ServingIsHealthy | 4 versions | violation |
| `watch_sets` | WatchSets | 2 clusters, 3 sets, 2 stoppers and the sweeper | 112 000 |
| `read_cache` | ReadCache | 2 readers, a narrow and the broad key, 2 forgets | 141 000 |
| `connection` | Connection | 3 calls, 2 restores, 1 port, a shutdown | 235 000 |
| `start_racing_close` | Connection, StartRacingClose | as `connection` | violation |
| `history` | History | 2 calls, 1 cadence, 1 fault per launch, 1 sample | 1 180 000 |
| `clients` | Clients | 2 callers, 1 set, the watcher; 1 rewrite, 2 releases | 684 000 |
| `shells` | Shells | 2 sessions, 2 pods | 676 000 |
| `stop_all_closes_for_good` | Shells, StopAllClosesForGood | the same | violation |

The longest, `history`, takes three minutes on two workers.

What they show, beside types:

- **Forwards.** A supervisor that ended holds nothing (`GoneHoldsNothing`); the
  registry, the stoppers and the supervisors are a Custody (`ForwardsInCustody`):
  each live one is registered or in one stopper's hands, no channel is closed
  twice, and a stopper lets go only of a supervisor that ended; it never dials
  beside an attempt of its own (`OneAttempt`); the row follows it (`RowIsHonest`).
  Stops and starts return, windows end, a nudge to a lost forward is answered, or
  the one dial in question hangs for ever (`StopsReturn`, `StartsReturn`,
  `WindowEnds`, `NudgeIsHeard`).
- **Watched stores.** Condemnation is final (`CondemnedForGood`), a demoted store
  is promoted only past the version it was demoted at (`PromotedOnEvidence`) and is
  promoted once it is past it (`Recovers`), a cancelled set ends (`Ends`). The
  manager is a Custody of sets (`SetsInCustody`): a running set has one owner, no
  read finds a cancelled one, sets are ended one by one, each once. Nothing
  is left or started after a stopAll (`StoppedForGood`), forgets return and a set
  nobody reads is reaped.
- **Reads.** `ReadsAreFresh` is the refinement of FreshReads: no stale answer, and no
  reader given up for another's caller; fetches are shared unless a forget separates
  them (`Coalesced`), and one that waits for a fetch or borrows
  its answer leaves when the fetch ends or its caller goes (`WaitersLeave`).
- **Connection.** The calls, the restores and the shutdown do what `Tab` promises
  (`RestoresFollowTheTab`): a restore reaches the cluster for an open tab or before
  the sweep of the disconnect that closes it, and leaves no forward after it, also
  when disconnects and connects overlap; disconnects and the shutdown end although
  they wait for restores that are cancelled, taken over or panic, unless a
  restore's dial hangs (`Unwinds`). A kept forward a restore has read comes to run
  or to be listed with the reason of this attempt, not of an earlier one, unless the
  restore is cancelled, panics or hangs (`RestoreSettles`).
- **History and settings.** What the settings store answers is what the next launch
  reads, wherever this one ends (`StoreAgrees`); the retention and cadence the
  service acts on are, once nobody saves, unless a save failed or was refused, or
  the last two changes crossed (`NextLaunchAgrees`). A file that could not
  be read is set aside before it is replaced (`UnreadableIsSetAside`); recording
  turned off and saved begins no pass (`OffStaysOff`): a pass under way goes on to
  the clusters it has still to come to, and what it adds goes with a later prune
  (`OffEmptiesTheDisk`); a crash costs the sample it cut (`CrashCostsItsOwnSample`).
- **Clients.** What guards its late writes (the sweep, the numbered caches, the set
  of watched stores) holds nothing of a discarded client once the releases are past
  it (`GuardedIsCurrent`); a plain cache can, but only from a read that was in
  flight (`OnlyLateIsInherited`). One client at a time (`NoClientReplaced`), and
  credentials rewritten while connected reach it, although the fingerprint is
  advanced before they are compared and the file may be read half-way
  (`RewriteReaches`).
- **Shells.** Every pod and process that exists is in the registry, in the hands of
  a call or a sweep, or its deletion was tried and failed (`NothingForgotten`); no
  record has lost its pod (`NoGhostShell`); a stopped local shell is reaped and its
  directory gone, or its removal was tried, failed and logged (`StoppedIsGone`);
  the shutdown ends though a shell ignores its hangup (`ShutdownEnds`).

**Bounds.** They are the smallest with every kind of contention. Two forwards
are one that binds the port and one that finds it bound, both of one cluster so
that a sweep holds two entries; two stoppers are a stop and a sweep for one entry. Four versions are a list, two stalls and a recovery.
Three sets let a cluster be watched again while another is. Two forgets put a
fetch before, between and after. Three calls are a disconnect between two
connects, or two disconnects around one, each with a restore; two restores are
all that two connects can start. A second port changes no interleaving of
`Connection`, a run trying its ports one by one; that one which fails does not end
the list is then not exercised. One fault per launch leaves
every operation the one that fails, and launches follow each other without a
bound, so faults of several launches meet; a second cadence only renames the
value a signal announces, and that no signal is lost, and that the cadence in force is
the one on disk, is proved for any number of them. Two callers of `Clients` are one that holds a
discarded client and one that releases or builds; with the watcher there are two
releases at once, and a second rewrite repeats the first. Two sessions of `Shells`
are an adoption beside the session that created the pod, or one under way at each
end of a sweep. Elements that are interchangeable
(stoppers by `SYMMETRY`, sets, calls and runs by taking the next unused one) are
not distinguished. Deadlock is not checked where the behaviours are finite
(a `Connection` whose calls are made, a watched kind that ended) or bounded
(versions, sets, forgets, releases, sessions); `forwards_*`, `history` and `clients` check it.

**Fairness.** Weak fairness of every goroutine's own steps: Go runs every
runnable goroutine. Strong fairness only for the arms of a `select` that finds
two channels ready again and again, since Go picks one at random (`SeesStop`,
`Nudged`, `SupervisorEnds`). A dial is NOT assumed to end: its timeout fires, but
the wait for what it opened has no bound. `PortForwards` assumes that an attempt
which serves or was refused ends once it is told to, and nothing of one that is
still connecting; so the properties say "or the dial hangs". `Connection` assumes
the steps of each call, each restore and the shutdown, but not `Start`, for
`restoreTimeout` bounds the resolving before it and not the dial. A fetch of the
read cache need not end either (`WaitersLeave`). An assessment of the history has a
deadline. Its prune is strongly fair where it takes: the hourly tick comes again
and the disk does not refuse every prune for ever, without which a retention of
nothing cannot be enforced. In `Clients` the watcher's steps are strongly fair,
because the lock it needs is a Go mutex, which is handed to who waits; a build ends
by its timeout. In `Shells` the steps of a call, of a pump and of the sweeps are
fair (the requests have deadlines of ten seconds and more), a grace period is over
some time and a killed process dies. Nobody is assumed to call, read, disconnect,
panic or shut down, to finish writing a file or to heed a hangup, and no cluster to
answer well.

## The proofs

Each holds for any number of forwards, ports, stoppers, clusters, sets, readers,
keys, calls and runs, from the `ASSUME` of the module (distinct names, natural
bounds).

| module | proved | the invariant and why it is needed |
| --- | --- | --- |
| `PortForwardsProofs` | the safety properties of `forwards_safety` with the refinement `Spec => Kept!Spec` of Custody, that a live supervisor has one owner (`OneOwner`) and that a forward keeps its port; `StartsReturn`, `StopsAreHeeded`, `OneStopReturns`, each "or the dial hangs for ever" | Where the supervisor is decides which attempts may exist (`AttemptsFollowControl`), which flags the row has (`RowFollowsControl`) and which port is dialled (`PortFollowsDial`): the properties speak of the ends, the steps need the middle. `InTurn`: a stopper asks the next when it let go of the last, as Custody does. `AttemptsEnd`: an attempt that is waited for was closed, failed or is done, so a step that ends it is due |
| `KindWatchProofs` | types, `ServesOnlySynced` (a store serves only once it listed), `CondemnedForGood`, `PromotedOnEvidence`; `Recovers`, `Ends` | `StallsInOrder`: the recorded version never trails the demotion. `SupervisorKnows`: only the supervisor promotes, so what it read cannot be undone by a stall until it swaps. `SupervisorStays`: it stays while its set runs, so there is somebody to recover the store |
| `WatchSetsProofs` | types, `OneOwner`, `NoFrozenMirror`, `StoppedForGood`, and the refinement of Custody | `RegistryIsApart`, `TakenApart`, `NoOrphan`: registry and takers share no set and miss none. `InTurn`, as above |
| `ReadCacheProofs` | types, `Coalesced`, `NoFailureIsKept`, `OwnCancellationOnly`, and the refinement `Spec => FreshReads!Spec`; `WaitersLeave` | `CachedIsCurrent`: a forget leaves nothing of its past in the cache. `Attached`: what a reader holds is no older than its read. `Led`: an entry that is waited for has a reader fetching it |
| `ConnectionProofs` | types, `NothingLeftBehind`, `ClosedKeeperIsQuiet`, `RestoresBeforeTheSweep`, and the refinement of Tab | `Answered`: a restore is held by the keeper or waited for. `Covered`: one past its check of the registry finds the tab open or a sweep still to come |
| `HistoryProofs` | types, `StoreAgrees`, `NextLaunchAgrees`, `UnreadableIsSetAside`, `OffStaysOff`, `CrashCostsItsOwnSample`, that no signal to the sampler is lost; `OffEmptiesTheDisk` | What each step of a save leaves on disk is tied to the step it is at, and what a call still has to save to what the service acts on, unless it crossed another; the sampler's place decides what it may still append |
| `ClientsProofs` | types, `GuardedIsCurrent`, `OnlyLateIsInherited`, `NoClientReplaced`; `RewriteReaches` | `HandsArePending`: a discarded client is in no hands that may still write a guarded cache, unless a release is ahead of it. `Locked`: nothing is cached while somebody builds. `OfThePast`, `RewriteIsAhead`: what was read of a file is no newer than the file, and a client built from an older one is overlooked only until the watcher's next look |
| `ShellsProofs` | types, `NothingForgotten`, `NoGhostShell`, `StoppedIsGone`; `EndsReturn`, `CallsReturn` | `Held`: a record is in one place, and its session as far as that. `Shared`: two sessions have one pod only by adoption. `Ghosts`: what `NoGhostShell` says, already before the record is made. `Local`: a session somebody ends is registered, retiring or done, so the pump gets to it |

Each has the same plan: `Init => IInv`; one lemma per group of actions for
`IInv /\ [Next]_vars => IInv'`, a step per action; `Invariance`; and each property
from `IInv`. The invariants were run through TLC before they were proved.

There are four refinements. Each instance maps the detailed state to the abstract
one (`Abstract`, `Kept`, `Promise`), and is a property of a run and a
theorem: the first states map to first states, and a lemma per group of actions
says which abstract step, or none, it takes. `IInv` supplies what the abstract guards
ask for and the detailed ones do not mention. The promises of `Custody`, `Tab`
and `FreshReads` say more than the invariants they replaced in the runs (`OneOwner`,
`NoFrozenMirror`, `NothingLeftBehind`, `RestoresBeforeTheSweep`,
`ClosedKeeperIsQuiet`, `OwnCancellationOnly`): those are still theorems.

The liveness theorems are of the form `Fair => P`. `ENABLED` is beyond the provers,
so `Fair` is `FairSpec` with the guard of each step written out where `WF` or `SF`
has `ENABLED`: a step whose guard holds for ever (again and again, if strongly fair)
is taken. The guards are copied from the actions and each action can be taken where
its guard holds, which is what a reader has to see for `Fair` to be `FairSpec`; no
run checks it. In `Clients`, where a step also needs the lock somebody else may hold,
`Fair` is `FairSpec /\ []NobodyBlocked`, and `NobodyBlocked` is checked by the run:
the watcher's due step is enabled unless the lock is held by a build that can end.
The rest, that the due step is the one that helps and that no other step undoes what
it waits for, is proved for every value of the constants: a lemma per stage says what
the other actions leave alone; the theorem chains the stages. History's showed that
weak or strong fairness of the tick alone would not do: with two faults of one launch a
prune may fail at every tick, so the fair action is a prune that takes.

`StopsAreHeeded` and `OneStopReturns` are theorems and no properties of
a run: a supervisor told to stop ends, wherever it is in a serve or a window, and the
stop of one forward returns, or the dial in question hangs for ever.
They are what `StopsReturn` comes from once the entries of a sweep are counted. So are
`EndsReturn` of the shells (a stop of a local shell returns and the sweep goes on to the
next, though the shell ignores its hangup) for `ShutdownEnds`, and `CallsReturn` (a
start or a clean-up never keeps a pod in hand for ever).

Only model-checked: `NobodyBlocked` of `Clients`, and the liveness properties whose argument counts
down what is finite, which is induction over data: the entries of a sweep
(`StopsReturn` of both registries; `IdleIsReaped`, whose sweeper may have others to
end first), the searches of a window (`WindowEnds`; `NudgeIsHeard`, since the second
of two nudges is sent in the window of the first), the critical sections and ports left
(`Unwinds`, `RestoreSettles`) and the sessions (`ShutdownEnds`).

## Where the code and its comments part

- `serving_is_healthy`: a stall between a store's first list and its first
  promotion finds a state it cannot flip, and the promotion does not look at the
  recorded version; `supervise` skips a serving store. `watch.go:62` says
  "watchServing means the store is synced and its watch is healthy".
- `start_racing_close`: a Resume past its last check is not waited for by Close.
  `forwardkeeper.go:37-38` says "A start racing Close is refused rather than
  registering a forward nobody will stop". Restores keep the promise
  (`ClosedKeeperIsQuiet`); a Resume is in no wait group.

- `stop_all_closes_for_good`, a bug: the activity list's Stop all calls
  `StopAllNodeShells` (`StopAllClusterShells`), which closes the registry for good.
  Every shell started afterwards is created, deleted again and refused with
  "PodSteer is shutting down". `nodeshell.go:84-85` says "closed is set by
  StopAllNodeShells and never cleared: the process is on its way out."

No run is kept for the following, which the properties therefore leave out or
except by name. Each is a behaviour of the models unless marked (read):

- Forwards, the dial's bound: `portforward.go:24` says `forwardReadyTimeout` "bounds
  how long a forward may take to come up". After the timeout `dialForward` closes the
  attempt's channel and receives from `done` (`827-834`) without a bound, while
  `ForwardPorts` may be inside a request of an `http.Client` that has no timeout
  (`784`; `client.go:592-595`). A server that accepts and says nothing then holds up
  the start, the window, the stop, the sweep of a disconnect and the exit: the "or the
  dial hangs" of the properties. `forwardkeeper.go:44` says that "restoreTimeout
  bounds one restored forward"; it does not bound the dial, which ignores its context.
- Forwards, the port: `portforward.go:224-227` says "THE LOCAL PORT IS HELD ACROSS THE
  GAP", so that a client stalls instead of being refused. A window begins when the
  dropped attempt is done, its listener closed with it (`258`, `281`), and only the
  redial binds the port again: `OneAttempt` asks for exactly that, and another forward
  or program can take the port meanwhile.
- Forwards: `startForward` dials before it takes the registry's lock and checks
  nothing afterwards (`portforward.go:136-143`), so a start under way during
  `stopPortForwardsFor` registers after it; `portforward.go:654-656` says "once this
  returns, no goroutine of this cluster's is left to ensure anything".
- Connection: `forwardkeeper.go:386-387` says "Restore starts every kept forward of
  one cluster that is not already running, recording why any could not be". A restore
  whose settings cannot be read returns with a log line (`389-394`); one that panics is
  recovered above the loop (`354`), and the deferred record takes the missing error for
  a success (`431-440`). What they did not start is then neither running nor listed
  with a reason; `RestoreSettles` excepts both.
- Connection: kinds discovered after a disconnect stay in the catalogue; a Keep
  that races a stop brings the stopped forward back on the next connect; a
  read-only mark set after a disconnect outlives the connection
  (`cluster.go:459-470`; read).
- History, two changes at once: `SetSamplingInterval` and `SetRetention` change the
  service under its lock and save what they copied after letting it go
  (`history.go:404-409`, `470-475`), so two that overlap may be saved in the order
  opposite to that of their changes, with no failure: the process records nothing and
  its next launch records. `history.go:487-489` says "A setting that says 'record
  nothing' has to be honoured"; `529-533` and `settings/store.go:124-127` say
  that updates do not lose each other. `NextLaunchAgrees` excepts changes that crossed.
- History, off at once: `sampleAll` asks once whether anything is recorded and then
  visits the open clusters, each for up to 30 seconds (`history.go:226-251`). A cluster
  it comes to after `SetRetention(0)` saved, pruned and returned is still sampled, as is
  the assessment in flight, and the samples stay until the hourly prune; `464-466` says
  "Enforcing immediately is the whole contract". `OffStaysOff` speaks of passes.
- History: a line torn by a full disk joins the next sample; one torn
  by a crash is repaired by the prune of the next start.
- Settings: `sidelined` is set before the rename and never reset
  (`settings/store.go:692`), so a rename that failed is not tried again; an old
  `history.json` that could not be removed is adopted again if the settings file is
  deleted (`store.go:119`).
- Clients: the plain caches store what a discarded client answered
  (`prometheus.go:526`, and `overview.go:298-311` for an assessment), and serve it to
  the next connection: `OnlyLateIsInherited` says that much and no more. A rewrite
  between Connect's probe and `Registry.Open` waits for the next change or a retry.
  A sweep in flight may ask the names of the old cluster's nodes (read).
- Shells: the exit does not wait for a start or a stop in flight (`main.go:788-808`),
  so their pods are left to their deadline, and a local session retiring meanwhile
  leaves its directory. One pod can be adopted by two sessions, and the first to end
  deletes it under the other. A deletion that failed has already dropped the record. A
  context directory whose removal failed is logged and left to nobody
  (`localshell.go:343-355`), and the stop that waits for it returns all the same.

## What is not modelled

- Time: windows, TTLs and timeouts are steps that may happen at any moment after
  they could.
- Payloads: what a list, a manifest or a metric contains.
- Memory order below the level of the code's atomics and locks: critical
  sections that do not block are atomic.
- In `Connection`: the read-only mark, the tab order, other clusters, and a
  supervisor's own redials. The settings are read and written atomically, which
  the store's lock gives; they may fail.
- In `PortForwards`: pod search is a choice of result; `ForwardPorts` is client-go,
  modelled from how its channels are used.
- In `History` and `Settings`: power loss (a write that returned is on the disk), a
  read-only store, settings other than the recording policy, reads of a series.
- In `Clients`: a panic of the watcher's check, which `safego.Run` recovers
  (`kubeconfigwatch.go:182`): one after the fingerprint was advanced (`206`) loses the
  refresh of that change, and `RewriteReaches` does not speak of it. Other clusters, the wait of the watch's forget (`WatchSets`), how
  files are merged, and the forwards a query batch opens.
- In `Shells`: sessions that own nothing (exec, debug), resizes and output, what
  makes a pod fit for reuse beyond running and unrecorded.
- The overview cache, the topology feed, fleet and traffic reads, file copies,
  bulk writes and drains, the agent server, the frontend's stores: each has a note
  in `PROJECT.json`. They keep little state between calls, or keep it with a
  discipline modelled above.
- `app/domain` (pure), the window's translation of arguments and errors, the
  composition root except the order of OnShutdown.

## Plan

Done, in order of what a mistake would cost: PortForwards, KindWatch, WatchSets,
ReadCache with FreshReads, Connection, Settings and History, Clients, Shells.

Left, in that order:

1. The overview cache's join of an assessment in flight, in one module with the
   plain caches of `Clients`, once the code guards the late write.
2. The topology feed: announcements neither lost nor made after `Close`.
3. File copies: two goroutines and a pipe, of which either fails first.
4. Bulk writes and drains: one result per object over a cancelled pool.
5. The query batches above `Clients` and `PortForwards`.
6. The window's session store: answers in the order of the questions.
