------------------------------- MODULE Clients -------------------------------
(* The clients built for one cluster, and what is kept of their answers over *)
(* a change of the kubeconfig: clientFactory of src/app/adapters/k8s/        *)
(* client.go, Adapter.release, the caches of slow reads, the watcher of the  *)
(* kubeconfig, and the calls that open, close and refresh the connection.    *)
(*                                                                          *)
(* The caches differ in what guards a late write, so there is one of each    *)
(* kind: plain (backends, kubeState, upgrades, helm, nodeList) writes what   *)
(* it read; numbered (vulnerabilities, queryRefusals, forwardRoutes) carries *)
(* the generation its read began in; swept (filesystems) keeps only the      *)
(* sweep that is still the cluster's. A refusal is an answer and is kept, so *)
(* there are answers and failures. An entry may expire at any moment: every  *)
(* read may miss, and a hit changes nothing. The caches do not touch one     *)
(* another, so a behaviour follows one of them, or the set of watched stores. *)
EXTENDS Integers

CONSTANTS
    Callers,        \* goroutines of the window's calls
    Sets,           \* goroutines of the sets of watched stores
    Watcher,        \* the goroutine of KubeconfigWatcher
    None,
    MaxRewrites,    \* bound: rewrites of the kubeconfig
    MaxReleases     \* bound: disconnects and retries

ASSUME ClientsAssumption ==
    /\ Callers \cap Sets = {}
    /\ Watcher \notin Callers \cup Sets
    /\ None \notin Callers \cup Sets \cup Nat
    /\ MaxRewrites \in Nat /\ MaxReleases \in Nat

Askers == Callers \cup Sets
Releasers == Callers \cup {Watcher}
Caches == {"plain", "numbered", "swept"}

VARIABLES
    file,       \* the kubeconfig: the credentials written last, all of them or not yet
    open,       \* Registry: the cluster is connected
    client,     \* clientFactory.clients: the credentials it was built from, or None
    lock,       \* clientFactory.mu: who is building under it, or None
    generation, \* generations.current
    followed,   \* the kind of cache of this behaviour, or watch
    kept,       \* its entry
    sweep,      \* filesystemCache.inflight: who leads the sweep, or None
    watch,      \* watchManager.sets: the registered set, or None
    pc, job,    \* where each asker is, and what for
    config,     \* the credentials a builder read
    number,     \* the generation a numbered read captured
    over,       \* history: the client in the asker's hands is live or discarded
    stage,      \* the next step of each releaser's release
    last,       \* KubeconfigWatcher.last
    looked,     \* the credentials of the client the watcher compares, or None
    witnessed,  \* history: connected at the last change of the file, and since
    releases    \* bound: disconnects and retries so far

factory == <<client, lock>>
stores == <<generation, followed, kept, sweep, watch>>
asking == <<pc, job, config, number, over>>
watching == <<last, looked>>
vars == <<file, open, factory, stores, asking, stage, watching, witnessed, releases>>

Credentials == 0 .. MaxRewrites
Files == [credentials : Credentials, whole : BOOLEAN]
(* by: live as the client that answered, discarded with it, or late: stored  *)
(* when its client was discarded already.                                    *)
Entries == [by : {"live", "discarded", "late"}, number : Nat]
NoEntry == [by |-> "nobody", number |-> 0]
Jobs == Caches \cup {"none", "connect", "list", "watch"}

(* The steps of Adapter.release, and what the watcher does before it.        *)
Releasing == {"client", "caches", "generation"}
Stages == Releasing \cup {"none", "refresh", "look", "compare"}

TypeOK ==
    /\ file \in Files /\ last \in Files
    /\ open \in BOOLEAN /\ witnessed \in BOOLEAN
    /\ client \in Credentials \cup {None} /\ looked \in Credentials \cup {None}
    /\ lock \in Askers \cup {None}
    /\ generation \in Nat
    /\ followed \in Caches \cup {"watch"}
    /\ kept \in Entries \cup {NoEntry}
    /\ sweep \in Callers \cup {None}
    /\ watch \in Sets \cup {None}
    /\ pc \in [Askers -> {"idle", "ensure", "lookup", "build", "building", "asked", "watching"}]
    /\ job \in [Askers -> Jobs]
    /\ config \in [Askers -> Credentials]
    /\ number \in [Askers -> Nat]
    /\ over \in [Askers -> {"nobody", "live", "discarded"}]
    /\ stage \in [Releasers -> Stages]
    /\ releases \in Nat

Init ==
    /\ file = [credentials |-> 0, whole |-> TRUE] /\ last = file
    /\ open = FALSE /\ witnessed = FALSE
    /\ client = None /\ looked = None /\ lock = None
    /\ generation = 0
    /\ followed \in Caches \cup {"watch"}
    /\ kept = NoEntry
    /\ sweep = None /\ watch = None
    /\ pc = [p \in Askers |-> "idle"] /\ job = [p \in Askers |-> "none"]
    /\ config = [p \in Askers |-> 0] /\ number = [p \in Askers |-> 0]
    /\ over = [p \in Askers |-> "nobody"]
    /\ stage = [q \in Releasers |-> "none"]
    /\ releases = 0

Free(p) == pc[p] = "idle" /\ (p \in Callers => stage[p] = "none")

-----------------------------------------------------------------------------
(* clientsFor, on the way of every call that needs the server.               *)

Goes(p, to) == pc' = [pc EXCEPT ![p] = to]

(* The asker returns, and what it held is gone.                              *)
Returns(p) ==
    /\ Goes(p, "idle")
    /\ job' = [job EXCEPT ![p] = "none"]
    /\ config' = [config EXCEPT ![p] = 0]
    /\ number' = [number EXCEPT ![p] = 0]
    /\ over' = [over EXCEPT ![p] = "nobody"]

Takes(p) ==
    /\ Goes(p, "asked")
    /\ over' = [over EXCEPT ![p] = "live"]
    /\ config' = [config EXCEPT ![p] = 0]
    /\ UNCHANGED <<job, number>>

(* The look-up under the read lock; the wait for the environment follows.    *)
Lookup(p) ==
    /\ pc[p] = "lookup" /\ lock = None
    /\ \/ client # None /\ Takes(p)
       \/ client = None /\ Goes(p, "build") /\ UNCHANGED <<job, config, number, over>>
    /\ UNCHANGED <<file, open, factory, stores, stage, watching, witnessed, releases>>

(* Under the write lock: somebody else's client, after all.                  *)
Recheck(p) ==
    /\ pc[p] = "build" /\ lock = None /\ client # None
    /\ Takes(p)
    /\ UNCHANGED <<file, open, factory, stores, stage, watching, witnessed, releases>>

(* Mutant: builds without looking again.                                     *)
ReadsConfigBlindly(p) ==
    /\ pc[p] = "build" /\ lock = None
    /\ file.whole
    /\ lock' = p
    /\ Goes(p, "building")
    /\ config' = [config EXCEPT ![p] = file.credentials]
    /\ UNCHANGED <<file, open, client, stores, job, number, over, stage, watching, witnessed, releases>>

(* Under the write lock, restConfig reads the file as it is now.             *)
ReadsConfig(p) ==
    /\ pc[p] = "build" /\ lock = None /\ client = None
    /\ file.whole
    /\ lock' = p
    /\ Goes(p, "building")
    /\ config' = [config EXCEPT ![p] = file.credentials]
    /\ UNCHANGED <<file, open, client, stores, job, number, over, stage, watching, witnessed, releases>>

(* Mutant: a way out of the build that leaves the lock taken.                *)
BuiltAndHeld(p) ==
    /\ pc[p] = "building"
    /\ client' = config[p]
    /\ Takes(p)
    /\ UNCHANGED <<file, open, lock, stores, stage, watching, witnessed, releases>>

Built(p) ==
    /\ pc[p] = "building"
    /\ client' = config[p] /\ lock' = None
    /\ Takes(p)
    /\ UNCHANGED <<file, open, stores, stage, watching, witnessed, releases>>

(* finish of a sweep: it lets go of the cluster only if it still holds it.   *)
LetsGo(p) == sweep' = IF sweep = p THEN None ELSE sweep

(* The file cannot be read, or no client can be built from it: nothing is    *)
(* cached. A set that cannot start stays registered, done.                   *)
NoClient(p) ==
    /\ \/ pc[p] = "build" /\ lock = None /\ client = None /\ ~file.whole
       \/ pc[p] = "building"
    /\ lock' = None
    /\ \/ p \in Callers /\ Returns(p)
       \/ p \in Sets /\ Goes(p, "watching") /\ UNCHANGED <<job, config, number, over>>
    /\ LetsGo(p)
    /\ UNCHANGED <<file, open, client, generation, followed, kept, watch, stage, watching, witnessed, releases>>

-----------------------------------------------------------------------------
(* The reads of a connected cluster.                                         *)

Begins(p, what, at) ==
    /\ Free(p)
    /\ job' = [job EXCEPT ![p] = what]
    /\ Goes(p, at)
    /\ UNCHANGED <<config, over>>

(* ListMetricsBackends, kubeStateMetrics, ServedAPIs, ListHelmReleases: miss. *)
ReadPlain(p) ==
    /\ open /\ followed = "plain" /\ Begins(p, "plain", "lookup")
    /\ UNCHANGED <<file, open, factory, stores, number, stage, watching, witnessed, releases>>

(* ListVulnerabilitySummaries, proxyQuery: the generation, then a miss.      *)
ReadNumbered(p) ==
    /\ open /\ followed = "numbered" /\ Begins(p, "numbered", "lookup")
    /\ number' = [number EXCEPT ![p] = generation]
    /\ UNCHANGED <<file, open, factory, stores, stage, watching, witnessed, releases>>

(* claim, by the one that will lead. Who joins a sweep stores nothing.       *)
ReadSwept(p) ==
    /\ open /\ followed = "swept" /\ sweep = None /\ Begins(p, "swept", "lookup")
    /\ sweep' = p
    /\ UNCHANGED <<file, open, factory, generation, followed, kept, watch, number, stage, watching, witnessed, releases>>

(* ListPods: the connection is looked up, then the watch is ensured.         *)
List(p) ==
    /\ open /\ followed = "watch" /\ Begins(p, "list", "ensure")
    /\ UNCHANGED <<file, open, factory, stores, number, stage, watching, witnessed, releases>>

(* ensure: the set is registered, and finds a client on its own goroutine.   *)
Ensure(p) ==
    /\ pc[p] = "ensure"
    /\ \/ /\ watch = None
          /\ \E w \in Sets :
               /\ pc[w] = "idle"
               /\ watch' = w
               /\ pc' = [pc EXCEPT ![p] = "idle", ![w] = "lookup"]
               /\ job' = [job EXCEPT ![p] = "none", ![w] = "watch"]
       \/ /\ watch # None
          /\ UNCHANGED watch
          /\ Goes(p, "idle") /\ job' = [job EXCEPT ![p] = "none"]
    /\ UNCHANGED <<file, open, factory, generation, followed, kept, sweep, config, number, over, stage, watching, witnessed, releases>>

(* Connect: the file names the cluster, then ServerVersion asks it.          *)
Connect(p) ==
    /\ file.whole /\ Begins(p, "connect", "lookup")
    /\ UNCHANGED <<file, open, factory, stores, number, stage, watching, witnessed, releases>>

Keeps(p) ==
    kept' = [by |-> IF over[p] = "live" THEN "live" ELSE "late", number |-> number[p]]

(* put and remember: the answer of a read is stored whatever happened since. *)
Stored(p) ==
    /\ pc[p] = "asked" /\ job[p] \in {"plain", "numbered"}
    /\ Keeps(p)
    /\ Returns(p)
    /\ UNCHANGED <<file, open, factory, generation, followed, sweep, watch, stage, watching, witnessed, releases>>

(* Mutant: stores whoever holds the cluster.                                 *)
SweptAnyway(p) ==
    /\ pc[p] = "asked" /\ job[p] = "swept"
    /\ Keeps(p)
    /\ LetsGo(p) /\ Returns(p)
    /\ UNCHANGED <<file, open, factory, generation, followed, watch, stage, watching, witnessed, releases>>

(* finish: stored only if this sweep is still the cluster's.                 *)
Swept(p) ==
    /\ pc[p] = "asked" /\ job[p] = "swept"
    /\ IF sweep = p THEN Keeps(p) ELSE UNCHANGED kept
    /\ LetsGo(p) /\ Returns(p)
    /\ UNCHANGED <<file, open, factory, generation, followed, watch, stage, watching, witnessed, releases>>

(* ServerVersion answers, and Registry.Open records the connection.          *)
Connected(p) ==
    /\ pc[p] = "asked" /\ job[p] = "connect"
    /\ open' = TRUE
    /\ Returns(p)
    /\ UNCHANGED <<file, factory, stores, stage, watching, witnessed, releases>>

(* A transport failure, which no cache keeps.                                *)
Fails(p) ==
    /\ pc[p] = "asked" /\ p \in Callers
    /\ LetsGo(p) /\ Returns(p)
    /\ UNCHANGED <<file, open, factory, generation, followed, kept, watch, stage, watching, witnessed, releases>>

(* The goroutine of a set that left the registry.                            *)
SetEnds(w) ==
    /\ pc[w] \in {"asked", "watching"} /\ watch # w
    /\ Returns(w)
    /\ UNCHANGED <<file, open, factory, stores, stage, watching, witnessed, releases>>

-----------------------------------------------------------------------------
(* Adapter.release: the client first, the generation last. The wait of the   *)
(* watch's forget is WatchSets'.                                             *)

Then ==
    [none |-> "client", client |-> "caches", caches |-> "generation", generation |-> "none"]

Steps(q, s) ==
    /\ stage[q] = s
    /\ stage' = [stage EXCEPT ![q] = Then[s]]

Discarded(by) == IF by = "live" THEN "discarded" ELSE by

Invalidate(q) ==
    /\ Steps(q, "client") /\ lock = None
    /\ client' = None
    /\ over' = [p \in Askers |-> Discarded(over[p])]
    /\ kept' = [kept EXCEPT !.by = Discarded(@)]
    /\ UNCHANGED <<file, open, lock, generation, followed, sweep, watch, pc, job, config, number, watching, witnessed, releases>>

(* Mutant: a cache that release does not know, as backends once was.         *)
ForgetAllButPlain(q) ==
    /\ Steps(q, "caches")
    /\ kept' = IF followed = "plain" THEN kept ELSE NoEntry
    /\ sweep' = None /\ watch' = None
    /\ UNCHANGED <<file, open, factory, generation, followed, asking, watching, witnessed, releases>>

(* The forgets, each under a mutex of its own: the entry, the sweep in       *)
(* flight, the set.                                                          *)
ForgetAll(q) ==
    /\ Steps(q, "caches")
    /\ kept' = NoEntry
    /\ sweep' = None /\ watch' = None
    /\ UNCHANGED <<file, open, factory, generation, followed, asking, watching, witnessed, releases>>

Bump(q) ==
    /\ Steps(q, "generation")
    /\ generation' = generation + 1
    /\ UNCHANGED <<file, open, factory, followed, kept, sweep, watch, asking, watching, witnessed, releases>>

Release(q) == Invalidate(q) \/ ForgetAll(q) \/ Bump(q)

(* Disconnect: the registry, then everything held. Its forwards are          *)
(* Connection's and PortForwards'.                                           *)
Disconnect(q) ==
    /\ Free(q) /\ open
    /\ releases < MaxReleases /\ releases' = releases + 1
    /\ open' = FALSE /\ witnessed' = FALSE
    /\ Steps(q, "none")
    /\ UNCHANGED <<file, factory, stores, asking, watching>>

(* RefreshCredentials on request, after an answer of unauthenticated.        *)
Retry(q) ==
    /\ Free(q) /\ open
    /\ releases < MaxReleases /\ releases' = releases + 1
    /\ Steps(q, "none")
    /\ UNCHANGED <<file, open, factory, stores, asking, watching, witnessed>>

-----------------------------------------------------------------------------
(* The kubeconfig and its watcher.                                           *)

(* Somebody logs in again: the file is rewritten, perhaps not in one write.  *)
Rewrite ==
    /\ file.credentials < MaxRewrites
    /\ \E whole \in BOOLEAN :
         file' = [credentials |-> file.credentials + 1, whole |-> whole]
    /\ witnessed' = open
    /\ UNCHANGED <<open, factory, stores, asking, stage, watching, releases>>

Complete ==
    /\ ~file.whole /\ file' = [file EXCEPT !.whole = TRUE]
    /\ witnessed' = open
    /\ UNCHANGED <<open, factory, stores, asking, stage, watching, releases>>

Moves(from, to) ==
    /\ stage[Watcher] = from
    /\ stage' = [stage EXCEPT ![Watcher] = to]
    /\ UNCHANGED <<file, open, factory, stores, asking, witnessed, releases>>

(* Mutant: a fingerprint that the second write of a rewrite does not move.   *)
CheckCoarse ==
    LET seen == [file EXCEPT !.whole = TRUE]
    IN  /\ seen # last /\ last' = seen
        /\ Moves("none", "refresh") /\ UNCHANGED looked

(* check, at a tick that finds the fingerprint moved.                        *)
Check ==
    /\ file # last /\ last' = file
    /\ Moves("none", "refresh") /\ UNCHANGED looked

(* refreshCredentials asks which clusters are open.                          *)
Refresh == Moves("refresh", IF open THEN "look" ELSE "none") /\ UNCHANGED watching

(* credentialsChanged finds the cached client under the read lock,           *)
Look ==
    /\ lock = None
    /\ Moves("look", IF client = None THEN "none" ELSE "compare")
    /\ looked' = client /\ UNCHANGED last

(* and compares it with what the file says now, if that can be read.         *)
Compare ==
    /\ Moves("compare", IF file.whole /\ file.credentials # looked THEN "client" ELSE "none")
    /\ looked' = None /\ UNCHANGED last

-----------------------------------------------------------------------------
Asks(p) ==
    \/ Lookup(p) \/ Recheck(p) \/ ReadsConfig(p) \/ Built(p) \/ NoClient(p)
Answers(p) == Stored(p) \/ Swept(p) \/ Connected(p) \/ Fails(p)
Calls(p) ==
    \/ ReadPlain(p) \/ ReadNumbered(p) \/ ReadSwept(p) \/ List(p)
    \/ Connect(p) \/ Disconnect(p) \/ Retry(p)
Watches == Check \/ Refresh \/ Look \/ Compare \/ Release(Watcher)

Next ==
    \/ \E p \in Askers : Asks(p)
    \/ \E p \in Callers : Calls(p) \/ Ensure(p) \/ Answers(p)
    \/ \E w \in Sets : SetEnds(w)
    \/ \E q \in Callers : Release(q)
    \/ Rewrite \/ Complete \/ Watches

(* A client under construction is built or refused, the watcher's ticker     *)
(* ticks, and a mutex of Go is handed to who waits for it. Nobody has to     *)
(* call, to answer, or to finish the file.                                   *)
Fairness ==
    /\ WF_vars(\E p \in Askers : Built(p))
    /\ SF_vars(Watches)

Spec == Init /\ [][Next]_vars
FairSpec == Spec /\ Fairness

-----------------------------------------------------------------------------
(* A release that has discarded the client and has steps ahead of it.        *)
Pending(steps) == \E q \in Releasers : stage[q] \in steps

ToCaches == {"caches"}
ToGeneration == {"caches", "generation"}

Live(by) == by \notin {"discarded", "late"}

(* Nothing that guards its late writes serves what a discarded client        *)
(* answered, once every release that discarded one is past it: not the       *)
(* sweep, not the numbered caches, not the set of watched stores.            *)
GuardedIsCurrent ==
    /\ followed = "swept" => Live(kept.by) \/ Pending(ToCaches)
    /\ followed = "numbered" /\ kept.number = generation =>
         Live(kept.by) \/ Pending(ToGeneration)
    /\ watch # None => Live(over[watch]) \/ Pending(ToCaches)

(* A plain cache has an answer of a discarded client after the release only  *)
(* if it was written after the client was discarded: by a read in flight.    *)
OnlyLateIsInherited == kept.by = "discarded" => Pending(ToCaches)

(* One client at a time: a client is only ever replaced after a release      *)
(* dropped it, however many first calls race to build one.                   *)
NoClientReplaced == [][client' # None => client' = client \/ client = None]_client

(* Credentials rewritten while the cluster is connected reach its client:    *)
(* a client built from older ones is dropped, however the rewrite, the       *)
(* builds and the checks interleave. Not for a rewrite between the probe of  *)
(* Connect and its end: the watcher asks only for connected clusters.        *)
Stale == client # None /\ file.whole /\ client # file.credentials
RewriteReaches == (open /\ witnessed /\ Stale) ~> (~open \/ ~Stale)

(* The watcher is blocked only by a build, and a build by nobody. This is    *)
(* what fairness rests on.                                                   *)
WatchDue ==
    \/ stage[Watcher] \in {"refresh", "compare", "caches", "generation"}
    \/ stage[Watcher] \in {"look", "client"} /\ lock = None
    \/ stage[Watcher] = "none" /\ file # last
NobodyBlocked ==
    /\ WatchDue => ENABLED <<Watches>>_vars
    /\ lock # None => ENABLED <<\E p \in Askers : Built(p)>>_vars

-----------------------------------------------------------------------------
(* The inductive invariant.                                                  *)

(* Who builds holds the lock, and nothing is cached meanwhile.               *)
Locked ==
    /\ lock # None => pc[lock] = "building"
    /\ \A p \in Askers : pc[p] = "building" => lock = p /\ client = None

(* A client is in the hands of who asked it, for the store that is followed. *)
Hands ==
    /\ \A p \in Askers : over[p] # "nobody" <=> pc[p] = "asked"
    /\ \A p \in Askers : job[p] \in Caches => followed = job[p]

(* Numbers are of the past or of now.                                        *)
Numbered ==
    /\ kept.number <= generation
    /\ \A p \in Askers : number[p] <= generation

(* A discarded client in hands that may still write, or serve, is one some   *)
(* release is not past.                                                      *)
HandsArePending ==
    /\ \A p \in Askers : over[p] = "discarded" =>
         /\ job[p] = "numbered" /\ number[p] = generation => Pending(ToGeneration)
         /\ sweep = p \/ watch = p => Pending(ToCaches)

(* Nothing was built from, compared with or told from a later file.          *)
OfThePast ==
    /\ client # None => client <= file.credentials
    /\ looked # None => looked <= file.credentials
    /\ \A p \in Askers : config[p] <= file.credentials
    /\ last.credentials <= file.credentials
    /\ last.credentials = file.credentials /\ last.whole => file.whole

(* A rewrite while connected is ahead of the watcher's next check; or it was *)
(* seen, and the watcher has yet to look at what was built before it: what   *)
(* is under construction holds the lock the look waits for.                  *)
RewriteIsAhead ==
    /\ witnessed => open
    /\ witnessed /\ file = last =>
         /\ \A p \in Askers : pc[p] = "building" /\ config[p] # file.credentials =>
              stage[Watcher] \in {"refresh", "look"}
         /\ Stale =>
              \/ stage[Watcher] \in {"refresh", "look", "client"}
              \/ stage[Watcher] = "compare" /\ looked # file.credentials

IInv ==
    /\ TypeOK /\ Locked /\ Hands /\ Numbered /\ HandsArePending
    /\ GuardedIsCurrent /\ OnlyLateIsInherited
    /\ OfThePast /\ RewriteIsAhead
=============================================================================
