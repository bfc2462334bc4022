----------------------------- MODULE Connection -----------------------------
(***************************************************************************)
(* One cluster's tab, opened and closed by calls that run side by side:    *)
(*   - the ClusterService's Connect and Disconnect (application/           *)
(*     cluster.go), over the Registry, the custom-kind Catalog and the     *)
(*     adapters' Invalidate;                                               *)
(*   - the ForwardKeeper (application/forwardkeeper.go), whose restore of  *)
(*     the kept forwards runs on a goroutine of its own, and whose Keep,   *)
(*     Forget, Resume and stop are called from the window;                 *)
(*   - the shutdown: ForwardKeeper.Close, then StopAllPortForwards.        *)
(* Every map of the code is keyed by the cluster, so one cluster is        *)
(* modelled.  How a forward is dialled, supervised and swept is            *)
(* PortForwards; here a start takes two steps (asked for, registered) and  *)
(* a sweep closes what is registered.                                      *)
(***************************************************************************)
EXTENDS FiniteSets

CONSTANTS
    Ports,      \* the local ports a forward may be kept on
    Calls,      \* the calls made from the window, each made at most once
    Runs,       \* the restoreRun values, each used at most once
    NoOne       \* no restore run, no forward, no port

Workers == Calls \cup Runs

ASSUME ConnectionAssumption ==
    /\ Calls \cap Runs = {}
    /\ NoOne \notin Workers \cup Ports

VARIABLES
    open,       \* Registry.connected holds the cluster
    custom,     \* the Catalog holds custom kinds for the cluster
    kept,       \* the ports of the settings file's KeptForwards
    failures,   \* ForwardKeeper.failures
    restoring,  \* ForwardKeeper.restoring[id]: a run or NoOne
    cancelled,  \* the runs whose context was cancelled
    live,       \* per port, the worker whose start holds it, or NoOne
    pc,         \* per worker, what it does next
    port,       \* per worker, the port it is about
    on,         \* per call, the run a Disconnect waits for, or the forward
                \* a stop was aimed at
    todo,       \* per run, the kept ports of its snapshot still to be tried
    exit        \* how far the shutdown has come

vars == <<open, custom, kept, failures, restoring, cancelled,
          live, pc, port, on, todo, exit>>

tab == <<open, custom>>
keeper == <<kept, failures, restoring, cancelled>>
workers == <<port, on, todo>>

StartSteps == {"permit", "resolve", "confirm", "start", "started", "refused"}
PortSteps == {"keep", "unkeep", "clear", "clearStop", "stop"}
CallSteps ==
    StartSteps \cup PortSteps \cup
    {"idle", "done", "handed",
     "discover", "restore",                     \* Connect
     "forget", "cancel", "wait", "sweep"}       \* Disconnect
RunSteps ==
    StartSteps \cup
    {"idle", "load", "loop", "finish", "panicked", "leave", "done"}

TypeOK ==
    /\ open \in BOOLEAN /\ custom \in BOOLEAN
    /\ kept \subseteq Ports /\ failures \subseteq Ports
    /\ restoring \in Runs \cup {NoOne}
    /\ cancelled \subseteq Runs
    /\ live \in [Ports -> Workers \cup {NoOne}]
    /\ pc \in [Workers -> CallSteps \cup RunSteps]
    /\ \A c \in Calls : pc[c] \in CallSteps
    /\ \A r \in Runs : pc[r] \in RunSteps
    /\ port \in [Workers -> Ports \cup {NoOne}]
    /\ \A w \in Workers : pc[w] \in StartSteps \cup PortSteps => port[w] \in Ports
    /\ on \in [Calls -> Workers \cup {NoOne}]
    /\ todo \in [Runs -> SUBSET Ports]
    /\ exit \in {"up", "closing", "waiting", "sweeping", "gone"}

Init ==
    /\ open = FALSE /\ custom = FALSE
    /\ kept \in SUBSET Ports /\ failures = {}
    /\ restoring = NoOne /\ cancelled = {}
    /\ live = [p \in Ports |-> NoOne]
    /\ pc = [w \in Workers |-> "idle"]
    /\ port = [w \in Workers |-> NoOne]
    /\ on = [c \in Calls |-> NoOne]
    /\ todo = [r \in Runs |-> {}]
    /\ exit = "up"

Goto(w, step) == pc' = [pc EXCEPT ![w] = step]

Live(p) == live[p] # NoOne
Closed == exit # "up"

\* A worker's context is cancelled: a restore's by the disconnect that takes
\* it or by the keeper's Close, a call's by nobody (history.go:27).
Over(w) == w \in Runs /\ (w \in cancelled \/ exit \notin {"up", "closing"})
-----------------------------------------------------------------------------
(***************************************************************************)
(* A call arrives with the first thing it does; one that is refused leaves *)
(* no trace.  Calls are interchangeable, and so are runs: the next one is  *)
(* any that was not used.                                                  *)
(***************************************************************************)
Fresh(w, W) == pc[w] = "idle" /\ w = CHOOSE v \in W : pc[v] = "idle"
-----------------------------------------------------------------------------
(***************************************************************************)
(* Connect.                                                                *)
(***************************************************************************)

\* The context was read and the server answered with its version: the tab
\* opens, or is refreshed.
Connect(c) ==
    /\ Fresh(c, Calls)
    /\ Goto(c, "discover")
    /\ open' = TRUE
    /\ UNCHANGED <<custom, keeper, live, workers, exit>>

\* Discovery is best-effort: its answer goes into the catalogue, its failure
\* changes nothing.
Discover(c) ==
    /\ pc[c] = "discover"
    /\ Goto(c, "restore")
    /\ custom' \in {custom, TRUE}
    /\ UNCHANGED <<open, keeper, live, workers, exit>>

\* ClusterConnected: one restore per cluster, none once the keeper closes.
ClusterConnected(c) ==
    /\ pc[c] = "restore"
    /\ \/ /\ Closed \/ restoring # NoOne
          /\ Goto(c, "done")
          /\ UNCHANGED restoring
       \/ /\ ~Closed /\ restoring = NoOne
          /\ \E r \in Runs :
               /\ Fresh(r, Runs)
               /\ pc' = [pc EXCEPT ![c] = "done", ![r] = "load"]
               /\ restoring' = r
    /\ UNCHANGED <<tab, kept, failures, cancelled, live, workers, exit>>
-----------------------------------------------------------------------------
(***************************************************************************)
(* Disconnect: the registry first, the sweep last.                         *)
(***************************************************************************)
Disconnect(c) ==
    /\ Fresh(c, Calls)
    /\ open
    /\ Goto(c, "forget")
    /\ open' = FALSE
    /\ UNCHANGED <<custom, keeper, live, workers, exit>>

ForgetKinds(c) ==
    /\ pc[c] = "forget"
    /\ Goto(c, "cancel")
    /\ custom' = FALSE
    /\ UNCHANGED <<open, keeper, live, workers, exit>>

(* Mutant: the restore is cancelled and not waited for. *)
DisconnectWithoutWaiting(c) ==
    /\ pc[c] = "cancel"
    /\ Goto(c, "sweep")
    /\ restoring' = NoOne
    /\ cancelled' = cancelled \cup ({restoring} \ {NoOne})
    /\ UNCHANGED <<tab, kept, failures, live, workers, exit>>

\* ClusterDisconnected takes the entry, cancels its run and waits for it.
ClusterDisconnected(c) ==
    /\ pc[c] = "cancel"
    /\ \/ restoring = NoOne /\ Goto(c, "sweep") /\ UNCHANGED <<cancelled, on>>
       \/ /\ restoring # NoOne
          /\ Goto(c, "wait")
          /\ on' = [on EXCEPT ![c] = restoring]
          /\ cancelled' = cancelled \cup {restoring}
    /\ restoring' = NoOne
    /\ UNCHANGED <<tab, kept, failures, live, port, todo, exit>>

Waited(c) ==
    /\ pc[c] = "wait"
    /\ pc[on[c]] = "done"
    /\ Goto(c, "sweep")
    /\ UNCHANGED <<tab, keeper, live, workers, exit>>

\* Invalidate: every registered forward of the cluster is stopped.
Sweep(c) ==
    /\ pc[c] = "sweep"
    /\ Goto(c, "done")
    /\ live' = [p \in Ports |-> NoOne]
    /\ UNCHANGED <<tab, keeper, workers, exit>>

\* A change of transport settings releases every OPEN cluster the same way
\* and leaves its tab open.
ReconnectClusters ==
    /\ open
    /\ live' = [p \in Ports |-> NoOne]
    /\ UNCHANGED <<tab, keeper, pc, workers, exit>>
-----------------------------------------------------------------------------
(***************************************************************************)
(* start: one kept forward rebuilt, by a restore run or by Resume.         *)
(***************************************************************************)

Permitted(w) == open /\ ~Over(w)

\* The check made before the target is resolved, and made again after it; by
\* then the restoreTimeout may have run out as well.
Permit(w) ==
    /\ pc[w] = "permit"
    /\ Goto(w, IF Permitted(w) THEN "resolve" ELSE "refused")
    /\ UNCHANGED <<tab, keeper, live, workers, exit>>

Resolve(w) ==
    /\ pc[w] = "resolve"
    /\ \E step \in {"confirm", "refused"} : Goto(w, step)
    /\ UNCHANGED <<tab, keeper, live, workers, exit>>

Confirm(w) ==
    /\ pc[w] = "confirm"
    /\ \/ Permitted(w) /\ Goto(w, "start")
       \/ Goto(w, "refused")
    /\ UNCHANGED <<tab, keeper, live, workers, exit>>

\* StartPortForward does not look at the context again: it fails, or the
\* forward is registered on its port, or it does not come back, since a dial
\* has no bound (PortForwards).
Start(w) ==
    /\ pc[w] = "start"
    /\ \/ /\ ~Live(port[w])
          /\ Goto(w, "started")
          /\ live' = [live EXCEPT ![port[w]] = w]
       \/ Goto(w, "refused") /\ UNCHANGED live
    /\ UNCHANGED <<tab, keeper, workers, exit>>

(* Mutant: only a success is recorded. *)
RecordSuccess(w) ==
    /\ pc[w] \in {"started", "refused"}
    /\ Goto(w, IF w \in Runs THEN "loop" ELSE "done")
    /\ failures' = failures \ {port[w]}
    /\ UNCHANGED <<tab, kept, restoring, cancelled, live, workers, exit>>

\* The deferred record of the outcome; a run goes on with its list.
Record(w) ==
    /\ pc[w] \in {"started", "refused"}
    /\ Goto(w, IF w \in Runs THEN "loop" ELSE "done")
    /\ failures' = IF pc[w] = "started" THEN failures \ {port[w]}
                                        ELSE failures \cup {port[w]}
    /\ UNCHANGED <<tab, kept, restoring, cancelled, live, workers, exit>>
-----------------------------------------------------------------------------
(***************************************************************************)
(* A restore run.                                                          *)
(***************************************************************************)

\* Restore reads the settings once, or gives up if they cannot be read.
Load(r) ==
    /\ pc[r] = "load"
    /\ \/ Goto(r, "loop") /\ todo' = [todo EXCEPT ![r] = kept]
       \/ Goto(r, "finish") /\ UNCHANGED todo
    /\ UNCHANGED <<tab, keeper, live, port, on, exit>>

Stops(r) == Over(r) \/ todo[r] = {}

StopLoop(r) ==
    /\ pc[r] = "loop"
    /\ Stops(r)
    /\ Goto(r, "finish")
    /\ UNCHANGED <<tab, keeper, live, workers, exit>>

\* The next kept forward: skipped when its port is held, started otherwise.
NextKept(r) ==
    /\ pc[r] = "loop"
    /\ ~Stops(r)
    /\ \E p \in todo[r] :
         /\ todo' = [todo EXCEPT ![r] = @ \ {p}]
         /\ \/ Live(p) /\ UNCHANGED <<pc, port>>
            \/ ~Live(p) /\ Goto(r, "permit") /\ port' = [port EXCEPT ![r] = p]
    /\ UNCHANGED <<tab, keeper, live, on, exit>>

(* Mutant: a run whose entry a disconnect took does not close its done.    *)
FinishOwnEntryOnly(r) ==
    /\ pc[r] \in {"finish", "panicked"}
    /\ restoring = r
    /\ Goto(r, "leave")
    /\ restoring' = NoOne
    /\ UNCHANGED <<tab, kept, failures, cancelled, live, workers, exit>>

\* The run drops its own entry and no other.
Finish(r) ==
    /\ pc[r] \in {"finish", "panicked"}
    /\ Goto(r, "leave")
    /\ restoring' = IF restoring = r THEN NoOne ELSE restoring
    /\ UNCHANGED <<tab, kept, failures, cancelled, live, workers, exit>>

\* A panic unwinds through start, whose deferred record finds no error, and is
\* recovered above the loop: what was not tried yet is not tried any more.
Panic(r) ==
    /\ pc[r] \in RunSteps \ {"idle", "refused", "finish", "panicked", "leave", "done"}
    /\ Goto(r, "panicked")
    /\ failures' = IF pc[r] \in StartSteps THEN failures \ {port[r]} ELSE failures
    /\ UNCHANGED <<tab, kept, restoring, cancelled, live, workers, exit>>

\* close(run.done) and wait.Done.
Leave(r) ==
    /\ pc[r] = "leave"
    /\ Goto(r, "done")
    /\ UNCHANGED <<tab, keeper, live, workers, exit>>
-----------------------------------------------------------------------------
(***************************************************************************)
(* The window's calls about single forwards.                               *)
(***************************************************************************)

\* Resume: the tab is open and the forward is kept, or nothing is tried.
Resume(c) ==
    /\ Fresh(c, Calls)
    /\ open
    /\ \E p \in kept : Goto(c, "permit") /\ port' = [port EXCEPT ![c] = p]
    /\ UNCHANGED <<tab, keeper, live, on, todo, exit>>

\* A forward started by hand: no registry check, no entry in the keeper.
StartByHand(c) ==
    /\ Fresh(c, Calls)
    /\ \E p \in Ports :
         /\ ~Live(p)
         /\ live' = [live EXCEPT ![p] = c]
    /\ Goto(c, "handed")
    /\ UNCHANGED <<tab, keeper, workers, exit>>

\* Keep and StopPortForward name a forward, which has to be running when the
\* call looks for it.
Look(c) ==
    /\ Fresh(c, Calls)
    /\ \E p \in Ports :
         /\ Live(p)
         /\ port' = [port EXCEPT ![c] = p]
         /\ \/ Goto(c, "keep") /\ UNCHANGED on
            \/ Goto(c, "unkeep") /\ on' = [on EXCEPT ![c] = live[p]]
    /\ UNCHANGED <<tab, keeper, live, todo, exit>>

\* Keep writes the definition; the settings may refuse to be written.
Keep(c) ==
    /\ pc[c] = "keep"
    /\ Goto(c, "done")
    /\ kept' \in {kept, kept \cup {port[c]}}
    /\ UNCHANGED <<tab, failures, restoring, cancelled, live, workers, exit>>

\* Forget, and Keep of a forward no longer wanted: remove takes the definition
\* out of the settings, and then its failure.
Forget(c) ==
    /\ Fresh(c, Calls)
    /\ \E p \in kept :
         /\ kept' = kept \ {p}
         /\ port' = [port EXCEPT ![c] = p]
    /\ Goto(c, "clear")
    /\ UNCHANGED <<tab, failures, restoring, cancelled, live, on, todo, exit>>

\* A stop removes it as well, and goes ahead whatever becomes of that.
ForgetLive(c) ==
    /\ pc[c] = "unkeep"
    /\ \/ /\ port[c] \in kept
          /\ kept' = kept \ {port[c]}
          /\ Goto(c, "clearStop")
       \/ Goto(c, "stop") /\ UNCHANGED kept
    /\ UNCHANGED <<tab, failures, restoring, cancelled, live, workers, exit>>

ClearFailure(c) ==
    /\ pc[c] \in {"clear", "clearStop"}
    /\ failures' = failures \ {port[c]}
    /\ Goto(c, IF pc[c] = "clearStop" THEN "stop" ELSE "done")
    /\ UNCHANGED <<tab, kept, restoring, cancelled, live, workers, exit>>

\* StopPortForward stops the forward it was aimed at, if that still runs.
Stop(c) ==
    /\ pc[c] = "stop"
    /\ Goto(c, "done")
    /\ live' = [p \in Ports |->
                  IF p = port[c] /\ live[p] = on[c] THEN NoOne ELSE live[p]]
    /\ UNCHANGED <<tab, keeper, workers, exit>>
-----------------------------------------------------------------------------
(***************************************************************************)
(* OnShutdown: Close of the keeper (closed, cancel, wait), then            *)
(* StopAllPortForwards.  Calls that are already running go on.             *)
(***************************************************************************)
CloseKeeper ==
    /\ exit = "up"
    /\ exit' = "closing"
    /\ UNCHANGED <<tab, keeper, live, pc, workers>>

CancelAll ==
    /\ exit = "closing"
    /\ exit' = "waiting"
    /\ UNCHANGED <<tab, keeper, live, pc, workers>>

(* Mutant: Close cancels the restores and does not wait for them. *)
CloseWithoutWaiting ==
    /\ exit = "waiting"
    /\ exit' = "sweeping"
    /\ UNCHANGED <<tab, keeper, live, pc, workers>>

WaitAll ==
    /\ exit = "waiting"
    /\ \A r \in Runs : pc[r] \in {"idle", "done"}
    /\ exit' = "sweeping"
    /\ UNCHANGED <<tab, keeper, live, pc, workers>>

StopAllPortForwards ==
    /\ exit = "sweeping"
    /\ exit' = "gone"
    /\ live' = [p \in Ports |-> NoOne]
    /\ UNCHANGED <<tab, keeper, pc, workers>>
-----------------------------------------------------------------------------
Starter(w) == Permit(w) \/ Resolve(w) \/ Confirm(w) \/ Record(w)

Arrival(c) ==
    \/ Connect(c) \/ Disconnect(c)
    \/ Resume(c) \/ StartByHand(c) \/ Look(c) \/ Forget(c)

Call(c) ==
    \/ Discover(c) \/ ClusterConnected(c)
    \/ ForgetKinds(c) \/ ClusterDisconnected(c) \/ Waited(c) \/ Sweep(c)
    \/ Keep(c) \/ ForgetLive(c) \/ ClearFailure(c) \/ Stop(c)
    \/ Starter(c)

Run(r) ==
    \/ Load(r) \/ StopLoop(r) \/ NextKept(r) \/ Finish(r) \/ Leave(r)
    \/ Starter(r)

Shutdown == CancelAll \/ WaitAll \/ StopAllPortForwards

Next ==
    \/ \E c \in Calls : Arrival(c) \/ Call(c)
    \/ \E r \in Runs : Run(r) \/ Panic(r)
    \/ \E w \in Workers : Start(w)
    \/ ReconnectClusters
    \/ CloseKeeper \/ Shutdown

Spec == Init /\ [][Next]_vars

(***************************************************************************)
(* Each goroutine that can go on does.  Resolving a target and reading the *)
(* settings end by the restoreTimeout or on their own, but nothing bounds  *)
(* StartPortForward: Start may never be taken.  Nobody has to make a call, *)
(* to panic or to shut the program down.                                   *)
(***************************************************************************)
FairSpec ==
    /\ Spec
    /\ \A c \in Calls : WF_vars(Call(c))
    /\ \A r \in Runs : WF_vars(Run(r))
    /\ WF_vars(Shutdown)
-----------------------------------------------------------------------------
(***************************************************************************)
(* Properties.                                                             *)
(***************************************************************************)
Leaving(c) == pc[c] \in {"forget", "cancel", "wait"}

(* A restore whose target is being resolved or dialled. *)
Reaching(r) == pc[r] \in {"resolve", "confirm", "start"}

(* A restore reaches the cluster only while its tab is open or before the  *)
(* sweep of a disconnect that is under way, so that it rebuilds nothing a  *)
(* disconnect released, and nothing it started outlives the tab, however   *)
(* many connects and disconnects overlap, or the shutdown                  *)
(* (cluster.go:311, forwardkeeper.go:368).                                 *)
Promise == INSTANCE Tab WITH
    Closers <- Calls, Restorers <- Runs,
    leaving <- {c \in Calls : Leaving(c)},
    sweeping <- {c \in Calls : pc[c] = "sweep"},
    reaching <- {r \in Runs : Reaching(r)},
    restored <- {p \in Ports : live[p] \in Runs},
    gone <- (exit = "gone")
RestoresFollowTheTab == Promise!Spec

(* After the shutdown's sweep no restored forward runs and none ever will: *)
(* Close waited for every restore and lets no new one begin                *)
(* (forwardkeeper.go:36, main.go:787).                                     *)
ClosedKeeperIsQuiet ==
    exit = "gone" =>
      /\ \A p \in Ports : live[p] \notin Runs
      /\ \A r \in Runs : pc[r] \in {"idle", "done"}

(* The dial of a restore never comes back. *)
Hangs(r) == <>[](pc[r] = "start")

(* A disconnect and a shutdown come to their end although both wait for    *)
(* the restores, whichever of these were cancelled, taken over, refused or *)
(* cut short by a panic.  A restore whose dial never returns is the one    *)
(* exception (forwardkeeper.go:375, forwardkeeper.go:496).                 *)
Unwinds ==
    \/ \E r \in Runs : Hangs(r)
    \/ /\ \A c \in Calls : Leaving(c) ~> pc[c] = "done"
       /\ exit = "closing" ~> exit = "gone"

(* The restore is done with a port of its snapshot: a forward runs there,  *)
(* or the reason that none does was recorded after the attempt.            *)
Settled(r, p) ==
    /\ p \notin todo[r]
    /\ port[r] = p => pc[r] \notin StartSteps \ {"started"}
    /\ Live(p) \/ p \in failures

(* Every kept forward that a restore has read from the settings comes to   *)
(* be running or to be listed with the reason of THIS attempt, not of an   *)
(* earlier one, unless the restore is cancelled or panics first, or hangs  *)
(* in a dial (forwardkeeper.go:389-409).                                   *)
RestoreSettles ==
    \A r \in Runs, p \in Ports :
      \/ Hangs(r)
      \/ pc[r] = "loop" /\ p \in todo[r]
           ~> Settled(r, p) \/ Over(r) \/ pc[r] = "panicked"

(* "A start racing Close is refused rather than registering a forward      *)
(* nobody will stop" (forwardkeeper.go:37): after the shutdown's sweep     *)
(* nothing the keeper started is running.                                  *)
StartRacingCloseIsRefused ==
    exit = "gone" =>
      \A p \in Ports : Live(p) => pc[live[p]] = "handed"
-----------------------------------------------------------------------------
(***************************************************************************)
(* The inductive invariant (ConnectionProofs): a restore is answered for   *)
(* by the keeper or by a disconnect that waits for it, so one that passed  *)
(* the registry's check finds the tab open or a sweep still to come.       *)
(***************************************************************************)
Waiting(r) == \E c \in Calls : pc[c] = "wait" /\ on[c] = r

(* A started restore is held by the keeper or waited for by a disconnect.  *)
Answered ==
    \A r \in Runs :
      pc[r] \notin {"idle", "leave", "done"} => restoring = r \/ Waiting(r)

Covered ==
    \A r \in Runs :
      Reaching(r) =>
        \/ open
        \/ Waiting(r)
        \/ \E c \in Calls : pc[c] \in {"forget", "cancel"}

(* What the promise comes to: a restore is at work, and its forward runs,  *)
(* only with the tab open or a disconnect under way.                       *)
RestoresBeforeTheSweep ==
    [][\A r \in Runs :
         pc[r] \in {"resolve", "start"} /\ pc'[r] # pc[r]
           => open \/ \E c \in Calls : Leaving(c)]_vars

NothingLeftBehind ==
    (~open /\ \A c \in Calls : ~Leaving(c) /\ pc[c] # "sweep")
      => \A p \in Ports : live[p] \notin Runs

(* From the end of Close's wait on, no restore is under way.                *)
Exited ==
    /\ exit \in {"sweeping", "gone"} => \A r \in Runs : pc[r] \in {"idle", "done"}
    /\ ClosedKeeperIsQuiet

IInv ==
    /\ TypeOK
    /\ Answered
    /\ Covered
    /\ NothingLeftBehind
    /\ Exited
=============================================================================
