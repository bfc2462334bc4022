---------------------------- MODULE PortForwards ----------------------------
(* The port-forward registry and its supervisors                            *)
(* (src/app/adapters/k8s/portforward.go).                                   *)
(*                                                                          *)
(* A forward is one startForward call: the caller dials a first attempt,    *)
(* registers the entry and starts the supervisor goroutine, which watches   *)
(* the attempt, looks for a replacement pod when it drops, keeps looking    *)
(* slowly once its window ran out, and ends when its stop channel closes.   *)
(* StopPortForward, StopAllPortForwards and stopPortForwardsFor take        *)
(* entries out of the registry under its lock, close their stop channels    *)
(* one by one and wait for each supervisor.                                 *)
(*                                                                          *)
(* An attempt is client-go's ForwardPorts in a goroutine of its own.  The   *)
(* critical sections of portForwards.mu and forwarder.mu block on nothing,  *)
(* so each is one atomic step; channels are modelled by what their state    *)
(* lets a select see.                                                       *)
EXTENDS Naturals

CONSTANTS
    Forwards,     \* one per startForward call
    Clusters,
    ClusterOf,    \* the cluster a call names
    Internal,     \* the calls made by startInternalForward
    Ports,        \* local TCP ports
    AnyPort,      \* localPort = 0: the operating system chooses
    Wanted,       \* the local port a call asks for
    Stoppers,     \* goroutines that stop forwards
    NoForward,
    WindowTries   \* searches that fit in one reconnectWindow

ASSUME ForwardsAssumption ==
    /\ ClusterOf \in [Forwards -> Clusters]
    /\ Internal \subseteq Forwards
    /\ Wanted \in [Forwards -> Ports \cup {AnyPort}]
    /\ AnyPort \notin Ports
    /\ NoForward \notin Forwards
    /\ WindowTries \in Nat

VARIABLES
    byID,          \* the registry: ids of the entries it holds
    pc,            \* where the forward's caller, then its supervisor, is
    tries,         \* searches made in the window in progress
    localPort,     \* domain.Forward.LocalPort
    reconnecting,  \* the forwards whose row says Reconnecting
    lost,          \* the forwards whose row says Lost
    cur,           \* the attempt the supervisor watches
    next,          \* the attempt being dialled or not yet adopted
    dial,          \* where dialForward is
    pending,       \* the forwards whose entry.pending is set
    stopClosed,    \* entries whose stop channel is closed
    retry,         \* what is buffered in entry.retry
    call           \* what each stopper has still to stop, and waits for

row == <<localPort, reconnecting, lost>>
att == <<cur, next>>
supVars == <<tries, row, pending, retry>>
regVars == <<byID, stopClosed, call>>
vars == <<pc, dial, att, supVars, regVars>>

-----------------------------------------------------------------------------
(* An attempt: the goroutine running ForwardPorts.  "opening" dials the pod; *)
(* "up" holds the local port; "closing" holds it still after its stop        *)
(* channel closed; "aborting" was stopped before it bound; "failed" released *)
(* the port and has an error to report; "done" closed its done channel.      *)

AttemptStates ==
    {"none", "opening", "aborting", "up", "closing", "failed", "done"}
Attempts == [st : AttemptStates, port : Ports \cup {AnyPort}]
NoAttempt == [st |-> "none", port |-> AnyPort]

Dialled(p) == [st |-> "opening", port |-> p]

(* close(stop) as the attempt's goroutine sees it *)
Closed(a) ==
    [a EXCEPT !.st = CASE a.st = "opening" -> "aborting"
                       [] a.st = "up"      -> "closing"
                       [] OTHER            -> a.st]

Holding == {"up", "closing"}
Holds(a, p) == a.st \in Holding /\ a.port = p
Held(p) == \E f \in Forwards : Holds(cur[f], p) \/ Holds(next[f], p)
Over == {"none", "done"}
NothingRuns(f) == cur[f].st \in Over /\ next[f].st \in Over

(* The supervisor goroutine exists and has not closed entry.done.            *)
SupervisorPCs == {"run", "drop", "backoff", "find", "dial", "adopt", "lost",
                  "stopping", "unwindCur", "unwindNext"}
PCs == {"idle", "starting", "refused", "exited"} \cup SupervisorPCs
Supervised(f) == pc[f] \in SupervisorPCs

Idle == [todo |-> {}, at |-> NoForward]

TypeOK ==
    /\ byID \subseteq Forwards
    /\ pc \in [Forwards -> PCs]
    /\ tries \in [Forwards -> 0 .. WindowTries]
    /\ localPort \in [Forwards -> Ports \cup {AnyPort}]
    /\ reconnecting \subseteq Forwards
    /\ lost \subseteq Forwards
    /\ cur \in [Forwards -> Attempts]
    /\ next \in [Forwards -> Attempts]
    /\ dial \in [Forwards -> {"none", "waiting", "teardown", "ready", "refused"}]
    /\ pending \subseteq Forwards
    /\ stopClosed \subseteq Forwards
    /\ retry \in [Forwards -> {"empty", "live", "lost"}]
    /\ call \in [Stoppers -> [todo : SUBSET Forwards, at : Forwards \cup {NoForward}]]

Init ==
    /\ byID = {}
    /\ pc = [f \in Forwards |-> "idle"]
    /\ tries = [f \in Forwards |-> 0]
    /\ localPort = Wanted
    /\ reconnecting = {} /\ lost = {}
    /\ cur = [f \in Forwards |-> NoAttempt]
    /\ next = [f \in Forwards |-> NoAttempt]
    /\ dial = [f \in Forwards |-> "none"]
    /\ pending = {}
    /\ stopClosed = {}
    /\ retry = [f \in Forwards |-> "empty"]
    /\ call = [k \in Stoppers |-> Idle]

-----------------------------------------------------------------------------
(* The attempt goroutine.                                                    *)

(* ForwardPorts listens on the local port and closes ready.  A stop that     *)
(* arrived while it was still dialling is only seen after that.              *)
Bound(a, p) ==
    [st |-> IF a.st = "opening" THEN "up" ELSE "closing", port |-> p]

Bind(f) ==
    /\ next[f].st \in {"opening", "aborting"}
    /\ \E p \in Ports :
        /\ next[f].port \in {p, AnyPort}
        /\ ~Held(p)
        /\ next' = [next EXCEPT ![f] = Bound(@, p)]
    /\ UNCHANGED <<pc, dial, cur, supVars, regVars>>

(* The dial is refused, the port is taken, or an open connection to the pod  *)
(* is lost: ForwardPorts releases the listener and reports an error.         *)
Failing(a) == [a EXCEPT !.st = "failed"]

NextFails(f) ==
    /\ next[f].st \in {"opening", "aborting", "up"}
    /\ next' = [next EXCEPT ![f] = Failing(@)]
    /\ UNCHANGED <<pc, dial, cur, supVars, regVars>>

CurFails(f) ==
    /\ cur[f].st = "up"
    /\ cur' = [cur EXCEPT ![f] = Failing(@)]
    /\ UNCHANGED <<pc, dial, next, supVars, regVars>>

(* ForwardPorts has returned and the goroutine closes done.                  *)
Finished(a) == [a EXCEPT !.st = "done"]

NextDone(f) ==
    /\ next[f].st \in {"closing", "failed"}
    /\ next' = [next EXCEPT ![f] = Finished(@)]
    /\ UNCHANGED <<pc, dial, cur, supVars, regVars>>

CurDone(f) ==
    /\ cur[f].st \in {"closing", "failed"}
    /\ cur' = [cur EXCEPT ![f] = Finished(@)]
    /\ UNCHANGED <<pc, dial, next, supVars, regVars>>

-----------------------------------------------------------------------------
(* dialForward, run by the caller (pc "starting") or the supervisor (pc      *)
(* "dial"): one select over ready, failed and the ten-second timeout.        *)

(* (ready and failed may both be there to choose from; taking ready then is  *)
(* the attempt that fails right after this step.)                            *)
DialReady(f) ==
    /\ dial[f] = "waiting"
    /\ next[f].st = "up"
    /\ dial' = [dial EXCEPT ![f] = "ready"]
    /\ UNCHANGED <<pc, att, supVars, regVars>>

DialFailed(f) ==
    /\ dial[f] = "waiting"
    /\ next[f].st = "done"
    /\ dial' = [dial EXCEPT ![f] = "refused"]
    /\ UNCHANGED <<pc, att, supVars, regVars>>

(* Mutant of DialTimeout: the attempt is waited for and not told to stop.    *)
DialForsaken(f) ==
    /\ dial[f] = "waiting"
    /\ dial' = [dial EXCEPT ![f] = "teardown"]
    /\ UNCHANGED <<pc, att, supVars, regVars>>

(* Torn down, not abandoned: stop is closed and done waited for, without a   *)
(* bound. ForwardPorts sees stop only once its connection to the pod is open *)
(* or refused.                                                               *)
DialTimeout(f) ==
    /\ dial[f] = "waiting"
    /\ dial' = [dial EXCEPT ![f] = "teardown"]
    /\ next' = [next EXCEPT ![f] = Closed(@)]
    /\ UNCHANGED <<pc, cur, supVars, regVars>>

DialTornDown(f) ==
    /\ dial[f] = "teardown"
    /\ next[f].st = "done"
    /\ dial' = [dial EXCEPT ![f] = "refused"]
    /\ UNCHANGED <<pc, att, supVars, regVars>>

-----------------------------------------------------------------------------
(* startForward.                                                             *)

StartDial(f) ==
    /\ pc[f] = "idle"
    /\ pc' = [pc EXCEPT ![f] = "starting"]
    /\ dial' = [dial EXCEPT ![f] = "waiting"]
    /\ next' = [next EXCEPT ![f] = Dialled(localPort[f])]
    /\ UNCHANGED <<cur, supVars, regVars>>

StartRefused(f) ==
    /\ pc[f] = "starting" /\ dial[f] = "refused"
    /\ pc' = [pc EXCEPT ![f] = "refused"]
    /\ dial' = [dial EXCEPT ![f] = "none"]
    /\ next' = [next EXCEPT ![f] = NoAttempt]
    /\ UNCHANGED <<cur, supVars, regVars>>

(* Under portForwards.mu the entry is registered, and the attempt handed to  *)
(* the supervisor started right after the unlock.                            *)
Register(f) ==
    /\ pc[f] = "starting" /\ dial[f] = "ready"
    /\ byID' = byID \cup {f}
    /\ localPort' = [localPort EXCEPT ![f] = next[f].port]
    /\ cur' = [cur EXCEPT ![f] = next[f]]
    /\ next' = [next EXCEPT ![f] = NoAttempt]
    /\ dial' = [dial EXCEPT ![f] = "none"]
    /\ pc' = [pc EXCEPT ![f] = "run"]
    /\ UNCHANGED <<tries, reconnecting, lost, pending, retry, stopClosed, call>>

-----------------------------------------------------------------------------
(* superviseForward: select over stop, current.done and current.failed.      *)

Go(f, to) == pc' = [pc EXCEPT ![f] = to]

(* A deliberate stop ends the running attempt ...                            *)
SeeStop(f) ==
    /\ pc[f] = "run" /\ f \in stopClosed
    /\ Go(f, "stopping")
    /\ cur' = [cur EXCEPT ![f] = Closed(@)]
    /\ UNCHANGED <<dial, next, supVars, regVars>>

(* Mutant of Stopped: the attempt is not waited for.                         *)
StoppedEarly(f) ==
    /\ pc[f] = "stopping"
    /\ Go(f, "exited")
    /\ UNCHANGED <<att, dial, supVars, regVars>>

(* ... and waits for it before entry.done closes.                            *)
Stopped(f) ==
    /\ pc[f] = "stopping" /\ cur[f].st = "done"
    /\ Go(f, "exited")
    /\ UNCHANGED <<att, dial, supVars, regVars>>

SeeDrop(f) ==
    /\ pc[f] = "run" /\ cur[f].st \in {"failed", "done"}
    /\ Go(f, "drop")
    /\ UNCHANGED <<att, dial, supVars, regVars>>

(* Mutant of BeginWindow: the search begins while the attempt still ends.    *)
BeginWindowEarly(f) ==
    /\ pc[f] = "drop"
    /\ Go(f, "backoff")
    /\ reconnecting' = reconnecting \cup {f}
    /\ UNCHANGED <<att, dial, tries, localPort, lost, pending, retry, regVars>>

(* The attempt is waited for, the row says Reconnecting, reconnect begins.   *)
BeginWindow(f) ==
    /\ pc[f] = "drop" /\ cur[f].st = "done"
    /\ Go(f, "backoff")
    /\ reconnecting' = reconnecting \cup {f}
    /\ UNCHANGED <<att, dial, tries, localPort, lost, pending, retry, regVars>>

(* reconnect: a select over stop and the backoff timer, until the deadline.  *)
StopInWindow(f) ==
    /\ pc[f] = "backoff" /\ f \in stopClosed
    /\ Go(f, "exited")
    /\ UNCHANGED <<att, dial, supVars, regVars>>

(* Mutant of Search: a window nothing counts.                                *)
SearchForever(f) ==
    /\ pc[f] = "backoff" /\ tries[f] < WindowTries
    /\ Go(f, "find")
    /\ UNCHANGED <<att, dial, supVars, regVars>>

Search(f) ==
    /\ pc[f] = "backoff" /\ tries[f] < WindowTries
    /\ Go(f, "find")
    /\ tries' = [tries EXCEPT ![f] = @ + 1]
    /\ UNCHANGED <<att, dial, row, pending, retry, regVars>>

(* The deadline may pass after any number of searches.  With the stop        *)
(* channel closed the supervisor ends instead (StopInWindow's step).         *)
WindowOver(f) ==
    /\ pc[f] = "backoff" /\ f \notin stopClosed
    /\ Go(f, "lost")
    /\ reconnecting' = reconnecting \ {f}
    /\ lost' = lost \cup {f}
    /\ tries' = [tries EXCEPT ![f] = 0]
    /\ UNCHANGED <<att, dial, localPort, pending, retry, regVars>>

(* tryReconnect failed: back to the loop that asked, which is the window as  *)
(* long as the row says Reconnecting and the slow one otherwise.             *)
Back(f) == Go(f, IF f \in reconnecting THEN "backoff" ELSE "lost")

(* findReplacementPod: no candidate, a failed list, or one the stop cancels. *)
FindNone(f) ==
    /\ pc[f] = "find"
    /\ Back(f)
    /\ UNCHANGED <<att, dial, supVars, regVars>>

(* A pod is found and dialled on the forward's own local port.               *)
FindPod(f) ==
    /\ pc[f] = "find"
    /\ Go(f, "dial")
    /\ dial' = [dial EXCEPT ![f] = "waiting"]
    /\ next' = [next EXCEPT ![f] = Dialled(localPort[f])]
    /\ UNCHANGED <<cur, supVars, regVars>>

RedialRefused(f) ==
    /\ pc[f] = "dial" /\ dial[f] = "refused"
    /\ Back(f)
    /\ dial' = [dial EXCEPT ![f] = "none"]
    /\ next' = [next EXCEPT ![f] = NoAttempt]
    /\ UNCHANGED <<cur, supVars, regVars>>

(* entry.pending keeps the attempt reachable until the supervisor adopts it. *)
Redialled(f) ==
    /\ pc[f] = "dial" /\ dial[f] = "ready"
    /\ Go(f, "adopt")
    /\ dial' = [dial EXCEPT ![f] = "none"]
    /\ pending' = pending \cup {f}
    /\ localPort' = [localPort EXCEPT ![f] = next[f].port]
    /\ UNCHANGED <<att, tries, reconnecting, lost, retry, regVars>>

(* Mutant of Adopt: a recovered forward goes on saying that it is lost.      *)
AdoptLost(f) ==
    /\ pc[f] = "adopt"
    /\ Go(f, "run")
    /\ cur' = [cur EXCEPT ![f] = next[f]]
    /\ next' = [next EXCEPT ![f] = NoAttempt]
    /\ pending' = pending \ {f}
    /\ reconnecting' = reconnecting \ {f}
    /\ tries' = [tries EXCEPT ![f] = 0]
    /\ UNCHANGED <<dial, localPort, lost, retry, regVars>>

Adopt(f) ==
    /\ pc[f] = "adopt"
    /\ Go(f, "run")
    /\ cur' = [cur EXCEPT ![f] = next[f]]
    /\ next' = [next EXCEPT ![f] = NoAttempt]
    /\ pending' = pending \ {f}
    /\ reconnecting' = reconnecting \ {f}
    /\ lost' = lost \ {f}
    /\ tries' = [tries EXCEPT ![f] = 0]
    /\ UNCHANGED <<dial, localPort, retry, regVars>>

(* Mutants of StopWhileLost and Nudged: the select lacks the case.           *)
StopUnseenWhileLost(f) == pc[f] = "lost" /\ f \in stopClosed /\ UNCHANGED vars
NudgeUnseen(f) == pc[f] = "lost" /\ retry[f] # "empty" /\ UNCHANGED vars

(* awaitRecovery: a select over stop, the slow ticker and the nudge.         *)
StopWhileLost(f) ==
    /\ pc[f] = "lost" /\ f \in stopClosed
    /\ Go(f, "exited")
    /\ UNCHANGED <<att, dial, supVars, regVars>>

Tick(f) ==
    /\ pc[f] = "lost"
    /\ Go(f, "find")
    /\ UNCHANGED <<att, dial, supVars, regVars>>

Nudged(f) ==
    /\ pc[f] = "lost" /\ retry[f] # "empty"
    /\ Go(f, "backoff")
    /\ retry' = [retry EXCEPT ![f] = "empty"]
    /\ reconnecting' = reconnecting \cup {f}
    /\ UNCHANGED <<att, dial, tries, localPort, lost, pending, regVars>>

(* A panic in the supervisor's own code: while it reports a drop, searches,  *)
(* or holds an attempt it has not adopted.  The recovery ends the running    *)
(* attempt, then the pending one, drops the entry and closes entry.done.     *)
Panic(f) ==
    /\ pc[f] \in {"drop", "find", "adopt"}
    /\ Go(f, "unwindCur")
    /\ cur' = [cur EXCEPT ![f] = Closed(@)]
    /\ UNCHANGED <<dial, next, supVars, regVars>>

UnwindPending(f) ==
    /\ pc[f] = "unwindCur" /\ cur[f].st = "done"
    /\ Go(f, "unwindNext")
    /\ next' = [next EXCEPT ![f] = IF f \in pending THEN Closed(@) ELSE @]
    /\ UNCHANGED <<dial, cur, supVars, regVars>>

(* Mutant of Unwound: an attempt nobody started is waited for.               *)
UnwoundAfterBoth(f) ==
    /\ pc[f] = "unwindNext"
    /\ next[f].st = "done"
    /\ Go(f, "exited")
    /\ pending' = pending \ {f}
    /\ byID' = byID \ {f}
    /\ UNCHANGED <<att, dial, tries, row, retry, stopClosed, call>>

Unwound(f) ==
    /\ pc[f] = "unwindNext"
    /\ f \in pending => next[f].st = "done"
    /\ Go(f, "exited")
    /\ pending' = pending \ {f}
    /\ byID' = byID \ {f}
    /\ UNCHANGED <<att, dial, tries, row, retry, stopClosed, call>>

-----------------------------------------------------------------------------
(* The operator's calls.                                                     *)

(* ReconnectPortForward: a non-blocking send on a channel that buffers one.  *)
(* The buffered value records what the row said when it was sent.            *)
ReconnectPortForward(f) ==
    /\ f \in byID
    /\ retry[f] = "empty"
    /\ retry' = [retry EXCEPT ![f] = IF f \in lost THEN "lost" ELSE "live"]
    /\ UNCHANGED <<byID, pc, tries, row, att, dial, pending, stopClosed, call>>

(* A stop takes its entries out of the registry under the lock; what is not  *)
(* there any more it neither stops nor waits for.                            *)
Take(k, taken) ==
    /\ call[k] = Idle
    /\ byID' = byID \ taken
    /\ call' = [call EXCEPT ![k].todo = taken]
    /\ UNCHANGED <<pc, att, dial, stopClosed, supVars>>

Known(f) == Supervised(f) \/ pc[f] = "exited"
OfCluster(S, c) == {f \in S : ClusterOf[f] = c}

StopPortForward(k, f) == Known(f) /\ Take(k, {f} \cap byID)

StopAllPortForwards(k) == Take(k, byID \ Internal)

stopPortForwardsFor(k, c) == Take(k, OfCluster(byID, c))

(* Mutant of CloseStop: closes all it has to stop before it waits for one.   *)
CloseStops(k) ==
    /\ call[k].at = NoForward
    /\ \E f \in call[k].todo :
        /\ stopClosed' = stopClosed \cup call[k].todo
        /\ call' = [call EXCEPT ![k] = [todo |-> @.todo \ {f}, at |-> f]]
    /\ UNCHANGED <<byID, pc, att, dial, supVars>>

(* stopForwards: close one stop channel, wait for that supervisor, go on.    *)
CloseStop(k) ==
    /\ call[k].at = NoForward
    /\ \E f \in call[k].todo :
        /\ stopClosed' = stopClosed \cup {f}
        /\ call' = [call EXCEPT ![k] = [todo |-> @.todo \ {f}, at |-> f]]
    /\ UNCHANGED <<byID, pc, att, dial, supVars>>

Waited(k) ==
    /\ call[k].at # NoForward
    /\ pc[call[k].at] = "exited"
    /\ call' = [call EXCEPT ![k].at = NoForward]
    /\ UNCHANGED <<byID, pc, att, dial, stopClosed, supVars>>

-----------------------------------------------------------------------------
AttemptStep(f) ==
    Bind(f) \/ NextFails(f) \/ CurFails(f) \/ NextDone(f) \/ CurDone(f)

Dialler(f) ==
    DialReady(f) \/ DialFailed(f) \/ DialTimeout(f) \/ DialTornDown(f)

Starter(f) == StartRefused(f) \/ Register(f)

Supervisor(f) ==
    \/ Stopped(f) \/ SeeDrop(f) \/ BeginWindow(f)
    \/ Search(f) \/ WindowOver(f)
    \/ FindNone(f) \/ FindPod(f) \/ RedialRefused(f) \/ Redialled(f)
    \/ Adopt(f) \/ Tick(f) \/ UnwindPending(f) \/ Unwound(f)

SeesStop(f) == SeeStop(f) \/ StopInWindow(f) \/ StopWhileLost(f)

Stopper(k) == CloseStop(k) \/ Waited(k)

ForwardStep(f) ==
    \/ StartDial(f) \/ ReconnectPortForward(f) \/ Panic(f)
    \/ AttemptStep(f) \/ Dialler(f) \/ Starter(f)
    \/ Supervisor(f) \/ SeesStop(f) \/ Nudged(f)

StopCall(k) ==
    \/ \E f \in Forwards : StopPortForward(k, f)
    \/ StopAllPortForwards(k)
    \/ \E c \in Clusters : stopPortForwardsFor(k, c)

Next ==
    \/ \E f \in Forwards : ForwardStep(f)
    \/ \E k \in Stoppers : Stopper(k) \/ StopCall(k)

(* Every goroutine runs, and a select that finds stop or a nudge ready again *)
(* and again picks it some time. An attempt that is still connecting need    *)
(* not get anywhere: nothing bounds the request ForwardPorts opens with.     *)
Runs(f) ==
    /\ WF_vars(Dialler(f)) /\ WF_vars(Starter(f)) /\ WF_vars(Supervisor(f))
    /\ WF_vars(NextDone(f)) /\ WF_vars(CurDone(f))
    /\ SF_vars(SeesStop(f)) /\ SF_vars(Nudged(f))

Returns(k) == WF_vars(Stopper(k))

Fairness ==
    /\ \A f \in Forwards : Runs(f)
    /\ \A k \in Stoppers : Returns(k)

Spec == Init /\ [][Next]_vars
FairSpec == Spec /\ Fairness

-----------------------------------------------------------------------------
(* Correctness.                                                              *)

(* A supervisor that has gone holds no local port and leaves no attempt      *)
(* running: "stopping waits for the goroutine to actually finish before      *)
(* reporting the port free".                                                 *)
GoneHoldsNothing ==
    \A f \in Forwards : pc[f] \in {"exited", "refused"} => NothingRuns(f)

(* The entry and the goroutine belong together: a registered forward has a   *)
(* live supervisor, and a live supervisor is registered or is in the hands   *)
(* of exactly one stopper, which has yet to return.  Two owners would close  *)
(* the stop channel twice and end the process.                               *)
Owners(f) == {k \in Stoppers : f \in call[k].todo \/ f = call[k].at}
OneOwner ==
    \A f \in Forwards :
        /\ f \in byID => Supervised(f) /\ Owners(f) = {} /\ f \notin stopClosed
        /\ Supervised(f) /\ f \notin byID => Owners(f) # {}
        /\ \A k, l \in Owners(f) : k = l

(* The registry as a Custody of supervisors: asking one to end is closing    *)
(* the stop channel of its entry. It never closes for good.                  *)
Life(f) ==
    CASE Supervised(f)     -> "alive"
      [] pc[f] = "exited"  -> "ended"
      [] OTHER             -> "new"
Stopping(k) == call[k].todo \cup ({call[k].at} \ {NoForward})
Kept == INSTANCE Custody WITH
    Things <- Forwards, Holders <- Stoppers,
    life <- [f \in Forwards |-> Life(f)], listed <- byID,
    held <- [k \in Stoppers |-> Stopping(k)], asked <- stopClosed, closed <- FALSE

(* Each stop channel is closed at most once, by the one stop that took the   *)
(* entry out of the registry, and that stop returns only after every         *)
(* supervisor it took has ended, also when a supervisor panics meanwhile.    *)
ForwardsInCustody == Kept!Spec

(* A forward that waits as lost holds no port ("the local port is NOT held   *)
(* in this state"), and a supervisor never watches one attempt while it      *)
(* dials another.                                                            *)
OneAttempt ==
    \A f \in Forwards :
        /\ pc[f] = "lost" => NothingRuns(f)
        /\ next[f].st # "none" =>
              cur[f].st \in Over

(* What the list says of a settled supervisor: watching means neither flag,  *)
(* in its first window means reconnecting, waiting as lost means lost only.  *)
RowIsHonest ==
    \A f \in byID :
        /\ pc[f] = "run" => f \notin reconnecting /\ f \notin lost
        /\ pc[f] = "backoff" => f \in reconnecting
        /\ pc[f] = "lost" => f \in lost /\ f \notin reconnecting

(* A forward keeps its local port: once registered, no reconnect moves it.   *)
KeepsItsPort ==
    [][\A f \in Forwards : Supervised(f) => localPort'[f] = localPort[f]]_vars

(* A dial that timed out and whose attempt is still connecting: dialForward  *)
(* waits for it, and it may never come down.                                 *)
Hung(f) == dial[f] = "teardown" /\ next[f].st = "aborting"

(* Every stop returns, or the one forward it is waiting for is in a dial     *)
(* that hangs for ever: nothing else can hold a stop up.                     *)
StopsReturn ==
    \A k \in Stoppers :
        call[k] # Idle ~> \/ call[k] = Idle
                         \/ \E f \in Forwards : [](call[k].at = f /\ Hung(f))

(* A window ends: a row does not say Reconnecting for ever, unless a dial of *)
(* the window hangs for ever.                                                *)
WindowEnds ==
    \A f \in Forwards :
        f \in reconnecting ~>
            (f \notin reconnecting \/ pc[f] = "exited" \/ []Hung(f))

(* A nudge to a lost forward is answered, unless a dial in progress hangs:   *)
(* it starts a new window or the forward recovered or ended.                 *)
NudgeIsHeard ==
    \A f \in Forwards :
        (f \in lost /\ retry[f] # "empty") ~>
            \/ retry[f] = "empty" \/ f \notin lost \/ pc[f] = "exited"
            \/ []Hung(f)

(* A supervisor that is asked to stop ends, or is in a dial that hangs for   *)
(* ever: from anything else it was about, a drop, a search, a panic or a     *)
(* dial that ends, it comes back to a select that sees the stop.             *)
StopsAreHeeded ==
    \A f \in Forwards : f \in stopClosed ~> (pc[f] = "exited" \/ []Hung(f))

(* StopPortForward returns or waits for such a dial (StopsReturn for the     *)
(* call that has one forward to stop).                                       *)
Awaits(k, f) == call[k] = [todo |-> {}, at |-> f]
OneStopReturns ==
    \A k \in Stoppers, f \in Forwards :
        call[k] = [todo |-> {f}, at |-> NoForward] ~>
            (call[k] = Idle \/ [](Awaits(k, f) /\ Hung(f)))

(* A start returns, with a forward or with the error of its dial, unless     *)
(* that dial hangs: it does not outlast its timeout once it has connected,   *)
(* and what binds its port late is brought down again.                       *)
StartsReturn ==
    \A f \in Forwards :
        pc[f] = "starting" ~> (pc[f] \in {"run", "refused"} \/ []Hung(f))

-----------------------------------------------------------------------------
(* The inductive invariant behind the safety properties, one part for each   *)
(* kind of state they relate.                                                *)

(* Where the supervisor is decides which attempts can exist.                 *)
AttemptsFollowControl ==
    \A f \in Forwards :
        /\ pc[f] \in {"idle", "starting", "refused"} => cur[f].st = "none"
        /\ pc[f] \in {"backoff", "find", "dial", "adopt", "lost",
                      "unwindNext", "exited"} => cur[f].st = "done"
        /\ pc[f] \in {"idle", "refused", "run", "drop", "stopping",
                      "backoff", "find", "lost"} => next[f].st = "none"
        /\ pc[f] \in {"unwindCur", "unwindNext"} /\ f \notin pending =>
              next[f].st = "none"
        /\ pc[f] = "exited" => next[f].st \in Over
        /\ pc[f] = "adopt" => f \in pending
        /\ f \in pending => pc[f] \in {"adopt", "unwindCur", "unwindNext"}
        /\ f \in pending => cur[f].st = "done"
        /\ dial[f] # "none" => pc[f] \in {"starting", "dial"}

(* An attempt that is waited for was closed, failed or is done, and a dial   *)
(* that was answered left an attempt that agrees with the answer.            *)
AttemptsEnd ==
    \A f \in Forwards :
        /\ pc[f] = "run" => cur[f].st \in {"up", "failed", "done"}
        /\ pc[f] = "drop" => cur[f].st \in {"failed", "done"}
        /\ pc[f] \in {"stopping", "unwindCur"} => cur[f].st \in {"closing", "failed", "done"}
        /\ pc[f] \in {"starting", "dial"} => dial[f] # "none"
        /\ dial[f] = "waiting" => next[f].st \in {"opening", "up", "failed", "done"}
        /\ dial[f] = "teardown" => next[f].st \in {"aborting", "closing", "failed", "done"}
        /\ dial[f] = "refused" => next[f].st = "done"
        /\ dial[f] = "ready" \/ pc[f] = "adopt" \/ (pc[f] = "unwindCur" /\ f \in pending)
              => next[f].st \in {"up", "failed", "done"}
        /\ pc[f] = "unwindNext" /\ f \in pending =>
              next[f].st \in {"closing", "failed", "done"}

(* Only a forward that was registered is ever asked to stop, and only one    *)
(* that was asked stops.                                                     *)
OnlyKnownIsStopped ==
    \A f \in Forwards :
        /\ f \in stopClosed \/ Owners(f) # {} => Known(f)
        /\ pc[f] = "stopping" => f \in stopClosed

(* A stop closes one channel and waits: what it has still to do is open.     *)
InTurn ==
    \A k \in Stoppers :
        /\ call[k].todo \cap stopClosed = {}
        /\ call[k].at # NoForward => call[k].at \in stopClosed

RowFollowsControl ==
    \A f \in Forwards :
        /\ pc[f] \in {"idle", "starting", "run", "drop", "stopping"} =>
              f \notin reconnecting /\ f \notin lost
        /\ pc[f] = "backoff" => f \in reconnecting
        /\ pc[f] = "lost" => f \in lost /\ f \notin reconnecting
        /\ pc[f] \in {"find", "dial"} /\ f \notin reconnecting => f \in lost

(* A dial asks for the forward's own port and can bind no other.             *)
PortFollowsDial ==
    \A f \in Forwards :
        /\ Supervised(f) => localPort[f] \in Ports
        /\ next[f].st = "up" => next[f].port \in Ports
        /\ dial[f] = "ready" => next[f].port \in Ports
        /\ pc[f] = "dial" => next[f].port = localPort[f]

IInv ==
    /\ TypeOK
    /\ AttemptsFollowControl /\ AttemptsEnd
    /\ OneOwner /\ OnlyKnownIsStopped /\ InTurn
    /\ RowFollowsControl
    /\ PortFollowsDial

=============================================================================
