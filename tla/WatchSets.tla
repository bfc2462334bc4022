------------------------------ MODULE WatchSets ------------------------------
(* The watch manager of src/app/adapters/k8s/watch.go: which cluster has a   *)
(* set of watched stores, who may end a set, and the sweeper. What goes on   *)
(* inside one store is KindWatch.                                            *)
(*                                                                          *)
(* A forget, a stopAll and the sweeper take sets out of the registry under   *)
(* the lock, then cancel them and wait for them one by one without it. A     *)
(* read's touch of a set is one step with its look-up: on a set that left    *)
(* the registry in between, nothing reads lastRead again.                    *)

CONSTANTS
    Clusters,   \* connected clusters
    Sets,       \* the sets of a behaviour, none of them used twice
    Stoppers,   \* goroutines that disconnect, reconnect or shut down
    Sweeper,    \* the goroutine of sweep
    None

ASSUME WatchSetsAssumption ==
    /\ None \notin Sets /\ Sweeper \notin Stoppers
    /\ Clusters \cap (Stoppers \cup {Sweeper}) = {}

Takers == Stoppers \cup {Sweeper}

VARIABLES
    registry,   \* m.sets: the set of each cluster, or None
    life,       \* unborn, starting (building a client), running, done
    cancelled,  \* the sets whose context is cancelled
    fresh,      \* the sets read within idleAfter
    call,       \* what each taker is doing
    taken,      \* the sets it took and has not waited for
    at,         \* the set it is waiting for, or None
    closed,     \* m.closed
    stopped     \* history: a stopAll has returned

vars == <<registry, life, cancelled, fresh, call, taken, at, closed, stopped>>

TypeOK ==
    /\ registry \in [Clusters -> Sets \cup {None}]
    /\ life \in [Sets -> {"unborn", "starting", "running", "done"}]
    /\ cancelled \in SUBSET Sets /\ fresh \in SUBSET Sets
    /\ call \in [Takers -> {"none", "forget", "stopAll", "sweep", "gone"}]
    /\ taken \in [Takers -> SUBSET Sets]
    /\ at \in [Takers -> Sets \cup {None}]
    /\ closed \in BOOLEAN /\ stopped \in BOOLEAN

Init ==
    /\ registry = [c \in Clusters |-> None]
    /\ life = [s \in Sets |-> "unborn"]
    /\ cancelled = {} /\ fresh = {}
    /\ call = [t \in Takers |-> IF t = Sweeper THEN "sweep" ELSE "none"]
    /\ taken = [t \in Takers |-> {}]
    /\ at = [t \in Takers |-> None]
    /\ closed = FALSE /\ stopped = FALSE

Registered == {s \in Sets : \E c \in Clusters : registry[c] = s}
Unborn == {s \in Sets : life[s] = "unborn"}
NextSet == CHOOSE s \in Sets : life[s] = "unborn"   \* any: they do not differ
Live == {s \in Sets : life[s] \in {"starting", "running"}}

-----------------------------------------------------------------------------
(* The read path.                                                            *)

(* Mutant: does not look at closed.                                          *)
EnsureAlways(c) ==
    /\ registry[c] = None
    /\ Unborn # {}
    /\ LET s == NextSet
       IN  /\ life' = [life EXCEPT ![s] = "starting"]
           /\ registry' = [registry EXCEPT ![c] = s]
           /\ fresh' = fresh \cup {s}
    /\ UNCHANGED <<cancelled, call, taken, at, closed, stopped>>

(* ensure: the first read of a cluster nobody watches starts a set, and the  *)
(* later ones touch it.                                                      *)
EnsureNew(c) ==
    /\ ~closed /\ registry[c] = None
    /\ Unborn # {}
    /\ LET s == NextSet
       IN  /\ life' = [life EXCEPT ![s] = "starting"]
           /\ registry' = [registry EXCEPT ![c] = s]
           /\ fresh' = fresh \cup {s}
    /\ UNCHANGED <<cancelled, call, taken, at, closed, stopped>>

(* ensure and watched touch the set they find.                               *)
Read(c) ==
    /\ registry[c] # None
    /\ fresh' = fresh \cup {registry[c]}
    /\ UNCHANGED <<registry, life, cancelled, call, taken, at, closed, stopped>>

(* idleAfter passes without a read.                                          *)
Age(s) ==
    /\ s \in fresh
    /\ fresh' = fresh \ {s}
    /\ UNCHANGED <<registry, life, cancelled, call, taken, at, closed, stopped>>

-----------------------------------------------------------------------------
(* The set's own goroutines.                                                 *)

Lives(s, before, after) ==
    /\ life[s] = before
    /\ life' = [life EXCEPT ![s] = after]
    /\ UNCHANGED <<registry, cancelled, fresh, call, taken, at, closed, stopped>>

(* No client, or no informer for any kind: done closes, the set stays.       *)
StartFails(s) == Lives(s, "starting", "done")
Started(s) == Lives(s, "starting", "running")

(* The reflectors and supervisors run until the context is cancelled.        *)
Ended(s) == s \in cancelled /\ Lives(s, "running", "done")

-----------------------------------------------------------------------------
(* Ending sets.                                                              *)

(* Under the lock: the sets leave the registry for the taker's own map.      *)
Take(t, sets, what) ==
    /\ taken' = [taken EXCEPT ![t] = sets]
    /\ call' = [call EXCEPT ![t] = what]
    /\ registry' = [c \in Clusters |-> IF registry[c] \in sets THEN None ELSE registry[c]]
    /\ UNCHANGED <<life, cancelled, fresh, at, stopped>>

Idle == Registered \ fresh

(* Mutant: the comparison with the cutoff turned round.                      *)
ReapFresh ==
    /\ call[Sweeper] = "sweep" /\ taken[Sweeper] = {}
    /\ Registered \cap fresh # {}
    /\ Take(Sweeper, Registered \cap fresh, "sweep")
    /\ UNCHANGED closed

(* reapIdle, at a tick of the sweeper that finds something idle.             *)
Reap ==
    /\ call[Sweeper] = "sweep" /\ taken[Sweeper] = {}
    /\ Idle # {}
    /\ Take(Sweeper, Idle, "sweep")
    /\ UNCHANGED closed

(* forget returns at once when the cluster has no set.                       *)
Forget(t, c) ==
    /\ call[t] = "none" /\ registry[c] # None
    /\ Take(t, {registry[c]}, "forget")
    /\ UNCHANGED closed

StopAll(t) ==
    /\ call[t] = "none"
    /\ Take(t, Registered, "stopAll")
    /\ closed' = TRUE

(* Mutant: waits for a set it has not cancelled.                             *)
CancelNone(t) ==
    /\ at[t] = None
    /\ \E s \in taken[t] : at' = [at EXCEPT ![t] = s]
    /\ UNCHANGED <<registry, life, cancelled, fresh, call, taken, closed, stopped>>

(* set.cancel, then the wait for set.done.                                   *)
CancelOne(t) ==
    /\ at[t] = None
    /\ \E s \in taken[t] :
         /\ cancelled' = cancelled \cup {s}
         /\ at' = [at EXCEPT ![t] = s]
    /\ UNCHANGED <<registry, life, fresh, call, taken, closed, stopped>>

(* Mutant: does not wait for done.                                           *)
WaitedNot(t) ==
    /\ at[t] # None
    /\ taken' = [taken EXCEPT ![t] = @ \ {at[t]}]
    /\ at' = [at EXCEPT ![t] = None]
    /\ UNCHANGED <<registry, life, cancelled, fresh, call, closed, stopped>>

Waited(t) ==
    /\ at[t] # None /\ life[at[t]] = "done"
    /\ taken' = [taken EXCEPT ![t] = @ \ {at[t]}]
    /\ at' = [at EXCEPT ![t] = None]
    /\ UNCHANGED <<registry, life, cancelled, fresh, call, closed, stopped>>

ForgetReturns(t) ==
    /\ call[t] = "forget" /\ taken[t] = {}
    /\ call' = [call EXCEPT ![t] = "none"]
    /\ UNCHANGED <<registry, life, cancelled, fresh, taken, at, closed, stopped>>

(* stopAll also waits for the sweeper, which may be in the middle of a reap. *)
StopAllReturns(t) ==
    /\ call[t] = "stopAll" /\ taken[t] = {} /\ call[Sweeper] = "gone"
    /\ call' = [call EXCEPT ![t] = "none"]
    /\ stopped' = TRUE
    /\ UNCHANGED <<registry, life, cancelled, fresh, taken, at, closed>>

SweeperEnds ==
    /\ closed /\ call[Sweeper] = "sweep" /\ taken[Sweeper] = {}
    /\ call' = [call EXCEPT ![Sweeper] = "gone"]
    /\ UNCHANGED <<registry, life, cancelled, fresh, taken, at, closed, stopped>>

-----------------------------------------------------------------------------
SetStep(s) == StartFails(s) \/ Started(s) \/ Ended(s)
ReadStep == (\E c \in Clusters : EnsureNew(c) \/ Read(c)) \/ (\E s \in Sets : Age(s))
TakerStep(t) == CancelOne(t) \/ Waited(t) \/ ForgetReturns(t) \/ StopAllReturns(t)
Sweep == Reap \/ SweeperEnds

Next ==
    \/ ReadStep
    \/ \E s \in Sets : SetStep(s)
    \/ \E t \in Stoppers : StopAll(t) \/ \E c \in Clusters : Forget(t, c)
    \/ \E t \in Takers : TakerStep(t)
    \/ Sweep

(* Every goroutine runs, a client is built or refused in the end, and the    *)
(* sweeper's ticker ticks. Nobody has to read, disconnect or shut down.      *)
Fairness ==
    /\ \A s \in Sets : WF_vars(SetStep(s))
    /\ \A t \in Takers : WF_vars(TakerStep(t))
    /\ WF_vars(Reap) /\ WF_vars(SweeperEnds)

Spec == Init /\ [][Next]_vars
FairSpec == Spec /\ Fairness

-----------------------------------------------------------------------------
(* The manager as a Custody of sets: asking a set to end is cancelling it.   *)
Life(s) ==
    CASE life[s] = "unborn" -> "new"
      [] life[s] = "done"   -> "ended"
      [] OTHER              -> "alive"
Kept == INSTANCE Custody WITH
    Things <- Sets, Holders <- Takers, life <- [s \in Sets |-> Life(s)],
    listed <- Registered, held <- taken, asked <- cancelled

(* Whoever ends a set took it out of the registry for itself: it cancels the *)
(* set once, one set after the other, waits until its goroutines are done    *)
(* and only then returns; a manager that was stopped starts no set.          *)
SetsInCustody == Kept!Spec

Owners(s) ==
    {c \in Clusters : registry[c] = s} \cup {t \in Takers : s \in taken[t]}

(* A running set is in the registry or in the hands of exactly one goroutine *)
(* that will cancel it and wait for it: the record and the goroutines never  *)
(* part company.                                                             *)
OneOwner ==
    \A s \in Live : \E o \in Clusters \cup Takers : Owners(s) = {o}

(* No read finds a set whose context is cancelled: its stores still say      *)
(* serving and would answer from a mirror that has stopped.                  *)
NoFrozenMirror == Registered \cap cancelled = {}

(* Once a stopAll returned nothing is watched, the sweeper is gone, and what *)
(* still runs is what some other call is waiting for.                        *)
StoppedForGood ==
    stopped =>
      /\ Registered = {} /\ call[Sweeper] = "gone"
      /\ \A s \in Live : \E t \in Stoppers : s \in taken[t]

(* Every forget and every stopAll returns.                                   *)
StopsReturn == \A t \in Stoppers : call[t] # "none" ~> call[t] = "none"

(* A set nobody reads is ended by the sweeper, unless it is read again.      *)
IdleIsReaped ==
    \A s \in Sets : s \in Idle ~> s \in fresh \/ life[s] = "done"

-----------------------------------------------------------------------------
(* The inductive invariant.                                                  *)

(* What the registry holds was born, is held once and by nobody else.        *)
RegistryIsApart ==
    /\ \A c \in Clusters : registry[c] # None =>
         /\ life[registry[c]] # "unborn"
         /\ registry[c] \notin cancelled
         /\ \A t \in Takers : registry[c] \notin taken[t]
    /\ \A c, d \in Clusters : registry[c] # None /\ registry[c] = registry[d] => c = d

TakenApart ==
    /\ \A t \in Takers, s \in Sets : s \in taken[t] => life[s] # "unborn"
    /\ \A t, u \in Takers, s \in Sets : s \in taken[t] /\ s \in taken[u] => t = u

(* A taker cancels one set at a time: of what it holds only the set it waits *)
(* for is cancelled.                                                         *)
InTurn ==
    \A t \in Takers :
      /\ \A s \in taken[t] \cap cancelled : s = at[t]
      /\ at[t] # None => at[t] \in taken[t] \cap cancelled

(* Every set that runs is somebody's.                                        *)
NoOrphan ==
    \A s \in Sets : s \in Live =>
      \/ \E c \in Clusters : registry[c] = s
      \/ \E t \in Takers : s \in taken[t]

BornOnce == \A s \in cancelled : life[s] # "unborn"

Closing ==
    /\ closed => \A c \in Clusters : registry[c] = None
    /\ stopped => closed /\ call[Sweeper] = "gone"
    /\ call[Sweeper] \in {"sweep", "gone"}
    /\ call[Sweeper] = "gone" => closed /\ taken[Sweeper] = {}
    /\ \A t \in Stoppers : call[t] \in {"none", "forget", "stopAll"}
    /\ \A t \in Stoppers : call[t] = "none" => taken[t] = {}

IInv ==
    /\ TypeOK /\ RegistryIsApart /\ TakenApart /\ InTurn /\ NoOrphan /\ BornOnce
    /\ Closing
=============================================================================
