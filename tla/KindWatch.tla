------------------------------ MODULE KindWatch ------------------------------
(* One kind's watched store (kindWatch in src/app/adapters/k8s/watch.go):    *)
(* the reflector and its error handler on one goroutine, the supervisor that *)
(* promotes the store on another, and the state word both of them write.     *)
(*                                                                          *)
(* The reflector is client-go's: it lists and watches for as long as it      *)
(* runs, and calls the handler with the error of a list, or of a watch that  *)
(* could not be opened. A resource version is the count of changes it has    *)
(* synced.                                                                   *)
EXTENDS Integers

CONSTANTS MaxVersion   \* bound on the resource versions of a behaviour

ASSUME MaxVersionAssumption == MaxVersion \in Nat

None == -1
Versions == 0 .. MaxVersion   \* 0 is "": nothing has been listed

VARIABLES
    state,      \* watchState: starting, serving or degraded
    stalled,    \* the version recorded by the latest stall, or None
    version,    \* informer.LastSyncResourceVersion
    reflector,  \* the reflector: its statements inside stall are two steps
    supervisor, \* where the supervising goroutine is
    seen,       \* the recorded version the supervisor has read
    demotedAt,  \* history: the version at which it was last demoted
    running     \* the set's context is not cancelled

vars == <<state, stalled, version, reflector, supervisor, seen, demotedAt, running>>
stall == <<stalled, demotedAt>>

Reflectors == {"unstarted", "mirroring", "failing", "recording", "flipping", "gone"}
Supervisors ==
    {"unstarted", "syncing", "first", "idle", "stalled", "version", "promote", "gone"}

TypeOK ==
    /\ state \in {"starting", "serving", "degraded"}
    /\ stalled \in Versions \cup {None}
    /\ version \in Versions
    /\ reflector \in Reflectors
    /\ supervisor \in Supervisors
    /\ seen \in Versions \cup {None}
    /\ demotedAt \in Versions \cup {None}
    /\ running \in BOOLEAN

Init ==
    /\ state = "starting"
    /\ stalled = None /\ seen = None /\ demotedAt = None
    /\ version = 0
    /\ reflector = "unstarted" /\ supervisor = "unstarted"
    /\ running = TRUE

-----------------------------------------------------------------------------
(* The set's start, and run up to informer.Run.                              *)

(* No client, or an informer that takes no transform: never watched.         *)
NotWatched ==
    /\ reflector = "unstarted"
    /\ state' = "degraded"
    /\ reflector' = "gone" /\ supervisor' = "gone"
    /\ UNCHANGED <<stall, version, seen, running>>

Run ==
    /\ reflector = "unstarted"
    /\ reflector' = "mirroring" /\ supervisor' = "syncing"
    /\ UNCHANGED <<state, stall, version, seen, running>>

-----------------------------------------------------------------------------
(* The reflector.                                                            *)

Mirrors == reflector \in {"mirroring", "failing"}

(* A list that succeeds or an event of the watch. A relist of a cluster      *)
(* where nothing changed brings the version it had.                          *)
Deliver ==
    /\ running /\ Mirrors
    /\ \E v \in {version, version + 1} : v \in 1 .. MaxVersion /\ version' = v
    /\ reflector' = "mirroring"
    /\ UNCHANGED <<state, stall, supervisor, seen, running>>

(* onWatchError: Forbidden condemns the store ...                            *)
Forbidden ==
    /\ running /\ Mirrors
    /\ reflector' = "failing"
    /\ state' = "degraded"
    /\ UNCHANGED <<stall, version, supervisor, seen, running>>

(* Mutant: demotes before it records.                                        *)
TransientErrorFlips ==
    /\ running /\ Mirrors
    /\ reflector' = "recording"
    /\ IF state = "serving"
       THEN state' = "starting" /\ demotedAt' = version
       ELSE UNCHANGED <<state, demotedAt>>
    /\ UNCHANGED <<stalled, version, supervisor, seen, running>>

(* ... and anything else stalls it, which is two statements.                 *)
TransientError ==
    /\ running /\ Mirrors
    /\ reflector' = "recording"
    /\ UNCHANGED <<state, stall, version, supervisor, seen, running>>

(* The version is recorded first,                                            *)
RecordStall ==
    /\ reflector = "recording"
    /\ reflector' = "flipping"
    /\ stalled' = version
    /\ UNCHANGED <<state, version, supervisor, seen, demotedAt, running>>

(* then a serving store, and only a serving one, goes back to starting.      *)
FlipStall ==
    /\ reflector = "flipping"
    /\ reflector' = "failing"
    /\ IF state = "serving"
       THEN state' = "starting" /\ demotedAt' = version
       ELSE UNCHANGED <<state, demotedAt>>
    /\ UNCHANGED <<stalled, version, supervisor, seen, running>>

-----------------------------------------------------------------------------
(* The supervising goroutine.                                                *)

(* WaitForCacheSync returns once the first list is in the store.             *)
Synced ==
    /\ supervisor = "syncing" /\ version > 0
    /\ supervisor' = "first"
    /\ UNCHANGED <<state, stall, version, reflector, seen, running>>

(* Mutant: a plain store where the compare-and-swap is.                      *)
FirstStore ==
    /\ supervisor = "first"
    /\ state' = "serving" /\ supervisor' = "idle"
    /\ UNCHANGED <<stall, version, reflector, seen, running>>

(* A compare-and-swap: a store condemned before it synced is left alone.     *)
FirstPromotion ==
    /\ supervisor = "first"
    /\ IF state = "starting"
       THEN state' = "serving" /\ supervisor' = "idle"
       ELSE supervisor' = "gone" /\ UNCHANGED state
    /\ UNCHANGED <<stall, version, reflector, seen, running>>

(* A tick reads the state: a condemned store needs no supervisor, a serving  *)
(* one no promotion.                                                         *)
Tick ==
    /\ supervisor = "idle" /\ state # "serving"
    /\ supervisor' = IF state = "degraded" THEN "gone" ELSE "stalled"
    /\ UNCHANGED <<state, stall, version, reflector, seen, running>>

ReadStalled ==
    /\ supervisor = "stalled"
    /\ seen' = stalled
    /\ supervisor' = IF stalled = None THEN "idle" ELSE "version"
    /\ UNCHANGED <<state, stall, version, reflector, running>>

(* A version other than the recorded one is the evidence.                    *)
ReadVersion ==
    /\ supervisor = "version"
    /\ supervisor' = IF version \in {0, seen} THEN "idle" ELSE "promote"
    /\ UNCHANGED <<state, stall, version, reflector, seen, running>>

(* Mutant: the two values of the compare-and-swap exchanged.                 *)
PromoteSwapped ==
    /\ supervisor = "promote"
    /\ supervisor' = "idle"
    /\ state' = IF state = "serving" THEN "starting" ELSE state
    /\ UNCHANGED <<stall, version, reflector, seen, running>>

Promote ==
    /\ supervisor = "promote"
    /\ supervisor' = "idle"
    /\ state' = IF state = "starting" THEN "serving" ELSE state
    /\ UNCHANGED <<stall, version, reflector, seen, running>>

-----------------------------------------------------------------------------
(* The set is cancelled: both goroutines end at their next wait.             *)

Cancel ==
    /\ running
    /\ running' = FALSE
    /\ UNCHANGED <<state, stall, version, reflector, supervisor, seen>>

ReflectorEnds ==
    /\ ~running /\ Mirrors
    /\ reflector' = "gone"
    /\ UNCHANGED <<state, stall, version, supervisor, seen, running>>

(* Mutant: a supervisor that only its ticker wakes.                          *)
SupervisorTicks ==
    /\ ~running /\ supervisor = "syncing"
    /\ supervisor' = "gone"
    /\ UNCHANGED <<state, stall, version, reflector, seen, running>>

SupervisorEnds ==
    /\ ~running /\ supervisor \in {"syncing", "idle"}
    /\ supervisor' = "gone"
    /\ UNCHANGED <<state, stall, version, reflector, seen, running>>

Start == NotWatched \/ Run
Handler == RecordStall \/ FlipStall
Reflector == Deliver \/ Forbidden \/ TransientError \/ Handler \/ ReflectorEnds
Checks == Synced \/ FirstPromotion \/ Tick \/ ReadStalled \/ ReadVersion \/ Promote
Supervisor == Checks \/ SupervisorEnds
Next == Start \/ Reflector \/ Supervisor \/ Cancel

(* Every goroutine runs and the ticker ticks. A select that finds its ticker *)
(* and its cancelled context ready picks at random, hence the strong         *)
(* fairness. What the cluster answers, and when, is not assumed.             *)
Fairness ==
    /\ WF_vars(Start) /\ WF_vars(Handler) /\ WF_vars(ReflectorEnds)
    /\ WF_vars(Checks) /\ SF_vars(SupervisorEnds)

Spec == Init /\ [][Next]_vars
FairSpec == Spec /\ Fairness

-----------------------------------------------------------------------------
(* A refusal is for good: nothing brings a condemned store back, not a first *)
(* promotion and not a supervisor already on its way to promote it.          *)
CondemnedForGood == [][state = "degraded" => state' = "degraded"]_vars

(* A store answers reads only with a list in it.                             *)
ServesOnlySynced == state = "serving" => version > 0

(* "On evidence, never on time passing": a demoted store serves again only   *)
(* when its reflector has moved past the version it was demoted at.          *)
PromotedOnEvidence ==
    [][state = "starting" /\ demotedAt # None /\ state' = "serving"
         => version > demotedAt]_vars

(* "It must be recoverable": a reflector that has moved past the stall gets  *)
(* its store back, unless it stalls again, is condemned or is torn down.     *)
Stalled == version \in {0, stalled}
Recovers ==
    state = "starting" /\ supervisor # "unstarted" /\ ~Stalled
        ~> state # "starting" \/ Stalled \/ ~running

(* A cancelled set ends: set.done closes when both goroutines returned.      *)
Ends == ~running ~> reflector = "gone" /\ supervisor = "gone"

-----------------------------------------------------------------------------
(* What a comment of watch.go says of the state word and the code lets happen.*)

(* "watchServing means the store is synced and its watch is healthy."        *)
ServingIsHealthy == state = "serving" => reflector # "failing"

-----------------------------------------------------------------------------
(* The inductive invariant. A stall is recorded before it demotes, and only  *)
(* the supervisor promotes, so from the moment it finds the store starting   *)
(* to its compare-and-swap no stall can demote anything.                     *)
StallsInOrder ==
    /\ demotedAt <= stalled /\ stalled <= version
    /\ reflector = "flipping" => stalled = version

(* Where the supervisor is says whether the store can be serving.            *)
SupervisorKnows ==
    /\ reflector = "unstarted" <=> supervisor = "unstarted"
    /\ supervisor \in {"unstarted", "syncing", "first"}
         => state # "serving" /\ demotedAt = None
    /\ supervisor \in {"stalled", "version", "promote"} => state # "serving"
    /\ supervisor \notin {"unstarted", "syncing", "gone"} => version > 0
    /\ supervisor \in {"version", "promote"} => demotedAt <= seen /\ seen <= version
    /\ supervisor = "promote" => seen < version

(* A store that can still come back has a supervisor, and one that was        *)
(* serving a record to come back by, no older than what that has read of it.  *)
SupervisorStays ==
    /\ running /\ supervisor = "gone" => state = "degraded"
    /\ supervisor \in {"idle", "stalled", "version", "promote"} /\ state = "starting"
         => stalled # None
    /\ supervisor \in {"version", "promote"} => seen <= stalled

IInv ==
    /\ TypeOK /\ StallsInOrder /\ SupervisorKnows /\ SupervisorStays
    /\ ServesOnlySynced
=============================================================================
