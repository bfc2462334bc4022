------------------------------- MODULE Shells -------------------------------
(* The shells PodSteer owns: node shells and in-cluster shells, each a pod   *)
(* (src/app/adapters/k8s/nodeshell.go and clustershell.go), and local shells,*)
(* each a process (src/app/adapters/localshell/localshell.go); the sessions  *)
(* of src/app/adapters/wails/terminal.go that use them up; and the part of   *)
(* main's OnShutdown that sweeps the three registries before it exits.       *)
(*                                                                          *)
(* A session is one start, or one adoption, and what follows from it; its    *)
(* shell's record is in the registry under the session's name. A pod exists  *)
(* until it is deleted, whether its shell still runs or not. Sessions that   *)
(* own nothing (exec, debug) are left out.                                   *)

CONSTANTS
    Sessions,
    Pods,       \* names of shell pods, none of them used twice
    None

ASSUME ShellsAssumption == None \notin Sessions \cup Pods

PodKinds == {"node", "cluster"}
Kinds == PodKinds \cup {"local"}

VARIABLES
    cluster,    \* what the API server has under each name
    mine,       \* history: the pods this process created or adopted
    lost,       \* history: those whose creation went unanswered or whose deletion failed
    kind, pc,   \* of each session
    pod,        \* the pod of each session, or None
    proc,       \* the process of a local session
    overlay,    \* the sessions whose context directory is on disk
    leftBehind, \* history: those whose directory could not be removed
    registry,   \* the three byID maps: who has a record
    closed,     \* the kinds whose registry is closed
    shutdown,   \* up, the kind being swept, or exited
    taken,      \* the records the sweep has in hand
    cleared,    \* those the window's stop controls have in hand
    at,         \* the local session the sweep waits for, or None
    asked,      \* whether the window asked a local session to stop
    signalled   \* the last signal sent to a process

pods == <<cluster, mine, lost>>
directories == <<overlay, leftBehind>>
processes == <<proc, directories, asked, signalled>>
sweeping == <<closed, shutdown, taken, cleared, at>>
vars == <<pods, kind, pc, pod, processes, registry, sweeping>>

InHand == {"waiting", "register", "undo", "deleting"}

TypeOK ==
    /\ cluster \in [Pods -> {"absent", "starting", "running", "ended", "deleted"}]
    /\ mine \in SUBSET Pods /\ lost \in SUBSET Pods
    /\ kind \in [Sessions -> Kinds \cup {"none"}]
    /\ pc \in [Sessions -> InHand \cup {"idle", "offered", "attached", "ending", "retiring", "done"}]
    /\ pod \in [Sessions -> Pods \cup {None}]
    /\ proc \in [Sessions -> {"none", "running", "exited"}]
    /\ overlay \in SUBSET Sessions /\ leftBehind \in SUBSET Sessions
    /\ registry \in SUBSET Sessions
    /\ closed \in SUBSET Kinds
    /\ shutdown \in Kinds \cup {"up", "exited"}
    /\ taken \in SUBSET Sessions /\ cleared \in SUBSET Sessions /\ at \in Sessions \cup {None}
    /\ asked \in [Sessions -> {"no", "waits", "returned"}]
    /\ signalled \in [Sessions -> {"none", "hangup", "kill"}]

(* A launch may find in-cluster shells that an earlier one left behind.      *)
Init ==
    /\ cluster \in [Pods -> {"absent", "running"}]
    /\ mine = {} /\ lost = {}
    /\ kind = [c \in Sessions |-> "none"] /\ pc = [c \in Sessions |-> "idle"]
    /\ pod = [c \in Sessions |-> None]
    /\ proc = [c \in Sessions |-> "none"] /\ overlay = {} /\ leftBehind = {}
    /\ registry = {} /\ closed = {} /\ shutdown = "up"
    /\ taken = {} /\ cleared = {} /\ at = None
    /\ asked = [c \in Sessions |-> "no"] /\ signalled = [c \in Sessions |-> "none"]

Up == shutdown # "exited"
Goes(c, from, to) == Up /\ pc[c] = from /\ pc' = [pc EXCEPT ![c] = to]
Exists(p) == cluster[p] \in {"starting", "running", "ended"}

-----------------------------------------------------------------------------
(* The API server and the kubelet.                                           *)

(* A shell starts, exits, cannot start, or reaches its deadline.             *)
PodGoes(p) ==
    /\ Up
    /\ \/ cluster[p] = "starting" /\ cluster' = [cluster EXCEPT ![p] = "running"]
       \/ cluster[p] \in {"starting", "running"} /\ cluster' = [cluster EXCEPT ![p] = "ended"]
    /\ UNCHANGED <<mine, lost, kind, pc, pod, processes, registry, sweeping>>

(* A delete with a deadline of its own: done, or given up.                   *)
Delete(p) ==
    /\ \/ cluster' = [cluster EXCEPT ![p] = "deleted"] /\ UNCHANGED lost
       \/ lost' = lost \cup {p} /\ UNCHANGED cluster
    /\ UNCHANGED mine

-----------------------------------------------------------------------------
(* Starting and adopting pods.                                               *)

Begins(c, k) ==
    /\ Up /\ pc[c] = "idle"
    /\ kind' = [kind EXCEPT ![c] = k]

Create(c, k, p) ==
    /\ Begins(c, k) /\ cluster[p] = "absent"
    /\ cluster' = [cluster EXCEPT ![p] = "starting"]
    /\ mine' = mine \cup {p}
    /\ pod' = [pod EXCEPT ![c] = p]

(* StartNodeShell, StartClusterShell: the pod is created, and waited for.    *)
Created(c, k, p) ==
    /\ Create(c, k, p)
    /\ pc' = [pc EXCEPT ![c] = "waiting"]
    /\ UNCHANGED <<lost, processes, registry, sweeping>>

(* The request fails although the server acted on it: the start is over.     *)
CreateUnanswered(c, k, p) ==
    /\ Create(c, k, p)
    /\ lost' = lost \cup {p}
    /\ pc' = [pc EXCEPT ![c] = "done"]
    /\ UNCHANGED <<processes, registry, sweeping>>

(* waitPodRunning succeeds,                                                  *)
PodRuns(c) ==
    /\ Goes(c, "waiting", "register") /\ cluster[pod[c]] = "running"
    /\ UNCHANGED <<pods, kind, pod, processes, registry, sweeping>>

(* or fails: the pod ended, is stuck, or takes too long.                     *)
WaitFails(c) ==
    /\ Goes(c, "waiting", "undo")
    /\ UNCHANGED <<pods, kind, pod, processes, registry, sweeping>>

(* FindClusterShells: a running pod of ours that has no record here.         *)
Offer(c, p) ==
    /\ Begins(c, "cluster") /\ cluster[p] = "running"
    /\ \A d \in Sessions : pod[d] = p => kind[d] = "cluster" /\ d \notin registry
    /\ pc' = [pc EXCEPT ![c] = "offered"]
    /\ pod' = [pod EXCEPT ![c] = p]
    /\ UNCHANGED <<pods, processes, registry, sweeping>>

(* AdoptClusterShell, once the operator chose it and if it still runs.       *)
Adopt(c) ==
    /\ Goes(c, "offered", "register") /\ cluster[pod[c]] = "running"
    /\ mine' = mine \cup {pod[c]}
    /\ UNCHANGED <<cluster, lost, kind, pod, processes, registry, sweeping>>

-----------------------------------------------------------------------------
(* Registering, and what a registry that is closed leaves to do.             *)

(* StartLocalShell: the context's directory and the process.                 *)
StartProcess(c) ==
    /\ Begins(c, "local")
    /\ proc' = [proc EXCEPT ![c] = "running"]
    /\ \E files \in BOOLEAN : overlay' = IF files THEN overlay \cup {c} ELSE overlay
    /\ pc' = [pc EXCEPT ![c] = "register"]
    /\ UNCHANGED <<pods, pod, leftBehind, asked, signalled, registry, sweeping>>

(* No terminal can be opened: the directory is dropped again.                *)
NotStarted(c) ==
    /\ Begins(c, "local")
    /\ \/ UNCHANGED directories
       \/ overlay' = overlay \cup {c} /\ leftBehind' = leftBehind \cup {c}
    /\ pc' = [pc EXCEPT ![c] = "done"]
    /\ UNCHANGED <<pods, pod, proc, asked, signalled, registry, sweeping>>

(* Mutant: does not look at closed.                                          *)
RegisterAnyway(c) ==
    /\ registry' = registry \cup {c} /\ Goes(c, "register", "attached")
    /\ UNCHANGED <<pods, kind, pod, processes, sweeping>>

(* Under the lock. The session is opened, or the pump started, next.         *)
Register(c) ==
    /\ \/ kind[c] \notin closed /\ registry' = registry \cup {c} /\ Goes(c, "register", "attached")
       \/ kind[c] \in closed /\ UNCHANGED registry /\ Goes(c, "register", "undo")
    /\ UNCHANGED <<pods, kind, pod, processes, sweeping>>

UndoPod(c) ==
    /\ kind[c] \in PodKinds /\ Goes(c, "undo", "done")
    /\ Delete(pod[c])
    /\ UNCHANGED <<kind, pod, processes, registry, sweeping>>

(* dropOverlay: best effort, a directory that stays is logged.               *)
DropOverlay(c) ==
    \/ overlay' = overlay \ {c} /\ UNCHANGED leftBehind
    \/ c \in overlay /\ leftBehind' = leftBehind \cup {c} /\ UNCHANGED overlay

(* Hang up, kill, reap, and drop the directory.                              *)
UndoProcess(c) ==
    /\ kind[c] = "local" /\ Goes(c, "undo", "done")
    /\ proc' = [proc EXCEPT ![c] = "exited"]
    /\ DropOverlay(c)
    /\ UNCHANGED <<pods, kind, pod, asked, signalled, registry, sweeping>>

-----------------------------------------------------------------------------
(* The end of a session on a pod: openAttachSession's deferred clean-up.     *)

(* The stream ends, or the window stops the session.                         *)
SessionEnds(c) ==
    /\ kind[c] \in PodKinds /\ Goes(c, "attached", "ending")
    /\ UNCHANGED <<pods, kind, pod, processes, registry, sweeping>>

(* Mutant: the record stays until the pod is gone, and longer.               *)
StopKeeps(c) ==
    /\ c \in registry /\ Goes(c, "ending", "deleting")
    /\ UNCHANGED <<pods, kind, pod, processes, registry, sweeping>>

(* onExit: StopNodeShell, StopClusterShell take the record, if it is there,  *)
StopTakes(c) ==
    /\ Goes(c, "ending", IF c \in registry THEN "deleting" ELSE "done")
    /\ registry' = registry \ {c}
    /\ UNCHANGED <<pods, kind, pod, processes, sweeping>>

(* and delete the pod.                                                       *)
StopDeletes(c) ==
    /\ Goes(c, "deleting", "done")
    /\ Delete(pod[c])
    /\ UNCHANGED <<kind, pod, processes, registry, sweeping>>

-----------------------------------------------------------------------------
(* Local shells: the process, its pump, and end.                             *)

ProcessExits(c) ==
    /\ Up /\ pc[c] \in {"register", "attached"} /\ proc[c] = "running"
    /\ proc' = [proc EXCEPT ![c] = "exited"]
    /\ UNCHANGED <<pods, kind, pc, pod, directories, asked, signalled, registry, sweeping>>

Dies(c) == signalled[c] = "kill" /\ ProcessExits(c)

(* Mutant: done is closed before the directory is dropped.                   *)
RetireEarly(c) ==
    /\ proc[c] = "exited" /\ Goes(c, "attached", "done")
    /\ registry' = registry \ {c}
    /\ UNCHANGED <<pods, kind, pod, processes, sweeping>>

(* pump: reaped, then out of the registry,                                   *)
Retire(c) ==
    /\ proc[c] = "exited" /\ Goes(c, "attached", "retiring")
    /\ registry' = registry \ {c}
    /\ UNCHANGED <<pods, kind, pod, processes, sweeping>>

(* then the directory, if it goes, and done is closed.                       *)
Retired(c) ==
    /\ Goes(c, "retiring", "done")
    /\ DropOverlay(c)
    /\ UNCHANGED <<pods, kind, pod, proc, asked, signalled, registry, sweeping>>

(* StopLocalShell: nothing to do for a session without a record.             *)
Ask(c) ==
    /\ Up /\ kind[c] = "local" /\ c \in registry /\ asked[c] = "no"
    /\ asked' = [asked EXCEPT ![c] = "waits"]
    /\ UNCHANGED <<pods, kind, pc, pod, proc, directories, signalled, registry, sweeping>>

(* end is entered by the window and by the sweep, and hangs up once.         *)
Ending(c) == asked[c] = "waits" \/ at = c

Signals(c, from, to) ==
    /\ Up /\ Ending(c) /\ signalled[c] = from
    /\ signalled' = [signalled EXCEPT ![c] = to]
    /\ UNCHANGED <<pods, kind, pc, pod, proc, directories, asked, registry, sweeping>>

Hangup(c) == Signals(c, "none", "hangup")

(* Mutant: once more, politely.                                              *)
KillGently(c) == pc[c] # "done" /\ Signals(c, "hangup", "hangup")

(* The grace period is over, and done is not closed.                         *)
Kill(c) == pc[c] # "done" /\ Signals(c, "hangup", "kill")

StopReturns(c) ==
    /\ Up /\ asked[c] = "waits" /\ pc[c] = "done"
    /\ asked' = [asked EXCEPT ![c] = "returned"]
    /\ UNCHANGED <<pods, kind, pc, pod, proc, directories, signalled, registry, sweeping>>

-----------------------------------------------------------------------------
(* The activity list of the window: Stop, and Stop all, for shells on pods.  *)

OfKind(k) == {c \in registry : kind[c] = k}

(* StopNodeShell, StopClusterShell: the record is taken,                     *)
WindowStops(c) ==
    /\ Up /\ c \in registry /\ kind[c] \in PodKinds
    /\ registry' = registry \ {c} /\ cleared' = cleared \cup {c}
    /\ UNCHANGED <<pods, kind, pc, pod, processes, closed, shutdown, taken, at>>

(* StopAllNodeShells, StopAllClusterShells: all are, and the registry closes,*)
WindowStopsAll(k) ==
    /\ Up
    /\ closed' = closed \cup {k}
    /\ cleared' = cleared \cup OfKind(k) /\ registry' = registry \ OfKind(k)
    /\ UNCHANGED <<pods, kind, pc, pod, processes, shutdown, taken, at>>

(* and the pods are deleted.                                                 *)
WindowDeletes(c) ==
    /\ Up /\ c \in cleared
    /\ Delete(pod[c])
    /\ cleared' = cleared \ {c}
    /\ UNCHANGED <<kind, pc, pod, processes, registry, closed, shutdown, taken, at>>

-----------------------------------------------------------------------------
(* OnShutdown: StopAllNodeShells, StopAllClusterShells, StopAllLocalShells.  *)

(* The registry closes and is copied; those of the pods are emptied.         *)
StopAll(k) ==
    /\ shutdown' = k
    /\ closed' = closed \cup {k}
    /\ taken' = OfKind(k)
    /\ registry' = IF k = "local" THEN registry ELSE registry \ OfKind(k)
    /\ UNCHANGED <<pods, kind, pc, pod, processes, cleared, at>>

SweepBegins == shutdown = "up" /\ StopAll("node")
SweepGoesOn ==
    /\ taken = {}
    /\ \/ shutdown = "node" /\ StopAll("cluster")
       \/ shutdown = "cluster" /\ StopAll("local")

SweepDeletes(c) ==
    /\ shutdown \in PodKinds /\ c \in taken
    /\ Delete(pod[c])
    /\ taken' = taken \ {c}
    /\ UNCHANGED <<kind, pc, pod, processes, registry, closed, shutdown, cleared, at>>

SweepEnds(c) ==
    /\ shutdown = "local" /\ at = None /\ c \in taken
    /\ at' = c
    /\ UNCHANGED <<pods, kind, pc, pod, processes, registry, closed, shutdown, taken, cleared>>

SweepWaited(c) ==
    /\ at = c /\ pc[c] = "done"
    /\ at' = None /\ taken' = taken \ {c}
    /\ UNCHANGED <<pods, kind, pc, pod, processes, registry, closed, shutdown, cleared>>

(* What is left of OnShutdown holds no shell. Every goroutine ends here.     *)
Exit ==
    /\ shutdown = "local" /\ taken = {}
    /\ shutdown' = "exited"
    /\ UNCHANGED <<pods, kind, pc, pod, processes, registry, closed, taken, cleared, at>>

-----------------------------------------------------------------------------
PodStarts(c) ==
    \E p \in Pods :
       \/ \E k \in PodKinds : Created(c, k, p) \/ CreateUnanswered(c, k, p)
       \/ Offer(c, p)
Starts(c) == PodStarts(c) \/ Adopt(c) \/ StartProcess(c) \/ NotStarted(c)
Settles(c) ==
    PodRuns(c) \/ WaitFails(c) \/ Register(c) \/ UndoPod(c) \/ UndoProcess(c)
CleansUp(c) == StopTakes(c) \/ StopDeletes(c)
Stops(c) == SessionEnds(c) \/ CleansUp(c)
Pumps(c) == Retire(c) \/ Retired(c)
Ends(c) == Hangup(c) \/ Kill(c) \/ StopReturns(c)
Sweeps(c) == SweepDeletes(c) \/ SweepEnds(c) \/ SweepWaited(c)

Next ==
    \/ \E p \in Pods : PodGoes(p)
    \/ \E c \in Sessions :
          \/ Starts(c) \/ Settles(c) \/ Stops(c)
          \/ WindowStops(c) \/ WindowDeletes(c)
          \/ ProcessExits(c) \/ Pumps(c) \/ Ask(c) \/ Ends(c) \/ Sweeps(c)
    \/ \E k \in PodKinds : WindowStopsAll(k)
    \/ SweepBegins \/ SweepGoesOn \/ Exit

(* Requests end at their deadlines, timers fire, a killed process dies and   *)
(* is reaped, and OnShutdown runs on. Nobody has to start or stop a shell,   *)
(* and no process has to heed a hangup.                                      *)
Runs(c) ==
    /\ WF_vars(Settles(c)) /\ WF_vars(CleansUp(c))
    /\ WF_vars(Dies(c)) /\ WF_vars(Pumps(c))
    /\ WF_vars(Ends(c)) /\ WF_vars(Sweeps(c))
ShutsDown == WF_vars(SweepGoesOn \/ Exit)
Fairness == (\A c \in Sessions : Runs(c)) /\ ShutsDown

Spec == Init /\ [][Next]_vars
FairSpec == Spec /\ Fairness

-----------------------------------------------------------------------------
(* Whose: a record somebody will still read, a record in a sweep's or a stop *)
(* control's hands, or a call that has not returned.                         *)
Answers(c) ==
    \/ c \in registry /\ kind[c] \notin closed
    \/ c \in taken \/ c \in cleared
    \/ pc[c] \in InHand

(* Nothing PodSteer started is forgotten while it is there: somebody will    *)
(* delete the pod unless that was tried and failed, somebody will reap the   *)
(* process, and remove its directory unless that was tried and failed too.   *)
(* At the exit that leaves what calls still had in hand, which nobody waits  *)
(* for.                                                                      *)
PodsAreAnswered ==
    \A p \in mine : Exists(p) => p \in lost \/ \E c \in Sessions : pod[c] = p /\ Answers(c)
ProcessesAreAnswered ==
    \A c \in Sessions :
      /\ proc[c] = "running" => Answers(c)
      /\ c \in overlay \ leftBehind => Answers(c) \/ pc[c] = "retiring"
NothingForgotten == PodsAreAnswered /\ ProcessesAreAnswered

(* A shell in the list has its pod: nobody deleted it and kept the record.   *)
(* But for an in-cluster shell that was adopted by two sessions.             *)
NoGhostShell ==
    \A c \in registry : kind[c] \in PodKinds /\ cluster[pod[c]] = "deleted" =>
        kind[c] = "cluster" /\ \E d \in Sessions \ {c} : pod[d] = pod[c]

(* Stopped means gone: the process reaped, the record and the directory too, *)
(* or its removal was tried, failed and logged.                              *)
StoppedIsGone ==
    \A c \in Sessions : asked[c] = "returned" =>
        proc[c] = "exited" /\ c \notin registry /\ c \notin overlay \ leftBehind

(* "PodSteer is shutting down", a start is told only when it is.             *)
(* nodeshell.go:84: closed is set and never cleared: "the process is on its  *)
(* way out".                                                                 *)
OnlyLeavingRefuses ==
    [][\A c \in Sessions : pc[c] = "register" /\ pc'[c] = "undo" => shutdown # "up"]_vars

(* The application exits however its shells behave.                          *)
ShutdownEnds == shutdown # "up" ~> shutdown = "exited"

(* A start ends with a session or with nothing left of it, and a session's   *)
(* end with its clean-up done: nobody keeps a pod in hand for ever.          *)
CallsReturn ==
    \A c \in Sessions :
      /\ pc[c] \in {"waiting", "register", "undo"} ~> pc[c] \in {"attached", "done"} \/ ~Up
      /\ pc[c] \in {"ending", "deleting"} ~> pc[c] = "done" \/ ~Up

(* A stop of a local shell returns, and the sweep moves on to the next one,  *)
(* though the shell ignores its hangup and whoever else ends it too.         *)
EndsReturn ==
    \A c \in Sessions :
      /\ asked[c] = "waits" ~> asked[c] = "returned" \/ ~Up
      /\ at = c ~> at # c

-----------------------------------------------------------------------------
(* Why they hold: the inductive invariant of ShellsProofs.                   *)

(* A session on a pod has its name, and shares it only by adopting it.       *)
Owned ==
    \A c \in Sessions :
      /\ pc[c] = "idle" <=> kind[c] = "none"
      /\ kind[c] \in PodKinds => pod[c] \in Pods /\ cluster[pod[c]] # "absent"
      /\ kind[c] \notin PodKinds => pod[c] = None
      /\ pc[c] = "offered" => kind[c] = "cluster"
Shared ==
    \A c, d \in Sessions : pod[c] = pod[d] /\ pod[c] # None => c = d \/ kind[c] = "cluster"

(* A record is in the registry or in one pair of hands, and its session has  *)
(* gone as far as that.                                                      *)
Held ==
    \A c \in Sessions :
      /\ c \in registry => pc[c] \in {"attached", "ending"}
      /\ c \in registry /\ kind[c] \in PodKinds =>
           c \notin taken \cup cleared /\ kind[c] \notin closed
      /\ c \in taken \cup cleared /\ kind[c] \in PodKinds => pc[c] \in {"attached", "ending", "done"}
      /\ c \in cleared => kind[c] \in PodKinds

(* A local session is what its process and its directory are.                *)
Local ==
    \A c \in Sessions :
      /\ kind[c] # "local" => proc[c] = "none" /\ c \notin overlay /\ asked[c] = "no"
      /\ kind[c] = "local" =>
           /\ pc[c] \in {"register", "attached", "retiring", "undo", "done"}
           /\ pc[c] = "attached" <=> c \in registry
           /\ proc[c] = "none" => pc[c] = "done" /\ asked[c] = "no"
           /\ proc[c] = "running" => pc[c] \in {"register", "attached", "undo"}
           /\ c \in overlay \ leftBehind => pc[c] # "done"
           /\ pc[c] = "attached" /\ "local" \in closed => c \in taken
           /\ asked[c] = "returned" => pc[c] = "done"
           /\ asked[c] # "no" \/ c \in taken => pc[c] \in {"attached", "retiring", "done"}

(* What the sweep has in hand is of the kind it is at.                       *)
Sweeping ==
    /\ \A c \in taken : kind[c] = shutdown
    /\ "local" \in closed <=> shutdown \in {"local", "exited"}
    /\ at # None => at \in taken /\ shutdown = "local"

(* A shell that is gone before its record is made was taken over twice.      *)
Ghosts ==
    \A c \in Sessions :
        /\ kind[c] \in PodKinds /\ cluster[pod[c]] = "deleted"
        /\ c \in registry \/ pc[c] \in {"waiting", "register"}
        => kind[c] = "cluster" /\ \E d \in Sessions \ {c} : pod[d] = pod[c]

IInv ==
    /\ TypeOK /\ Owned /\ Shared /\ Held /\ Local /\ Sweeping /\ Ghosts
    /\ NothingForgotten
=============================================================================
