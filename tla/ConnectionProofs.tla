-------------------------- MODULE ConnectionProofs --------------------------
(***************************************************************************)
(* Connection for any number of calls, restores and ports.  Answered is    *)
(* the key: a disconnect takes the keeper's entry in the step it starts to *)
(* wait for it, so no restore is ever without somebody who answers for it. *)
(***************************************************************************)
EXTENDS Connection, TLAPS

LEMMA IInvInit == Init => IInv
  BY ConnectionAssumption
  DEF Init, IInv, TypeOK, Answered, Covered, NothingLeftBehind, Exited,
      ClosedKeeperIsQuiet, Reaching, Waiting, Leaving, Workers, CallSteps, RunSteps,
      StartSteps, PortSteps

(***************************************************************************)
(* Types, one actor at a time.                                             *)
(***************************************************************************)
LEMMA CallType ==
  ASSUME IInv, NEW c \in Calls,
         Connect(c) \/ Disconnect(c) \/ Resume(c) \/ StartByHand(c) \/
         Look(c) \/ Forget(c) \/ Discover(c) \/ ClusterConnected(c) \/
         ForgetKinds(c) \/ ClusterDisconnected(c) \/ Waited(c) \/
         Sweep(c) \/ Keep(c) \/ ForgetLive(c) \/ ClearFailure(c) \/
         Stop(c)
  PROVE  TypeOK'
  <1> USE ConnectionAssumption
      DEF IInv, TypeOK, Workers, StartSteps, PortSteps, CallSteps, RunSteps,
          Goto, Fresh, Live, Closed, tab, keeper, workers
  <1>1. CASE Connect(c)
    BY <1>1 DEF Connect
  <1>2. CASE Disconnect(c)
    BY <1>2 DEF Disconnect
  <1>3. CASE Resume(c)
    BY <1>3 DEF Resume
  <1>4. CASE StartByHand(c)
    BY <1>4 DEF StartByHand
  <1>5. CASE Look(c)
    <2>1. PICK p \in Ports :
            /\ Live(p)
            /\ port' = [port EXCEPT ![c] = p]
            /\ \/ Goto(c, "keep") /\ UNCHANGED on
               \/ Goto(c, "unkeep") /\ on' = [on EXCEPT ![c] = live[p]]
      BY <1>5 DEF Look
    <2>2. /\ pc' \in {[pc EXCEPT ![c] = to] : to \in {"keep", "unkeep"}}
          /\ on' \in [Calls -> Workers \cup {NoOne}]
      BY <2>1
    <2>3. UNCHANGED <<tab, keeper, live, todo, exit>>
      BY <1>5 DEF Look
    <2> QED
      BY <2>1, <2>2, <2>3
  <1>6. CASE Forget(c)
    BY <1>6 DEF Forget
  <1>7. CASE Discover(c)
    BY <1>7 DEF Discover
  <1>8. CASE ClusterConnected(c)
    BY <1>8 DEF ClusterConnected
  <1>9. CASE ForgetKinds(c)
    BY <1>9 DEF ForgetKinds
  <1>10. CASE ClusterDisconnected(c)
    BY <1>10 DEF ClusterDisconnected
  <1>11. CASE Waited(c)
    BY <1>11 DEF Waited
  <1>12. CASE Sweep(c)
    BY <1>12 DEF Sweep
  <1>13. CASE Keep(c)
    BY <1>13 DEF Keep
  <1>14. CASE ForgetLive(c)
    <2>1. PICK to \in {"clearStop", "stop"} :
            /\ pc[c] = "unkeep" /\ kept' \subseteq Ports
            /\ pc' = [pc EXCEPT ![c] = to]
            /\ UNCHANGED <<tab, failures, restoring, cancelled, live, workers, exit>>
      BY <1>14 DEF ForgetLive
    <2> QED
      BY <2>1
  <1>15. CASE ClearFailure(c)
    BY <1>15 DEF ClearFailure
  <1>16. CASE Stop(c)
    <2>1. live' \in [Ports -> Workers \cup {NoOne}]
      BY <1>16 DEF Stop
    <2>2. /\ pc' = [pc EXCEPT ![c] = "done"]
          /\ UNCHANGED <<tab, keeper, workers, exit>>
      BY <1>16 DEF Stop
    <2> QED
      BY <2>1, <2>2
  <1> QED
    BY <1>1, <1>2, <1>3, <1>4, <1>5, <1>6, <1>7, <1>8, <1>9, <1>10,
       <1>11, <1>12, <1>13, <1>14, <1>15, <1>16

LEMMA StarterType ==
  ASSUME IInv, NEW w \in Workers,
         Permit(w) \/ Resolve(w) \/ Confirm(w) \/ Start(w) \/
         Record(w)
  PROVE  TypeOK'
  <1> USE ConnectionAssumption
      DEF IInv, TypeOK, Workers, StartSteps, PortSteps, CallSteps, RunSteps,
          Goto, Live, Permitted, tab, keeper, workers
  <1>1. CASE Permit(w)
    BY <1>1 DEF Permit
  <1>2. CASE Resolve(w)
    BY <1>2 DEF Resolve
  <1>3. CASE Confirm(w)
    BY <1>3 DEF Confirm
  <1>4. CASE Start(w)
    BY <1>4 DEF Start
  <1>5. CASE Record(w)
    BY <1>5 DEF Record
  <1> QED
    BY <1>1, <1>2, <1>3, <1>4, <1>5

LEMMA RunType ==
  ASSUME IInv, NEW r \in Runs,
         Load(r) \/ StopLoop(r) \/ NextKept(r) \/ Finish(r) \/
         Leave(r) \/ Panic(r)
  PROVE  TypeOK'
  <1> USE ConnectionAssumption
      DEF IInv, TypeOK, Workers, StartSteps, PortSteps, CallSteps, RunSteps,
          Goto, Live, tab, keeper, workers
  <1>1. CASE Load(r)
    BY <1>1 DEF Load
  <1>2. CASE StopLoop(r)
    BY <1>2 DEF StopLoop
  <1>3. CASE NextKept(r)
    BY <1>3 DEF NextKept
  <1>4. CASE Finish(r)
    BY <1>4 DEF Finish
  <1>5. CASE Leave(r)
    BY <1>5 DEF Leave
  <1>6. CASE Panic(r)
    BY <1>6 DEF Panic
  <1> QED
    BY <1>1, <1>2, <1>3, <1>4, <1>5, <1>6

LEMMA OtherType ==
  ASSUME IInv,
         ReconnectClusters \/ CloseKeeper \/ CancelAll \/ WaitAll \/
         StopAllPortForwards
  PROVE  TypeOK'
  <1> USE ConnectionAssumption
      DEF IInv, TypeOK, Workers, StartSteps, PortSteps, CallSteps, RunSteps,
          Goto, tab, keeper, workers
  <1>1. CASE ReconnectClusters
    BY <1>1 DEF ReconnectClusters
  <1>2. CASE CloseKeeper
    BY <1>2 DEF CloseKeeper
  <1>3. CASE CancelAll
    BY <1>3 DEF CancelAll
  <1>4. CASE WaitAll
    BY <1>4 DEF WaitAll
  <1>5. CASE StopAllPortForwards
    BY <1>5 DEF StopAllPortForwards
  <1> QED
    BY <1>1, <1>2, <1>3, <1>4, <1>5

(***************************************************************************)
(* The other parts of the invariant.                                       *)
(***************************************************************************)
LEMMA CallStep ==
  ASSUME IInv, NEW c \in Calls,
         Connect(c) \/ Disconnect(c) \/ Resume(c) \/ StartByHand(c) \/
         Look(c) \/ Forget(c) \/ Discover(c) \/ ClusterConnected(c) \/
         ForgetKinds(c) \/ ClusterDisconnected(c) \/ Waited(c) \/
         Sweep(c) \/ Keep(c) \/ ForgetLive(c) \/ ClearFailure(c) \/
         Stop(c)
  PROVE  Answered' /\ Covered' /\ NothingLeftBehind' /\ Exited'
  <1> USE ConnectionAssumption
      DEF IInv, TypeOK, Workers, StartSteps, PortSteps, CallSteps, RunSteps,
          Goto, Fresh, Live, Closed, tab, keeper, workers
  <1>1. CASE Connect(c)
    <2> USE <1>1 DEF Connect
    <2>1. Answered'
      BY DEF Answered, Waiting
    <2>2. Covered'
      BY DEF Answered, Covered, Reaching, Waiting
    <2>3. NothingLeftBehind'
      BY DEF NothingLeftBehind, Leaving, Covered, Reaching, Waiting
    <2>4. Exited'
      BY DEF Exited, ClosedKeeperIsQuiet
    <2> QED
      BY <2>1, <2>2, <2>3, <2>4
  <1>2. CASE Disconnect(c)
    <2> USE <1>2 DEF Disconnect
    <2>1. Answered'
      BY DEF Answered, Waiting
    <2>2. Covered'
      BY DEF Answered, Covered, Reaching, Waiting
    <2>3. NothingLeftBehind'
      BY DEF NothingLeftBehind, Leaving, Covered, Reaching, Waiting
    <2>4. Exited'
      BY DEF Exited, ClosedKeeperIsQuiet
    <2> QED
      BY <2>1, <2>2, <2>3, <2>4
  <1>3. CASE Resume(c)
    BY <1>3 DEF Resume, Answered, Covered, NothingLeftBehind, Exited,
       ClosedKeeperIsQuiet, Reaching, Waiting, Leaving
  <1>4. CASE StartByHand(c)
    BY <1>4 DEF StartByHand, Answered, Covered, NothingLeftBehind, Exited,
       ClosedKeeperIsQuiet, Reaching, Waiting, Leaving
  <1>5. CASE Look(c)
    BY <1>5 DEF Look, Answered, Covered, NothingLeftBehind, Exited,
       ClosedKeeperIsQuiet, Reaching, Waiting, Leaving
  <1>6. CASE Forget(c)
    BY <1>6 DEF Forget, Answered, Covered, NothingLeftBehind, Exited,
       ClosedKeeperIsQuiet, Reaching, Waiting, Leaving
  <1>7. CASE Discover(c)
    BY <1>7 DEF Discover, Answered, Covered, NothingLeftBehind, Exited,
       ClosedKeeperIsQuiet, Reaching, Waiting, Leaving
  <1>8. CASE ClusterConnected(c)
    <2> USE <1>8 DEF ClusterConnected
    <2>1. Answered'
      BY DEF Answered, Waiting
    <2>2. Covered'
      BY DEF Answered, Covered, Reaching, Waiting
    <2>3. NothingLeftBehind'
      BY DEF NothingLeftBehind, Leaving, Covered, Reaching, Waiting
    <2>4. Exited'
      BY DEF Exited, ClosedKeeperIsQuiet
    <2> QED
      BY <2>1, <2>2, <2>3, <2>4
  <1>9. CASE ForgetKinds(c)
    BY <1>9 DEF ForgetKinds, Answered, Covered, NothingLeftBehind, Exited,
       ClosedKeeperIsQuiet, Reaching, Waiting, Leaving
  <1>10. CASE ClusterDisconnected(c)
    <2> USE <1>10 DEF ClusterDisconnected
    <2>1. Answered'
      BY DEF Answered, Waiting
    <2>2. Covered'
      BY DEF Answered, Covered, Reaching, Waiting
    <2>3. NothingLeftBehind'
      BY DEF NothingLeftBehind, Leaving, Covered, Reaching, Waiting
    <2>4. Exited'
      BY DEF Exited, ClosedKeeperIsQuiet
    <2> QED
      BY <2>1, <2>2, <2>3, <2>4
  <1>11. CASE Waited(c)
    <2> USE <1>11 DEF Waited
    <2>1. Answered'
      BY DEF Answered, Waiting
    <2>2. Covered'
      BY DEF Answered, Covered, Reaching, Waiting
    <2>3. NothingLeftBehind'
      BY DEF NothingLeftBehind, Leaving, Covered, Reaching, Waiting
    <2>4. Exited'
      BY DEF Exited, ClosedKeeperIsQuiet
    <2> QED
      BY <2>1, <2>2, <2>3, <2>4
  <1>12. CASE Sweep(c)
    <2> USE <1>12 DEF Sweep
    <2>1. Answered'
      BY DEF Answered, Waiting
    <2>2. Covered'
      BY DEF Answered, Covered, Reaching, Waiting
    <2>3. NothingLeftBehind'
      BY DEF NothingLeftBehind, Leaving, Covered, Reaching, Waiting
    <2>4. Exited'
      BY DEF Exited, ClosedKeeperIsQuiet
    <2> QED
      BY <2>1, <2>2, <2>3, <2>4
  <1>13. CASE Keep(c)
    BY <1>13 DEF Keep, Answered, Covered, NothingLeftBehind, Exited,
       ClosedKeeperIsQuiet, Reaching, Waiting, Leaving
  <1>14. CASE ForgetLive(c)
    BY <1>14 DEF ForgetLive, Answered, Covered, NothingLeftBehind, Exited,
       ClosedKeeperIsQuiet, Reaching, Waiting, Leaving
  <1>15. CASE ClearFailure(c)
    BY <1>15 DEF ClearFailure, Answered, Covered, NothingLeftBehind, Exited,
       ClosedKeeperIsQuiet, Reaching, Waiting, Leaving
  <1>16. CASE Stop(c)
    BY <1>16 DEF Stop, Answered, Covered, NothingLeftBehind, Exited,
       ClosedKeeperIsQuiet, Reaching, Waiting, Leaving
  <1> QED
    BY <1>1, <1>2, <1>3, <1>4, <1>5, <1>6, <1>7, <1>8, <1>9, <1>10,
       <1>11, <1>12, <1>13, <1>14, <1>15, <1>16

LEMMA StarterStep ==
  ASSUME IInv, NEW w \in Workers,
         Permit(w) \/ Resolve(w) \/ Confirm(w) \/ Start(w) \/
         Record(w)
  PROVE  Answered' /\ Covered' /\ NothingLeftBehind' /\ Exited'
  <1> USE ConnectionAssumption
      DEF IInv, TypeOK, Workers, StartSteps, PortSteps, CallSteps, RunSteps,
          Goto, Live, Permitted, tab, keeper, workers
  <1>1. CASE Permit(w)
    <2> USE <1>1 DEF Permit
    <2>1. Answered'
      BY DEF Answered, Waiting
    <2>2. Covered'
      BY DEF Answered, Covered, Reaching, Waiting
    <2>3. NothingLeftBehind'
      BY DEF NothingLeftBehind, Leaving, Covered, Reaching, Waiting
    <2>4. Exited'
      BY DEF Exited, ClosedKeeperIsQuiet
    <2> QED
      BY <2>1, <2>2, <2>3, <2>4
  <1>2. CASE Resolve(w)
    BY <1>2 DEF Resolve, Answered, Covered, NothingLeftBehind, Exited,
       ClosedKeeperIsQuiet, Reaching, Waiting, Leaving
  <1>3. CASE Confirm(w)
    <2> USE <1>3 DEF Confirm
    <2>1. Answered'
      BY DEF Answered, Waiting
    <2>2. Covered'
      BY DEF Answered, Covered, Reaching, Waiting
    <2>3. NothingLeftBehind'
      BY DEF NothingLeftBehind, Leaving, Covered, Reaching, Waiting
    <2>4. Exited'
      BY DEF Exited, ClosedKeeperIsQuiet
    <2> QED
      BY <2>1, <2>2, <2>3, <2>4
  <1>4. CASE Start(w)
    <2> USE <1>4 DEF Start
    <2>1. Answered'
      BY DEF Answered, Waiting
    <2>2. Covered'
      BY DEF Answered, Covered, Reaching, Waiting
    <2>3. NothingLeftBehind'
      BY DEF NothingLeftBehind, Leaving, Covered, Reaching, Waiting
    <2>4. Exited'
      BY DEF Exited, ClosedKeeperIsQuiet
    <2> QED
      BY <2>1, <2>2, <2>3, <2>4
  <1>5. CASE Record(w)
    BY <1>5 DEF Record, Answered, Covered, NothingLeftBehind, Exited,
       ClosedKeeperIsQuiet, Reaching, Waiting, Leaving
  <1> QED
    BY <1>1, <1>2, <1>3, <1>4, <1>5

LEMMA RunStep ==
  ASSUME IInv, NEW r \in Runs,
         Load(r) \/ StopLoop(r) \/ NextKept(r) \/ Finish(r) \/
         Leave(r) \/ Panic(r)
  PROVE  Answered' /\ Covered' /\ NothingLeftBehind' /\ Exited'
  <1> USE ConnectionAssumption
      DEF IInv, TypeOK, Workers, StartSteps, PortSteps, CallSteps, RunSteps,
          Goto, Live, tab, keeper, workers
  <1>1. CASE Load(r)
    <2> USE <1>1 DEF Load
    <2>1. Answered'
      BY DEF Answered, Waiting
    <2>2. Covered'
      BY DEF Answered, Covered, Reaching, Waiting
    <2>3. NothingLeftBehind'
      BY DEF NothingLeftBehind, Leaving, Covered, Reaching, Waiting
    <2>4. Exited'
      BY DEF Exited, ClosedKeeperIsQuiet
    <2> QED
      BY <2>1, <2>2, <2>3, <2>4
  <1>2. CASE StopLoop(r)
    BY <1>2 DEF StopLoop, Answered, Covered, NothingLeftBehind, Exited,
       ClosedKeeperIsQuiet, Reaching, Waiting, Leaving
  <1>3. CASE NextKept(r)
    BY <1>3 DEF NextKept, Answered, Covered, NothingLeftBehind, Exited,
       ClosedKeeperIsQuiet, Reaching, Waiting, Leaving
  <1>4. CASE Finish(r)
    <2> USE <1>4 DEF Finish
    <2>1. Answered'
      BY DEF Answered, Waiting
    <2>2. Covered'
      BY DEF Answered, Covered, Reaching, Waiting
    <2>3. NothingLeftBehind'
      BY DEF NothingLeftBehind, Leaving, Covered, Reaching, Waiting
    <2>4. Exited'
      BY DEF Exited, ClosedKeeperIsQuiet
    <2> QED
      BY <2>1, <2>2, <2>3, <2>4
  <1>5. CASE Leave(r)
    <2> USE <1>5 DEF Leave
    <2>1. Answered'
      BY DEF Answered, Waiting
    <2>2. Covered'
      BY DEF Answered, Covered, Reaching, Waiting
    <2>3. NothingLeftBehind'
      BY DEF NothingLeftBehind, Leaving, Covered, Reaching, Waiting
    <2>4. Exited'
      BY DEF Exited, ClosedKeeperIsQuiet
    <2> QED
      BY <2>1, <2>2, <2>3, <2>4
  <1>6. CASE Panic(r)
    BY <1>6 DEF Panic, Answered, Covered, NothingLeftBehind, Exited,
       ClosedKeeperIsQuiet, Reaching, Waiting, Leaving
  <1> QED
    BY <1>1, <1>2, <1>3, <1>4, <1>5, <1>6

LEMMA OtherStep ==
  ASSUME IInv,
         ReconnectClusters \/ CloseKeeper \/ CancelAll \/ WaitAll \/
         StopAllPortForwards
  PROVE  Answered' /\ Covered' /\ NothingLeftBehind' /\ Exited'
  <1> USE ConnectionAssumption
      DEF IInv, TypeOK, Workers, StartSteps, PortSteps, CallSteps, RunSteps,
          Goto, tab, keeper, workers
  <1>1. CASE ReconnectClusters
    BY <1>1 DEF ReconnectClusters, Answered, Covered, NothingLeftBehind, Exited,
       ClosedKeeperIsQuiet, Reaching, Waiting, Leaving
  <1>2. CASE CloseKeeper
    BY <1>2 DEF CloseKeeper, Answered, Covered, NothingLeftBehind, Exited,
       ClosedKeeperIsQuiet, Reaching, Waiting, Leaving
  <1>3. CASE CancelAll
    BY <1>3 DEF CancelAll, Answered, Covered, NothingLeftBehind, Exited,
       ClosedKeeperIsQuiet, Reaching, Waiting, Leaving
  <1>4. CASE WaitAll
    BY <1>4 DEF WaitAll, Answered, Covered, NothingLeftBehind, Exited,
       ClosedKeeperIsQuiet, Reaching, Waiting, Leaving
  <1>5. CASE StopAllPortForwards
    BY <1>5 DEF StopAllPortForwards, Answered, Covered, NothingLeftBehind, Exited,
       ClosedKeeperIsQuiet, Reaching, Waiting, Leaving
  <1> QED
    BY <1>1, <1>2, <1>3, <1>4, <1>5

LEMMA IInvNext == IInv /\ [Next]_vars => IInv'
  <1> SUFFICES ASSUME IInv, [Next]_vars PROVE IInv'
    OBVIOUS
  <1>1. ASSUME NEW c \in Calls, Arrival(c) \/ Call(c) \/ Start(c) PROVE IInv'
    BY <1>1, CallType, CallStep, StarterType, StarterStep
    DEF Arrival, Call, Starter, IInv, Workers
  <1>2. ASSUME NEW r \in Runs, Run(r) \/ Panic(r) \/ Start(r) PROVE IInv'
    BY <1>2, RunType, RunStep, StarterType, StarterStep DEF Run, Starter, IInv, Workers
  <1>3. CASE ReconnectClusters \/ CloseKeeper \/ Shutdown
    BY <1>3, OtherType, OtherStep DEF Shutdown, IInv
  <1>4. CASE UNCHANGED vars
    BY <1>4 DEF vars, IInv, TypeOK, Answered, Covered, NothingLeftBehind, Exited,
                ClosedKeeperIsQuiet, Reaching, Waiting, Leaving
  <1> QED
    BY <1>1, <1>2, <1>3, <1>4 DEF Next, Workers

(* The inductive invariant holds of every behaviour (Connection.tla, IInv). *)
THEOREM Invariance == Spec => []IInv
  BY IInvInit, IInvNext, PTL DEF Spec

(* The variables keep their types (cluster.go, forwardkeeper.go).           *)
THEOREM TypeCorrect == Spec => []TypeOK
  <1>1. IInv => TypeOK
    BY DEF IInv
  <1> QED
    BY <1>1, Invariance, PTL

(* No restored forward outlives the sweep of a closed tab, for any number   *)
(* of connects and disconnects that overlap (forwardkeeper.go:368).         *)
THEOREM LeavesNothing == Spec => []NothingLeftBehind
  <1>1. IInv => NothingLeftBehind
    BY DEF IInv
  <1> QED
    BY <1>1, Invariance, PTL

(* After the shutdown's sweep no restored forward runs and no restore is    *)
(* under way (forwardkeeper.go:496).                                        *)
THEOREM ClosesQuietly == Spec => []ClosedKeeperIsQuiet
  <1>1. IInv => ClosedKeeperIsQuiet
    BY DEF IInv, Exited
  <1> QED
    BY <1>1, Invariance, PTL

(* A restore reaches the cluster only before the sweep of the disconnect    *)
(* that closes its tab (cluster.go:311).                                    *)
THEOREM ReachesInTime == Spec => RestoresBeforeTheSweep
  <1> DEFINE InTime == \A r \in Runs :
                         pc[r] \in {"resolve", "start"} /\ pc'[r] # pc[r]
                           => open \/ \E c \in Calls : Leaving(c)
  <1>1. IInv => InTime
    BY DEF IInv, Covered, Reaching, Waiting, Leaving
  <1>2. IInv /\ [Next]_vars => [InTime]_vars
    BY <1>1
  <1> QED
    BY <1>2, Invariance, PTL DEF Spec, RestoresBeforeTheSweep

(***************************************************************************)
(* The refinement of Tab.  Most steps are of no concern to the promise:    *)
(* they leave the tab, the disconnects, the restores at the cluster and    *)
(* the shutdown where they are, and start no forward for a restore.        *)
(***************************************************************************)
Apart ==
    /\ UNCHANGED open
    /\ \A c \in Calls : (Leaving(c))' = Leaving(c) /\ (pc'[c] = "sweep" <=> pc[c] = "sweep")
    /\ \A r \in Runs : (Reaching(r))' = Reaching(r)
    /\ exit' = "gone" <=> exit = "gone"

LEMMA ApartStep ==
  ASSUME Apart, \A p \in Ports : live'[p] \in Runs => live[p] \in Runs
  PROVE  [Promise!Next]_(Promise!vars)
  BY DEF Apart, Promise!Next, Promise!Release

LEMMA CallKeeps ==
  ASSUME IInv, NEW c \in Calls, Arrival(c) \/ Call(c) \/ Start(c)
  PROVE  [Promise!Next]_(Promise!vars)
  <1> USE ConnectionAssumption
      DEF IInv, TypeOK, Workers, StartSteps, PortSteps, CallSteps, RunSteps,
          Goto, Fresh, Live, tab, keeper, workers, Leaving, Reaching
  <1>1. CASE Connect(c)
    <2>1. Promise!Connect
      BY <1>1 DEF Connect, Promise!Connect
    <2> QED
      BY <2>1 DEF Promise!Next
  <1>2. CASE Disconnect(c)
    <2>1. Promise!Disconnect(c)
      BY <1>2 DEF Disconnect, Promise!Disconnect
    <2> QED
      BY <2>1 DEF Promise!Next
  <1>3. CASE ClusterConnected(c)
    <2>1. Apart /\ UNCHANGED live
      BY <1>3 DEF ClusterConnected, Apart
    <2> QED
      BY <2>1, ApartStep
  <1>4. CASE ClusterDisconnected(c)
    <2>1. CASE restoring = NoOne
      <3>1. Promise!Turn(c)
        BY <1>4, <2>1 DEF ClusterDisconnected, Promise!Turn, Covered, Answered, Waiting
      <3> QED
        BY <3>1 DEF Promise!Next
    <2>2. CASE restoring # NoOne
      <3>1. Apart /\ UNCHANGED live
        BY <1>4, <2>2 DEF ClusterDisconnected, Apart
      <3> QED
        BY <3>1, ApartStep
    <2> QED
      BY <2>1, <2>2
  <1>5. CASE Waited(c)
    <2>1. Promise!Turn(c)
      BY <1>5 DEF Waited, Promise!Turn, Covered, Answered, Waiting
    <2> QED
      BY <2>1 DEF Promise!Next
  <1>6. CASE Sweep(c)
    <2>1. Promise!Sweep(c)
      BY <1>6 DEF Sweep, Promise!Sweep
    <2> QED
      BY <2>1 DEF Promise!Next
  <1>7. CASE Stop(c)
    <2>1. Apart
      BY <1>7 DEF Stop, Apart
    <2>2. \A p \in Ports : live'[p] \in Runs => live[p] \in Runs
      BY <1>7 DEF Stop
    <2> QED
      BY <2>1, <2>2, ApartStep
  <1>8. CASE StartByHand(c)
    <2>1. Apart
      BY <1>8 DEF StartByHand, Apart
    <2>2. \A p \in Ports : live'[p] \in Runs => live[p] \in Runs
      BY <1>8 DEF StartByHand
    <2> QED
      BY <2>1, <2>2, ApartStep
  <1>9. CASE Start(c)
    <2>1. Apart
      BY <1>9 DEF Start, Apart
    <2>2. \A p \in Ports : live'[p] \in Runs => live[p] \in Runs
      BY <1>9 DEF Start
    <2> QED
      BY <2>1, <2>2, ApartStep
  <1>10. CASE Resume(c) \/ Look(c) \/ Forget(c)
    <2>1. Apart /\ UNCHANGED live
      BY <1>10 DEF Resume, Look, Forget, Apart
    <2> QED
      BY <2>1, ApartStep
  <1>11. CASE Discover(c) \/ ForgetKinds(c)
    <2>1. CASE Discover(c)
      <3>1. Apart /\ UNCHANGED live
        BY <2>1 DEF Discover, Apart
      <3> QED
        BY <3>1, ApartStep
    <2>2. CASE ForgetKinds(c)
      <3>1. Apart /\ UNCHANGED live
        BY <2>2 DEF ForgetKinds, Apart
      <3> QED
        BY <3>1, ApartStep
    <2> QED
      BY <1>11, <2>1, <2>2
  <1>12. CASE Keep(c) \/ ForgetLive(c) \/ ClearFailure(c)
    <2>1. Apart /\ UNCHANGED live
      BY <1>12 DEF Keep, ForgetLive, ClearFailure, Apart
    <2> QED
      BY <2>1, ApartStep
  <1>13. CASE Permit(c) \/ Resolve(c) \/ Confirm(c) \/ Record(c)
    <2>1. Apart /\ UNCHANGED live
      BY <1>13 DEF Permit, Resolve, Confirm, Record, Apart
    <2> QED
      BY <2>1, ApartStep
  <1> QED
    BY <1>1, <1>2, <1>3, <1>4, <1>5, <1>6, <1>7, <1>8, <1>9, <1>10, <1>11, <1>12, <1>13
    DEF Arrival, Call, Starter

LEMMA RunKeeps ==
  ASSUME IInv, NEW r \in Runs, Run(r) \/ Panic(r) \/ Start(r)
  PROVE  [Promise!Next]_(Promise!vars)
  <1> USE ConnectionAssumption
      DEF IInv, TypeOK, Workers, StartSteps, PortSteps, CallSteps, RunSteps,
          Goto, Live, tab, keeper, workers, Leaving, Reaching
  <1>1. CASE Permit(r)
    <2>1. CASE Permitted(r)
      <3>1. Promise!Reach(r)
        BY <1>1, <2>1 DEF Permit, Permitted, Over, Promise!Reach
      <3> QED
        BY <3>1 DEF Promise!Next
    <2>2. CASE ~Permitted(r)
      <3>1. Apart /\ UNCHANGED live
        BY <1>1, <2>2 DEF Permit, Apart
      <3> QED
        BY <3>1, ApartStep
    <2> QED
      BY <2>1, <2>2
  <1>2. CASE (Resolve(r) \/ Confirm(r) \/ Start(r)) /\ pc'[r] = "refused"
    <2>1. Promise!GiveUp(r)
      BY <1>2 DEF Resolve, Confirm, Start, Promise!GiveUp
    <2> QED
      BY <2>1 DEF Promise!Next
  <1>3. CASE (Resolve(r) \/ Confirm(r)) /\ pc'[r] # "refused"
    <2>1. Apart /\ UNCHANGED live
      BY <1>3 DEF Resolve, Confirm, Apart
    <2> QED
      BY <2>1, ApartStep
  <1>4. CASE Start(r) /\ pc'[r] # "refused"
    <2>1. /\ pc[r] = "start" /\ ~Live(port[r]) /\ Goto(r, "started")
          /\ live' = [live EXCEPT ![port[r]] = r]
          /\ UNCHANGED <<tab, keeper, workers, exit>>
      BY <1>4 DEF Start
    <2>2. PICK p \in Ports : p = port[r]
      BY <2>1
    <2>3. {q \in Ports : live'[q] \in Runs} = {q \in Ports : live[q] \in Runs} \cup {p}
      BY <2>1, <2>2
    <2>4. {q \in Runs : (Reaching(q))'} = {q \in Runs : Reaching(q)} \ {r}
      BY <2>1
    <2>5. \A c \in Calls : pc'[c] = pc[c]
      BY <2>1
    <2>6. Reaching(r) /\ live[p] \notin Runs
      BY <2>1, <2>2
    <2>7. UNCHANGED <<open, exit>>
      BY <2>1
    <2>8. /\ UNCHANGED {c \in Calls : Leaving(c)}
          /\ UNCHANGED {c \in Calls : pc[c] = "sweep"}
      BY <2>5
    <2>9. Promise!Restore(r, p)
      <3> HIDE DEF Reaching, Leaving
      <3> QED
        BY <2>2, <2>3, <2>4, <2>6, <2>7, <2>8 DEF Promise!Restore
    <2> QED
      BY <2>2, <2>9 DEF Promise!Next
  <1>5. CASE Record(r) \/ Load(r) \/ StopLoop(r) \/ NextKept(r)
    <2>1. Apart /\ UNCHANGED live
      BY <1>5 DEF Record, Load, StopLoop, NextKept, Apart
    <2> QED
      BY <2>1, ApartStep
  <1>6. CASE Finish(r) \/ Leave(r)
    <2>1. Apart /\ UNCHANGED live
      BY <1>6 DEF Finish, Leave, Apart
    <2> QED
      BY <2>1, ApartStep
  <1>7. CASE Panic(r) /\ Reaching(r)
    <2>1. Promise!GiveUp(r)
      BY <1>7 DEF Panic, Promise!GiveUp
    <2> QED
      BY <2>1 DEF Promise!Next
  <1>8. CASE Panic(r) /\ ~Reaching(r)
    <2>1. Apart /\ UNCHANGED live
      BY <1>8 DEF Panic, Apart
    <2> QED
      BY <2>1, ApartStep
  <1> QED
    BY <1>1, <1>2, <1>3, <1>4, <1>5, <1>6, <1>7, <1>8 DEF Run, Starter

LEMMA ExitKeeps ==
  ASSUME IInv, ReconnectClusters \/ CloseKeeper \/ Shutdown
  PROVE  [Promise!Next]_(Promise!vars)
  <1> USE DEF IInv, TypeOK, tab, keeper, workers, Leaving, Reaching
  <1>1. CASE ReconnectClusters
    <2>1. Apart /\ \A p \in Ports : live'[p] \in Runs => live[p] \in Runs
      BY <1>1, ConnectionAssumption DEF ReconnectClusters, Apart, Workers
    <2> QED
      BY <2>1, ApartStep
  <1>2. CASE CloseKeeper \/ CancelAll \/ WaitAll
    <2>1. Apart /\ UNCHANGED live
      BY <1>2 DEF CloseKeeper, CancelAll, WaitAll, Apart
    <2> QED
      BY <2>1, ApartStep
  <1>3. CASE StopAllPortForwards
    <2>1. Promise!Leave
      BY <1>3, ConnectionAssumption DEF StopAllPortForwards, Promise!Leave, Exited, Workers
    <2> QED
      BY <2>1 DEF Promise!Next
  <1> QED
    BY <1>1, <1>2, <1>3 DEF Shutdown

LEMMA PromiseStep == IInv /\ [Next]_vars => [Promise!Next]_(Promise!vars)
  <1> SUFFICES ASSUME IInv, [Next]_vars PROVE [Promise!Next]_(Promise!vars)
    OBVIOUS
  <1>1. CASE UNCHANGED vars
    <2>1. Apart /\ UNCHANGED live
      BY <1>1 DEF vars, Apart, Leaving, Reaching
    <2> QED
      BY <2>1, ApartStep
  <1> QED
    BY <1>1, CallKeeps, RunKeeps, ExitKeeps DEF Next, Workers

(* Connection implements Tab: for any number of overlapping connects and    *)
(* disconnects, what a restore starts goes with the tab it was started for, *)
(* and with the program (cluster.go:311, forwardkeeper.go:368).             *)
THEOREM KeepsItsPromise == Spec => RestoresFollowTheTab
  <1>1. Init => Promise!Init
    BY ConnectionAssumption DEF Init, Promise!Init, Leaving, Reaching, Workers
  <1> QED
    BY <1>1, PromiseStep, Invariance, PTL DEF Spec, RestoresFollowTheTab, Promise!Spec
=============================================================================
