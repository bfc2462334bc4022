------------------------- MODULE PortForwardsProofs -------------------------
(* Theorems about PortForwards, for every set of forwards, clusters, ports   *)
(* and stoppers.                                                             *)
EXTENDS PortForwards, TLAPS
(* What the attempt operators return is an attempt.                          *)
LEMMA AttemptTypes ==
  ASSUME NEW a \in Attempts
  PROVE  /\ Closed(a) \in Attempts /\ Failing(a) \in Attempts
         /\ Finished(a) \in Attempts
         /\ a.port \in Ports \cup {AnyPort} /\ a.st \in AttemptStates
  BY DEF Attempts, AttemptStates, Closed, Failing, Finished

LEMMA NewAttemptTypes ==
  /\ NoAttempt \in Attempts
  /\ \A p \in Ports \cup {AnyPort} : Dialled(p) \in Attempts
  /\ \A a \in Attempts, p \in Ports : Bound(a, p) \in Attempts
  BY DEF Attempts, AttemptStates, NoAttempt, Dialled, Bound

(* Every variable keeps its type.                                            *)
LEMMA TypeInit == Init => TypeOK
  BY ForwardsAssumption, NewAttemptTypes DEF Init, TypeOK, PCs, Idle

LEMMA TypeStep == TypeOK /\ [Next]_vars => TypeOK'
<1> SUFFICES ASSUME TypeOK, [Next]_vars PROVE TypeOK'
  OBVIOUS
<1> USE DEF TypeOK, PCs, SupervisorPCs,
            supVars, regVars, row, att
<1>1. ASSUME NEW f \in Forwards, AttemptStep(f) PROVE TypeOK'
  <2>1. CASE Bind(f)
    BY <2>1, AttemptTypes, NewAttemptTypes DEF Bind
  <2>2. CASE NextFails(f) \/ NextDone(f) \/ CurFails(f) \/ CurDone(f)
    BY <2>2, AttemptTypes DEF NextFails, NextDone, CurFails, CurDone
  <2> QED BY <1>1, <2>1, <2>2 DEF AttemptStep
<1>2. ASSUME NEW f \in Forwards, Dialler(f) PROVE TypeOK'
  BY <1>2, AttemptTypes DEF Dialler, DialReady, DialFailed, DialTimeout, DialTornDown
<1>3. ASSUME NEW f \in Forwards, Starter(f) \/ StartDial(f) PROVE TypeOK'
  <2>1. CASE StartRefused(f)
    BY <2>1, NewAttemptTypes DEF StartRefused
  <2>2. CASE Register(f)
    BY <2>2, AttemptTypes, NewAttemptTypes DEF Register
  <2>3. CASE StartDial(f)
    BY <2>3, NewAttemptTypes DEF StartDial
  <2> QED BY <1>3, <2>1, <2>2, <2>3 DEF Starter
<1>4. ASSUME NEW f \in Forwards, SeesStop(f) PROVE TypeOK'
  <2>1. CASE SeeStop(f)
    BY <2>1, AttemptTypes DEF SeeStop, Go
  <2>2. CASE StopInWindow(f) \/ StopWhileLost(f)
    BY <2>2 DEF StopInWindow, StopWhileLost, Go
  <2> QED BY <1>4, <2>1, <2>2 DEF SeesStop
<1>5. ASSUME NEW f \in Forwards, Stopped(f) \/ SeeDrop(f) \/ BeginWindow(f)
      PROVE TypeOK'
  BY <1>5 DEF Stopped, SeeDrop, BeginWindow, Go
<1>6. ASSUME NEW f \in Forwards, Search(f) \/ WindowOver(f) \/ Tick(f) PROVE TypeOK'
  BY <1>6, ForwardsAssumption DEF Search, WindowOver, Tick, Go
<1>7. ASSUME NEW f \in Forwards, FindNone(f) \/ FindPod(f) \/ RedialRefused(f)
      PROVE TypeOK'
  <2>1. CASE FindNone(f)
    BY <2>1 DEF FindNone, Go, Back
  <2>2. CASE FindPod(f)
    <3>1. Dialled(localPort[f]) \in Attempts
      BY NewAttemptTypes
    <3> QED BY <2>2, <3>1 DEF FindPod, Go
  <2>3. CASE RedialRefused(f)
    BY <2>3, NewAttemptTypes DEF RedialRefused, Go, Back
  <2> QED BY <1>7, <2>1, <2>2, <2>3
<1>8. ASSUME NEW f \in Forwards, Redialled(f) \/ Adopt(f) PROVE TypeOK'
  <2>1. CASE Redialled(f)
    BY <2>1, AttemptTypes DEF Redialled, Go
  <2>2. CASE Adopt(f)
    <3>1. cur' \in [Forwards -> Attempts] /\ next' \in [Forwards -> Attempts]
      BY <2>2, NewAttemptTypes DEF Adopt
    <3> QED BY <2>2, <3>1, ForwardsAssumption DEF Adopt, Go
  <2> QED BY <1>8, <2>1, <2>2
<1>9. ASSUME NEW f \in Forwards, Panic(f) \/ UnwindPending(f) \/ Unwound(f)
      PROVE TypeOK'
  BY <1>9, AttemptTypes DEF Panic, UnwindPending, Unwound, Go
<1>10. ASSUME NEW f \in Forwards, Nudged(f) \/ ReconnectPortForward(f) PROVE TypeOK'
  BY <1>10 DEF Nudged, ReconnectPortForward, Go
<1>11. ASSUME NEW k \in Stoppers, StopCall(k) PROVE TypeOK'
  <2>1. ASSUME NEW S \in SUBSET byID, Take(k, S) PROVE TypeOK'
    <3>1. S \subseteq Forwards
      OBVIOUS
    <3>2. call' \in [Stoppers -> [todo : SUBSET Forwards, at : Forwards \cup {NoForward}]]
      BY <2>1, <3>1 DEF Take
    <3> QED BY <2>1, <3>2 DEF Take
  <2> QED BY <1>11, <2>1 DEF StopCall, StopPortForward, StopAllPortForwards,
               stopPortForwardsFor, OfCluster
<1>12. ASSUME NEW k \in Stoppers, Stopper(k) PROVE TypeOK'
  <2>1. CASE CloseStop(k)
    BY <2>1 DEF CloseStop
  <2>2. CASE Waited(k)
    BY <2>2 DEF Waited
  <2> QED BY <1>12, <2>1, <2>2 DEF Stopper
<1>13. CASE UNCHANGED vars
  BY <1>13 DEF vars
<1> QED
  BY <1>1, <1>2, <1>3, <1>4, <1>5, <1>6, <1>7, <1>8, <1>9, <1>10, <1>11,
     <1>12, <1>13 DEF Next, ForwardStep, Supervisor
-----------------------------------------------------------------------------
(* What the attempt operators make of the state and the port.                *)
LEMMA AttemptEffects ==
  ASSUME NEW a \in Attempts, NEW p
  PROVE  /\ Closed(a).st = CASE a.st = "opening" -> "aborting"
                             [] a.st = "up" -> "closing" [] OTHER -> a.st
         /\ Closed(a).port = a.port
         /\ Failing(a).st = "failed" /\ Failing(a).port = a.port
         /\ Finished(a).st = "done" /\ Finished(a).port = a.port
         /\ Bound(a, p).st \in {"up", "closing"} /\ Bound(a, p).port = p
         /\ NoAttempt.st = "none"
         /\ Dialled(p).st = "opening" /\ Dialled(p).port = p
  BY DEF Attempts, AttemptStates, Closed, Failing, Finished, Bound, NoAttempt, Dialled

(* Where the supervisor is decides which attempts can exist.                 *)
LEMMA ControlStep ==
  TypeOK /\ AttemptsFollowControl /\ [Next]_vars => AttemptsFollowControl'
<1> SUFFICES ASSUME TypeOK, AttemptsFollowControl, [Next]_vars
             PROVE  AttemptsFollowControl'
  OBVIOUS
<1>0. /\ cur \in [Forwards -> Attempts] /\ next \in [Forwards -> Attempts]
      /\ pc \in [Forwards -> PCs] /\ pending \subseteq Forwards
      /\ dial \in [Forwards -> {"none", "waiting", "teardown", "ready", "refused"}]
  BY DEF TypeOK
<1> USE <1>0 DEF AttemptsFollowControl, supVars, regVars, row, att, Over
<1>1. ASSUME NEW f \in Forwards, AttemptStep(f) PROVE AttemptsFollowControl'
  BY <1>1, AttemptEffects DEF AttemptStep, Bind, NextFails, CurFails, NextDone, CurDone
<1>2. ASSUME NEW f \in Forwards, Dialler(f) PROVE AttemptsFollowControl'
  BY <1>2, AttemptEffects DEF Dialler, DialReady, DialFailed, DialTimeout, DialTornDown
<1>3. ASSUME NEW f \in Forwards, StartRefused(f) PROVE AttemptsFollowControl'
  BY <1>3, AttemptEffects DEF StartRefused
<1>4. ASSUME NEW f \in Forwards, Register(f) PROVE AttemptsFollowControl'
  BY <1>4, AttemptEffects DEF Register
<1>5. ASSUME NEW f \in Forwards, StartDial(f) PROVE AttemptsFollowControl'
  BY <1>5, AttemptEffects DEF StartDial
<1>6. ASSUME NEW f \in Forwards, SeesStop(f) PROVE AttemptsFollowControl'
  BY <1>6, AttemptEffects DEF SeesStop, SeeStop, StopInWindow, StopWhileLost, Go
<1>7. ASSUME NEW f \in Forwards, Stopped(f) \/ SeeDrop(f) \/ BeginWindow(f)
      PROVE AttemptsFollowControl'
  BY <1>7 DEF Stopped, SeeDrop, BeginWindow, Go
<1>8. ASSUME NEW f \in Forwards, Search(f) \/ WindowOver(f) \/ Tick(f)
      PROVE AttemptsFollowControl'
  BY <1>8 DEF Search, WindowOver, Tick, Go
<1>9. ASSUME NEW f \in Forwards, FindNone(f) PROVE AttemptsFollowControl'
  BY <1>9 DEF FindNone, Go, Back
<1>10. ASSUME NEW f \in Forwards, FindPod(f) PROVE AttemptsFollowControl'
  BY <1>10, AttemptEffects DEF FindPod, Go
<1>11. ASSUME NEW f \in Forwards, RedialRefused(f) PROVE AttemptsFollowControl'
  BY <1>11, AttemptEffects DEF RedialRefused, Go, Back
<1>12. ASSUME NEW f \in Forwards, Redialled(f) PROVE AttemptsFollowControl'
  BY <1>12 DEF Redialled, Go
<1>13. ASSUME NEW f \in Forwards, Adopt(f) PROVE AttemptsFollowControl'
  BY <1>13, AttemptEffects DEF Adopt, Go
<1>14. ASSUME NEW f \in Forwards, Panic(f) PROVE AttemptsFollowControl'
  BY <1>14, AttemptEffects DEF Panic, Go
<1>15. ASSUME NEW f \in Forwards, UnwindPending(f) PROVE AttemptsFollowControl'
  BY <1>15, AttemptEffects DEF UnwindPending, Go
<1>16. ASSUME NEW f \in Forwards, Unwound(f) PROVE AttemptsFollowControl'
  BY <1>16 DEF Unwound, Go
<1>17. ASSUME NEW f \in Forwards, Nudged(f) \/ ReconnectPortForward(f)
      PROVE AttemptsFollowControl'
  BY <1>17 DEF Nudged, ReconnectPortForward, Go
<1>18. ASSUME NEW k \in Stoppers, StopCall(k) \/ Stopper(k)
      PROVE AttemptsFollowControl'
  BY <1>18 DEF StopCall, StopPortForward, StopAllPortForwards,
               stopPortForwardsFor, Take, Stopper, CloseStop, Waited
<1>19. CASE UNCHANGED vars
  BY <1>19 DEF vars
<1> QED
  BY <1>1, <1>2, <1>3, <1>4, <1>5, <1>6, <1>7, <1>8, <1>9, <1>10, <1>11, <1>12,
     <1>13, <1>14, <1>15, <1>16, <1>17, <1>18, <1>19
  DEF Next, ForwardStep, Supervisor, Starter

(* An attempt that is waited for ends: it was closed or has failed.          *)
LEMMA EndStep ==
  TypeOK /\ AttemptsFollowControl /\ AttemptsEnd /\ [Next]_vars => AttemptsEnd'
<1> SUFFICES ASSUME TypeOK, AttemptsFollowControl, AttemptsEnd, [Next]_vars
             PROVE  AttemptsEnd'
  OBVIOUS
<1>0. /\ cur \in [Forwards -> Attempts] /\ next \in [Forwards -> Attempts]
      /\ pc \in [Forwards -> PCs] /\ pending \subseteq Forwards
      /\ dial \in [Forwards -> {"none", "waiting", "teardown", "ready", "refused"}]
  BY DEF TypeOK
<1>c. \A f \in Forwards :
        /\ pc[f] \in {"run", "drop", "stopping", "backoff", "find", "lost"} =>
              next[f].st = "none"
        /\ pc[f] \in {"unwindCur", "unwindNext"} /\ f \notin pending => next[f].st = "none"
        /\ pc[f] \in {"find", "adopt"} => cur[f].st = "done"
        /\ f \in pending => pc[f] \in {"adopt", "unwindCur", "unwindNext"}
        /\ pc[f] = "adopt" => f \in pending
        /\ dial[f] # "none" => pc[f] \in {"starting", "dial"}
  BY DEF AttemptsFollowControl
<1> USE <1>0, <1>c DEF AttemptsEnd, supVars, regVars, row, att
<1>1. ASSUME NEW f \in Forwards, AttemptStep(f) PROVE AttemptsEnd'
  BY <1>1, AttemptEffects DEF AttemptStep, Bind, NextFails, CurFails, NextDone, CurDone, Bound
<1>2. ASSUME NEW f \in Forwards, Dialler(f) PROVE AttemptsEnd'
  BY <1>2, AttemptEffects DEF Dialler, DialReady, DialFailed, DialTimeout, DialTornDown
<1>3. ASSUME NEW f \in Forwards, StartRefused(f) PROVE AttemptsEnd'
  BY <1>3, AttemptEffects DEF StartRefused
<1>4. ASSUME NEW f \in Forwards, Register(f) PROVE AttemptsEnd'
  BY <1>4, AttemptEffects DEF Register
<1>5. ASSUME NEW f \in Forwards, StartDial(f) PROVE AttemptsEnd'
  BY <1>5, AttemptEffects DEF StartDial
<1>6. ASSUME NEW f \in Forwards, SeesStop(f) PROVE AttemptsEnd'
  <2>1. CASE SeeStop(f)
    BY <2>1, AttemptEffects, SMTT(30) DEF SeeStop, Go
  <2>2. CASE StopInWindow(f) \/ StopWhileLost(f)
    BY <2>2 DEF StopInWindow, StopWhileLost, Go
  <2> QED
    BY <1>6, <2>1, <2>2 DEF SeesStop
<1>7. ASSUME NEW f \in Forwards, Stopped(f) \/ SeeDrop(f) \/ BeginWindow(f)
      PROVE AttemptsEnd'
  BY <1>7 DEF Stopped, SeeDrop, BeginWindow, Go
<1>8. ASSUME NEW f \in Forwards, Search(f) \/ WindowOver(f) \/ Tick(f) PROVE AttemptsEnd'
  BY <1>8 DEF Search, WindowOver, Tick, Go
<1>9. ASSUME NEW f \in Forwards, FindNone(f) PROVE AttemptsEnd'
  BY <1>9 DEF FindNone, Go, Back
<1>10. ASSUME NEW f \in Forwards, FindPod(f) PROVE AttemptsEnd'
  BY <1>10, AttemptEffects DEF FindPod, Go
<1>11. ASSUME NEW f \in Forwards, RedialRefused(f) PROVE AttemptsEnd'
  BY <1>11, AttemptEffects DEF RedialRefused, Go, Back
<1>12. ASSUME NEW f \in Forwards, Redialled(f) PROVE AttemptsEnd'
  BY <1>12 DEF Redialled, Go
<1>13. ASSUME NEW f \in Forwards, Adopt(f) PROVE AttemptsEnd'
  BY <1>13, AttemptEffects DEF Adopt, Go
<1>14. ASSUME NEW f \in Forwards, Panic(f) PROVE AttemptsEnd'
  BY <1>14, AttemptEffects DEF Panic, Go
<1>15. ASSUME NEW f \in Forwards, UnwindPending(f) PROVE AttemptsEnd'
  BY <1>15, AttemptEffects DEF UnwindPending, Go
<1>16. ASSUME NEW f \in Forwards, Unwound(f) PROVE AttemptsEnd'
  BY <1>16 DEF Unwound, Go
<1>17. ASSUME NEW f \in Forwards, Nudged(f) \/ ReconnectPortForward(f) PROVE AttemptsEnd'
  BY <1>17 DEF Nudged, ReconnectPortForward, Go
<1>18. ASSUME NEW k \in Stoppers, StopCall(k) \/ Stopper(k) PROVE AttemptsEnd'
  BY <1>18 DEF StopCall, StopPortForward, StopAllPortForwards,
               stopPortForwardsFor, Take, Stopper, CloseStop, Waited
<1>19. CASE UNCHANGED vars
  BY <1>19 DEF vars
<1> QED
  BY <1>1, <1>2, <1>3, <1>4, <1>5, <1>6, <1>7, <1>8, <1>9, <1>10, <1>11, <1>12,
     <1>13, <1>14, <1>15, <1>16, <1>17, <1>18, <1>19
  DEF Next, ForwardStep, Supervisor, Starter

(* A live supervisor is registered or in the hands of one stopper, which     *)
(* stops one after the other.                                                *)
Ownership == OneOwner /\ OnlyKnownIsStopped /\ InTurn

(* A step of a forward leaves the stoppers alone and the forward supervised. *)
LEMMA OwnerForwardStep ==
  ASSUME TypeOK, Ownership, NEW f \in Forwards, ForwardStep(f)
  PROVE  Ownership'
<1>0. /\ pc \in [Forwards -> PCs] /\ byID \subseteq Forwards
      /\ call \in [Stoppers -> [todo : SUBSET Forwards, at : Forwards \cup {NoForward}]]
  BY DEF TypeOK
<1> USE <1>0 DEF Ownership, OneOwner, OnlyKnownIsStopped, InTurn, Owners, Known, Supervised,
            SupervisorPCs, supVars, regVars, row, att
<1>1. CASE AttemptStep(f) \/ Dialler(f)
  BY <1>1 DEF AttemptStep, Bind, NextFails, CurFails, NextDone, CurDone,
              Dialler, DialReady, DialFailed, DialTimeout, DialTornDown
<1>2. CASE Starter(f) \/ StartDial(f)
  BY <1>2 DEF Starter, StartRefused, Register, StartDial
<1>3. CASE SeesStop(f)
  BY <1>3 DEF SeesStop, SeeStop, StopInWindow, StopWhileLost, Go
<1>4. CASE Stopped(f) \/ SeeDrop(f) \/ BeginWindow(f)
  BY <1>4 DEF Stopped, SeeDrop, BeginWindow, Go
<1>7. CASE Search(f) \/ WindowOver(f) \/ Tick(f) \/ Nudged(f)
  BY <1>7 DEF Search, WindowOver, Tick, Nudged, Go
<1>5. CASE FindNone(f) \/ FindPod(f) \/ RedialRefused(f) \/ Redialled(f) \/ Adopt(f)
  BY <1>5 DEF FindNone, FindPod, RedialRefused, Redialled, Adopt, Go, Back
<1>6. CASE Panic(f) \/ UnwindPending(f) \/ Unwound(f) \/ ReconnectPortForward(f)
  BY <1>6 DEF Panic, UnwindPending, Unwound, ReconnectPortForward, Go
<1> QED
  BY ForwardStep(f), <1>1, <1>2, <1>3, <1>4, <1>5, <1>6, <1>7 DEF ForwardStep, Supervisor

(* A stop takes entries nobody else has, and lets go of what has ended.      *)
LEMMA OwnerStopperStep ==
  ASSUME TypeOK, Ownership, NEW k \in Stoppers, StopCall(k) \/ Stopper(k)
  PROVE  Ownership'
<1>0. /\ pc \in [Forwards -> PCs] /\ byID \subseteq Forwards
      /\ call \in [Stoppers -> [todo : SUBSET Forwards, at : Forwards \cup {NoForward}]]
      /\ NoForward \notin Forwards
  BY ForwardsAssumption DEF TypeOK
<1> USE <1>0 DEF Ownership, OneOwner, OnlyKnownIsStopped, InTurn, Owners, Known, Supervised,
            SupervisorPCs, supVars, regVars, row, att
<1>1. ASSUME NEW S \in SUBSET byID, Take(k, S) PROVE Ownership'
  BY <1>1 DEF Take, Idle
<1>2. CASE CloseStop(k)
  BY <1>2 DEF CloseStop
<1>3. CASE Waited(k)
  BY <1>3 DEF Waited
<1> QED
  BY <1>1, <1>2, <1>3 DEF StopCall, StopPortForward, StopAllPortForwards,
     stopPortForwardsFor, OfCluster, Stopper

(* What the list says of a forward follows where its supervisor is.          *)
LEMMA RowStep ==
  TypeOK /\ RowFollowsControl /\ [Next]_vars => RowFollowsControl'
<1> SUFFICES ASSUME TypeOK, RowFollowsControl, [Next]_vars
             PROVE  RowFollowsControl'
  OBVIOUS
<1>0. pc \in [Forwards -> PCs]
  BY DEF TypeOK
<1> USE <1>0 DEF RowFollowsControl, supVars, regVars, row, att
<1>1. ASSUME NEW f \in Forwards, AttemptStep(f) \/ Dialler(f)
      PROVE  RowFollowsControl'
  BY <1>1 DEF AttemptStep, Bind, NextFails, CurFails, NextDone, CurDone,
              Dialler, DialReady, DialFailed, DialTimeout, DialTornDown
<1>2. ASSUME NEW f \in Forwards, Starter(f) \/ StartDial(f) PROVE RowFollowsControl'
  BY <1>2 DEF Starter, StartRefused, Register, StartDial
<1>3. ASSUME NEW f \in Forwards, SeesStop(f) PROVE RowFollowsControl'
  BY <1>3 DEF SeesStop, SeeStop, StopInWindow, StopWhileLost, Go
<1>4. ASSUME NEW f \in Forwards,
             Stopped(f) \/ SeeDrop(f) \/ BeginWindow(f) \/ Search(f)
      PROVE  RowFollowsControl'
  <2>1. CASE Stopped(f) \/ SeeDrop(f)
    BY <2>1 DEF Stopped, SeeDrop, Go
  <2>2. CASE BeginWindow(f) \/ Search(f)
    BY <2>2 DEF BeginWindow, Search, Go
  <2> QED BY <1>4, <2>1, <2>2
<1>5. ASSUME NEW f \in Forwards, WindowOver(f) \/ Tick(f) \/ Nudged(f)
      PROVE  RowFollowsControl'
  BY <1>5 DEF WindowOver, Tick, Nudged, Go
<1>6. ASSUME NEW f \in Forwards, FindNone(f) \/ FindPod(f) \/ RedialRefused(f)
      PROVE  RowFollowsControl'
  BY <1>6 DEF FindNone, FindPod, RedialRefused, Go, Back
<1>7. ASSUME NEW f \in Forwards, Redialled(f) \/ Adopt(f) PROVE RowFollowsControl'
  BY <1>7 DEF Redialled, Adopt, Go
<1>8. ASSUME NEW f \in Forwards,
             Panic(f) \/ UnwindPending(f) \/ Unwound(f) \/ ReconnectPortForward(f)
      PROVE  RowFollowsControl'
  BY <1>8 DEF Panic, UnwindPending, Unwound, ReconnectPortForward, Go
<1>9. ASSUME NEW k \in Stoppers, StopCall(k) \/ Stopper(k) PROVE RowFollowsControl'
  BY <1>9 DEF StopCall, StopPortForward, StopAllPortForwards,
              stopPortForwardsFor, Take, Stopper, CloseStop, Waited
<1>10. CASE UNCHANGED vars
  BY <1>10 DEF vars
<1> QED
  BY <1>1, <1>2, <1>3, <1>4, <1>5, <1>6, <1>7, <1>8, <1>9, <1>10
  DEF Next, ForwardStep, Supervisor

(* A dial asks for the forward's own port and binds no other.                *)
LEMMA PortStep ==
  TypeOK /\ PortFollowsDial /\ AttemptsFollowControl /\ [Next]_vars
    => PortFollowsDial'
<1> SUFFICES ASSUME TypeOK, PortFollowsDial, AttemptsFollowControl, [Next]_vars
             PROVE  PortFollowsDial'
  OBVIOUS
<1>0. /\ pc \in [Forwards -> PCs]
      /\ localPort \in [Forwards -> Ports \cup {AnyPort}]
      /\ next \in [Forwards -> Attempts]
      /\ dial \in [Forwards -> {"none", "waiting", "teardown", "ready", "refused"}]
      /\ AnyPort \notin Ports
  BY ForwardsAssumption DEF TypeOK
<1>c. \A f \in Forwards : dial[f] # "none" => pc[f] \in {"starting", "dial"}
  BY DEF AttemptsFollowControl
<1> USE <1>0 DEF PortFollowsDial, Supervised, SupervisorPCs, supVars, regVars, row, att
<1>1. ASSUME NEW f \in Forwards, Bind(f) PROVE PortFollowsDial'
  BY <1>1, AttemptEffects DEF Bind
<1>2. ASSUME NEW f \in Forwards, NextFails(f) \/ NextDone(f) \/ CurFails(f) \/ CurDone(f)
      PROVE  PortFollowsDial'
  <2>1. CASE NextFails(f)
    BY <2>1, AttemptEffects DEF NextFails
  <2>2. CASE NextDone(f)
    BY <2>2, AttemptEffects DEF NextDone
  <2>3. CASE CurFails(f) \/ CurDone(f)
    BY <2>3 DEF CurFails, CurDone
  <2> QED BY <1>2, <2>1, <2>2, <2>3
<1>3. ASSUME NEW f \in Forwards, Dialler(f) PROVE PortFollowsDial'
  BY <1>3, AttemptEffects DEF Dialler, DialReady, DialFailed, DialTimeout, DialTornDown
<1>4. ASSUME NEW f \in Forwards, StartRefused(f) PROVE PortFollowsDial'
  BY <1>4, AttemptEffects DEF StartRefused
<1>5. ASSUME NEW f \in Forwards, Register(f) PROVE PortFollowsDial'
  BY <1>5, AttemptEffects DEF Register
<1>6. ASSUME NEW f \in Forwards, StartDial(f) PROVE PortFollowsDial'
  BY <1>6, AttemptEffects DEF StartDial
<1>7. ASSUME NEW f \in Forwards, SeesStop(f) PROVE PortFollowsDial'
  BY <1>7 DEF SeesStop, SeeStop, StopInWindow, StopWhileLost, Go
<1>8. ASSUME NEW f \in Forwards, Stopped(f) \/ SeeDrop(f) \/ BeginWindow(f)
      PROVE  PortFollowsDial'
  BY <1>8 DEF Stopped, SeeDrop, BeginWindow, Go
<1>9. ASSUME NEW f \in Forwards, Search(f) \/ WindowOver(f) \/ Tick(f) \/ Nudged(f)
      PROVE  PortFollowsDial'
  BY <1>9 DEF Search, WindowOver, Tick, Nudged, Go
<1>10. ASSUME NEW f \in Forwards, FindNone(f) PROVE PortFollowsDial'
  BY <1>10 DEF FindNone, Go, Back
<1>11. ASSUME NEW f \in Forwards, FindPod(f) PROVE PortFollowsDial'
  BY <1>11, AttemptEffects DEF FindPod, Go
<1>12. ASSUME NEW f \in Forwards, RedialRefused(f) PROVE PortFollowsDial'
  <2>1. NoAttempt.st = "none"
    BY DEF NoAttempt
  <2>2. pc'[f] \in {"backoff", "lost"} /\ pc' = [pc EXCEPT ![f] = pc'[f]]
    BY <1>12 DEF RedialRefused, Go, Back
  <2> QED BY <1>12, <2>1, <2>2 DEF RedialRefused
<1>13. ASSUME NEW f \in Forwards, Redialled(f) PROVE PortFollowsDial'
  BY <1>13 DEF Redialled, Go
<1>14. ASSUME NEW f \in Forwards, Adopt(f) PROVE PortFollowsDial'
  BY <1>14, <1>c, AttemptEffects DEF Adopt, Go
<1>15. ASSUME NEW f \in Forwards, Panic(f) \/ UnwindPending(f) PROVE PortFollowsDial'
  <2>1. CASE Panic(f)
    BY <2>1 DEF Panic, Go
  <2>2. CASE UnwindPending(f)
    <3>1. dial[f] = "none"
      BY <2>2, <1>c DEF UnwindPending
    <3> QED BY <2>2, <3>1, AttemptEffects DEF UnwindPending, Go
  <2> QED BY <1>15, <2>1, <2>2
<1>16. ASSUME NEW f \in Forwards, Unwound(f) \/ ReconnectPortForward(f)
      PROVE  PortFollowsDial'
  BY <1>16 DEF Unwound, ReconnectPortForward, Go
<1>17. ASSUME NEW k \in Stoppers, StopCall(k) \/ Stopper(k) PROVE PortFollowsDial'
  BY <1>17 DEF StopCall, StopPortForward, StopAllPortForwards,
               stopPortForwardsFor, Take, Stopper, CloseStop, Waited
<1>18. CASE UNCHANGED vars
  BY <1>18 DEF vars
<1> QED
  BY <1>1, <1>2, <1>3, <1>4, <1>5, <1>6, <1>7, <1>8, <1>9, <1>10, <1>11, <1>12,
     <1>13, <1>14, <1>15, <1>16, <1>17, <1>18
  DEF Next, ForwardStep, Supervisor, Starter, AttemptStep

-----------------------------------------------------------------------------
LEMMA IInvInit == Init => IInv
<1> SUFFICES ASSUME Init PROVE IInv
  OBVIOUS
<1>1. TypeOK
  BY TypeInit
<1>2. AttemptsFollowControl
  BY DEF Init, AttemptsFollowControl, NoAttempt
<1>6. AttemptsEnd
  BY DEF Init, AttemptsEnd, NoAttempt
<1>3. OneOwner /\ OnlyKnownIsStopped /\ InTurn
  BY ForwardsAssumption
  DEF Init, OneOwner, OnlyKnownIsStopped, InTurn, Owners, Idle, Supervised, SupervisorPCs
<1>4. RowFollowsControl
  BY DEF Init, RowFollowsControl
<1>5. PortFollowsDial
  BY DEF Init, PortFollowsDial, NoAttempt, Supervised, SupervisorPCs
<1> QED
  BY <1>1, <1>2, <1>3, <1>4, <1>5, <1>6 DEF IInv

LEMMA IInvStep == IInv /\ [Next]_vars => IInv'
<1> SUFFICES ASSUME IInv, [Next]_vars PROVE IInv'
  OBVIOUS
<1>1. TypeOK'
  BY TypeStep DEF IInv
<1>2. AttemptsFollowControl'
  BY ControlStep DEF IInv
<1>6. AttemptsEnd'
  BY EndStep DEF IInv
<1>3. Ownership'
  <2>1. CASE UNCHANGED vars
    BY <2>1 DEF IInv, vars, regVars, Ownership, OneOwner, OnlyKnownIsStopped, InTurn,
                Owners, Known, Supervised
  <2>2. CASE Next
    BY <2>2, OwnerForwardStep, OwnerStopperStep DEF IInv, Ownership, Next
  <2> QED BY <2>1, <2>2
<1>4. RowFollowsControl'
  BY RowStep DEF IInv
<1>5. PortFollowsDial'
  BY PortStep DEF IInv
<1> QED
  BY <1>1, <1>2, <1>3, <1>4, <1>5, <1>6 DEF IInv, Ownership

(* The parts of the inductive invariant hold in every reachable state.       *)
THEOREM Invariance == Spec => []IInv
  BY IInvInit, IInvStep, PTL DEF Spec

(* Every variable keeps its type, whatever the forwards and ports are.       *)
THEOREM TypeCorrect == Spec => []TypeOK
<1>1. IInv => TypeOK
  BY DEF IInv
<1> QED
  BY <1>1, Invariance, PTL

(* No supervisor that has gone, and no refused start, leaves an attempt      *)
(* running or a local port bound.                                            *)
THEOREM NoLeak == Spec => []GoneHoldsNothing
<1>1. IInv => GoneHoldsNothing
  BY DEF IInv, AttemptsFollowControl, GoneHoldsNothing, NothingRuns, Over
<1> QED
  BY <1>1, Invariance, PTL

(* A live supervisor is registered or in the hands of exactly one stopper,   *)
(* so that no stop channel is closed twice.                                  *)
THEOREM Owned == Spec => []OneOwner
<1>1. IInv => OneOwner
  BY DEF IInv
<1> QED
  BY <1>1, Invariance, PTL

(* A forward never dials an attempt while an earlier one of its own lives,   *)
(* and waits as lost with none.                                              *)
THEOREM OneAtATime == Spec => []OneAttempt
<1>1. IInv => OneAttempt
  <2>1. IInv => pc \in [Forwards -> PCs]
    BY DEF IInv, TypeOK
  <2> QED
    BY <2>1 DEF IInv, PCs, SupervisorPCs, AttemptsFollowControl, OneAttempt,
                NothingRuns, Over
<1> QED
  BY <1>1, Invariance, PTL

(* The flags of a listed forward say what its supervisor is doing.           *)
THEOREM Honest == Spec => []RowIsHonest
<1>1. IInv => RowIsHonest
  <2>1. IInv => byID \subseteq Forwards
    BY DEF IInv, TypeOK
  <2> QED BY <2>1 DEF IInv, RowFollowsControl, RowIsHonest
<1> QED
  BY <1>1, Invariance, PTL

(* No reconnect moves a forward to another local port.                       *)
THEOREM PortKept == Spec => KeepsItsPort
<1> DEFINE PortIsKept == \A f \in Forwards : Supervised(f) => localPort'[f] = localPort[f]
<1>1. ASSUME IInv, [Next]_vars PROVE [PortIsKept]_vars
  <2>1. ASSUME NEW f \in Forwards, ForwardStep(f) PROVE PortIsKept
    <3>1. CASE Register(f)
      BY <3>1 DEF Register, Supervised, SupervisorPCs, IInv, TypeOK
    <3>2. CASE Redialled(f)
      <4>1. next[f].port = localPort[f]
        BY <1>1, <3>2 DEF Redialled, IInv, PortFollowsDial
      <4>2. localPort' = [localPort EXCEPT ![f] = localPort[f]]
        BY <3>2, <4>1 DEF Redialled
      <4>3. localPort \in [Forwards -> Ports \cup {AnyPort}]
        BY <1>1 DEF IInv, TypeOK
      <4> QED BY <4>2, <4>3
    <3>3. CASE UNCHANGED localPort
      BY <3>3
    <3> QED
      BY <2>1, <3>1, <3>2, <3>3
      DEF ForwardStep, AttemptStep, Dialler, Starter, Supervisor, SeesStop,
          Bind, NextFails, CurFails, NextDone, CurDone, DialReady, DialFailed,
          DialTimeout, DialTornDown, StartDial, StartRefused, SeeStop, Stopped,
          SeeDrop, BeginWindow, StopInWindow, Search, WindowOver, FindNone, FindPod,
          RedialRefused, Adopt, StopWhileLost, Tick, Nudged, Panic, UnwindPending,
          Unwound, ReconnectPortForward, supVars, row
  <2>2. ASSUME NEW k \in Stoppers, Stopper(k) \/ StopCall(k) PROVE PortIsKept
    BY <2>2 DEF StopCall, StopPortForward, StopAllPortForwards, stopPortForwardsFor,
                Take, Stopper, CloseStop, Waited, supVars, row
  <2> QED
    BY <1>1, <2>1, <2>2 DEF Next
<1> QED
  BY <1>1, Invariance, PTL DEF Spec, KeepsItsPort
-----------------------------------------------------------------------------
(* The registry implements Custody: a step of an attempt or of a dial is not *)
(* seen there, a step of a supervisor only when it is the first or the last. *)

Lives == [f \in Forwards |-> Life(f)]

LEMMA CustodyInit == Init => Kept!Init
  BY DEF Init, Kept!Init, Idle, Life, Stopping, Supervised, SupervisorPCs

LEMMA CustodyUnseen ==
  ASSUME UNCHANGED <<Lives, byID, call, stopClosed>>
  PROVE  UNCHANGED Kept!vars
  BY DEF Kept!vars, Lives, Stopping

(* Most steps keep a supervisor what it was.                                 *)
LEMMA CustodySameLife ==
  ASSUME TypeOK, NEW f \in Forwards, NEW to, Go(f, to), UNCHANGED regVars,
         \/ Supervised(f) /\ to \in SupervisorPCs
         \/ pc[f] \in {"idle", "starting"} /\ to \in {"starting", "refused"}
  PROVE  UNCHANGED Kept!vars
  <1>1. \A g \in Forwards : pc'[g] = IF g = f THEN to ELSE pc[g]
    BY DEF Go, TypeOK
  <1>2. \A g \in Forwards : Life(g)' = Life(g)
    BY <1>1 DEF Life, Supervised, SupervisorPCs
  <1>3. Lives' = Lives
    BY <1>2 DEF Lives
  <1> QED
    BY <1>3, CustodyUnseen DEF regVars

(* The supervisor ends: asked, or in the unwinding of its panic.             *)
LEMMA CustodyEnd ==
  ASSUME TypeOK, NEW f \in Forwards, Supervised(f), Go(f, "exited"),
         byID' \in {byID, byID \ {f}}, UNCHANGED <<stopClosed, call>>
  PROVE  Kept!End(f)
  <1>1. \A g \in Forwards : pc'[g] = IF g = f THEN "exited" ELSE pc[g]
    BY DEF Go, TypeOK
  <1>2. Life(f) = "alive" /\ Life(f)' = "ended"
    BY <1>1 DEF Life, Supervised, SupervisorPCs
  <1>3. \A g \in Forwards : g # f => Life(g)' = Life(g)
    BY <1>1 DEF Life, Supervised
  <1>4. Lives[f] = "alive" /\ Lives' = [Lives EXCEPT ![f] = "ended"]
    BY <1>2, <1>3 DEF Lives
  <1> QED
    BY <1>4 DEF Kept!End, Lives, Stopping

LEMMA CustodyBegin ==
  ASSUME TypeOK, NEW f \in Forwards, Register(f)
  PROVE  Kept!Begin(f)
  <1>1. \A g \in Forwards : pc'[g] = IF g = f THEN "run" ELSE pc[g]
    BY DEF Register, TypeOK
  <1>2. Life(f) = "new" /\ Life(f)' = "alive"
    BY <1>1 DEF Register, Life, Supervised, SupervisorPCs
  <1>3. \A g \in Forwards : g # f => Life(g)' = Life(g)
    BY <1>1 DEF Life, Supervised
  <1>4. Lives[f] = "new" /\ Lives' = [Lives EXCEPT ![f] = "alive"]
    BY <1>2, <1>3 DEF Lives
  <1> QED
    BY <1>4 DEF Register, Kept!Begin, Lives, Stopping

LEMMA CustodyForwardStep ==
  ASSUME TypeOK, NEW f \in Forwards, ForwardStep(f)
  PROVE  Kept!Begin(f) \/ Kept!End(f) \/ UNCHANGED Kept!vars
  <1>1. CASE AttemptStep(f) \/ Dialler(f) \/ ReconnectPortForward(f)
    <2>1. UNCHANGED <<pc, byID, call, stopClosed>>
      BY <1>1 DEF AttemptStep, Bind, NextFails, CurFails, NextDone, CurDone, Dialler,
                  DialReady, DialFailed, DialTimeout, DialTornDown, ReconnectPortForward,
                  regVars
    <2>2. Lives' = Lives
      BY <2>1 DEF Lives, Life, Supervised
    <2> QED
      BY <2>1, <2>2, CustodyUnseen
  <1>2. CASE StartDial(f) \/ StartRefused(f)
    BY <1>2, CustodySameLife DEF StartDial, StartRefused, Go
  <1>3. CASE Register(f)
    BY <1>3, CustodyBegin
  <1>4. CASE SeeStop(f) \/ SeeDrop(f) \/ BeginWindow(f) \/ Search(f) \/ WindowOver(f)
             \/ FindPod(f) \/ Adopt(f) \/ Tick(f) \/ Nudged(f) \/ Panic(f)
             \/ UnwindPending(f) \/ Redialled(f)
    <2>1. /\ Supervised(f) /\ UNCHANGED regVars
          /\ \E to \in SupervisorPCs : Go(f, to)
      BY <1>4 DEF SeeStop, SeeDrop, BeginWindow, Search, WindowOver, FindPod, Adopt, Tick,
                  Nudged, Panic, UnwindPending, Redialled, Supervised, SupervisorPCs
    <2> QED
      BY <2>1, CustodySameLife
  <1>5. CASE FindNone(f) \/ RedialRefused(f)
    <2>1. /\ Supervised(f) /\ UNCHANGED regVars
          /\ \E to \in SupervisorPCs : Go(f, to)
      BY <1>5 DEF FindNone, RedialRefused, Back, Supervised, SupervisorPCs
    <2> QED
      BY <2>1, CustodySameLife
  <1>6. CASE Stopped(f) \/ StopInWindow(f) \/ StopWhileLost(f) \/ Unwound(f)
    <2>1. /\ Supervised(f) /\ Go(f, "exited") /\ byID' \in {byID, byID \ {f}}
          /\ UNCHANGED <<stopClosed, call>>
      BY <1>6 DEF Stopped, StopInWindow, StopWhileLost, Unwound, Supervised,
                  SupervisorPCs, regVars
    <2> QED
      BY <2>1, CustodyEnd
  <1> QED
    BY <1>1, <1>2, <1>3, <1>4, <1>5, <1>6
    DEF ForwardStep, Supervisor, SeesStop, Starter

(* A stop takes what it will stop, asks one and lets go of it in turn.       *)
LEMMA CustodyStopperStep ==
  ASSUME IInv, NEW k \in Stoppers, StopCall(k) \/ Stopper(k)
  PROVE  \/ \E S \in SUBSET byID : Kept!Take(k, S)
         \/ \E f \in Forwards : Kept!Ask(k, f) \/ Kept!LetGo(k, f)
  <1> DEFINE held == [j \in Stoppers |-> Stopping(j)]
  <1> USE ForwardsAssumption DEF IInv
  <1>0. /\ byID \subseteq Forwards
        /\ call \in [Stoppers -> [todo : SUBSET Forwards, at : Forwards \cup {NoForward}]]
    BY DEF TypeOK
  <1>1. ASSUME NEW S \in SUBSET byID, Take(k, S) PROVE Kept!Take(k, S)
    <2>1. \A j \in Stoppers :
            call'[j] = IF j = k THEN [todo |-> S, at |-> NoForward] ELSE call[j]
      BY <1>0, <1>1 DEF Take, Idle
    <2>2. \A j \in Stoppers : Stopping(j)' = IF j = k THEN S ELSE Stopping(j)
      BY <2>1 DEF Stopping
    <2>3. Stopping(k) = {}
      BY <1>1 DEF Take, Idle, Stopping
    <2>4. held[k] = {} /\ held' = [held EXCEPT ![k] = S]
      BY <2>2, <2>3
    <2>5. Lives' = Lives
      BY <1>1 DEF Take, Lives, Life, Supervised
    <2> QED
      BY <1>1, <2>4, <2>5 DEF Take, Kept!Take, Lives
  <1>2. CASE CloseStop(k)
    <2>1. PICK f \in call[k].todo :
            /\ stopClosed' = stopClosed \cup {f}
            /\ call' = [call EXCEPT ![k] = [todo |-> @.todo \ {f}, at |-> f]]
      BY <1>2 DEF CloseStop
    <2>2. f \in Forwards /\ held[k] = call[k].todo
      BY <1>0, <1>2 DEF CloseStop, Stopping
    <2>3. held' = held
      BY <1>0, <1>2, <2>1, <2>2 DEF CloseStop, Stopping
    <2>4. Lives' = Lives
      BY <1>2 DEF CloseStop, Lives, Life, Supervised
    <2>5. held[k] \cap stopClosed = {}
      BY <2>2 DEF InTurn
    <2> QED
      BY <1>2, <2>1, <2>2, <2>3, <2>4, <2>5 DEF CloseStop, Kept!Ask, Lives
  <1>3. CASE Waited(k)
    <2>1. PICK f \in Forwards :
            f = call[k].at /\ f \in stopClosed /\ f \notin call[k].todo /\ pc[f] = "exited"
      BY <1>0, <1>3 DEF Waited, InTurn
    <2>2. \A j \in Stoppers :
            call'[j] = IF j = k THEN [todo |-> call[k].todo, at |-> NoForward] ELSE call[j]
      BY <1>0, <1>3 DEF Waited
    <2>3. \A j \in Stoppers : Stopping(j)' = IF j = k THEN call[k].todo ELSE Stopping(j)
      BY <2>2 DEF Stopping
    <2>4. f \in Stopping(k) /\ call[k].todo = Stopping(k) \ {f}
      BY <2>1 DEF Stopping
    <2>5. f \in held[k] /\ held' = [held EXCEPT ![k] = @ \ {f}]
      BY <2>1, <2>3, <2>4
    <2>6. Lives' = Lives /\ Lives[f] = "ended"
      BY <1>3, <2>1 DEF Waited, Lives, Life, Supervised, SupervisorPCs
    <2>7. UNCHANGED <<byID, stopClosed>>
      BY <1>3 DEF Waited
    <2>8. Kept!LetGo(k, f)
      BY <2>1, <2>5, <2>6, <2>7 DEF Kept!LetGo, Lives
    <2> QED
      BY <2>1, <2>8
  <1> QED
    BY <1>1, <1>2, <1>3 DEF StopCall, StopPortForward, StopAllPortForwards,
       stopPortForwardsFor, OfCluster, Stopper

LEMMA CustodyStep == IInv /\ [Next]_vars => [Kept!Next]_(Kept!vars)
  <1> SUFFICES ASSUME IInv, [Next]_vars PROVE Kept!Next \/ UNCHANGED Kept!vars
    OBVIOUS
  <1>1. CASE \E f \in Forwards : ForwardStep(f)
    BY <1>1, CustodyForwardStep DEF IInv, Kept!Next
  <1>2. CASE \E k \in Stoppers : Stopper(k) \/ StopCall(k)
    BY <1>2, CustodyStopperStep DEF Kept!Next
  <1>3. CASE UNCHANGED vars
    <2>1. Lives' = Lives
      BY <1>3 DEF vars, Lives, Life, Supervised
    <2> QED
      BY <1>3, <2>1, CustodyUnseen DEF vars, regVars
  <1> QED
    BY <1>1, <1>2, <1>3 DEF Next

(* A stop channel is closed once, by the stop that took the entry, which     *)
(* returns when every supervisor it took has ended, whatever other stops,    *)
(* nudges and panics overlap with it.                                        *)
THEOREM Custodian == Spec => ForwardsInCustody
  <1>1. Init => Kept!Init
    BY CustodyInit
  <1>2. IInv /\ [Next]_vars => [Kept!Next]_(Kept!vars)
    BY CustodyStep
  <1> QED
    BY <1>1, <1>2, Invariance, PTL DEF Spec, ForwardsInCustody, Kept!Spec
-----------------------------------------------------------------------------
(* Liveness. tlapm cannot expand ENABLED, so Fair is FairSpec with the guard *)
(* of each fair step written out where WF and SF have its ENABLED: a step    *)
(* that stays due is taken, and a stop that is due again and again is seen.  *)
Ending(a) == a.st \in {"closing", "failed"}
Answered(f) == dial[f] \in {"ready", "refused"}
SupervisorDue(f) ==
    \/ pc[f] \in {"find", "adopt"}
    \/ pc[f] \in {"drop", "stopping", "unwindCur"} /\ cur[f].st = "done"
    \/ pc[f] = "dial" /\ Answered(f)
    \/ pc[f] = "unwindNext" /\ (f \in pending => next[f].st = "done")
StarterDue(f) == pc[f] = "starting" /\ Answered(f)
DiallerDue(f) == dial[f] = "waiting" \/ (dial[f] = "teardown" /\ next[f].st = "done")
StopDue(f) == pc[f] \in {"run", "backoff", "lost"} /\ f \in stopClosed
StopperDue(k) ==
    IF call[k].at = NoForward THEN call[k].todo # {} ELSE pc[call[k].at] = "exited"

ForwardRuns(f) ==
    /\ []<>~SupervisorDue(f) \/ []<><<Supervisor(f)>>_vars
    /\ []<>~StarterDue(f) \/ []<><<Starter(f)>>_vars
    /\ []<>~DiallerDue(f) \/ []<><<Dialler(f)>>_vars
    /\ <>[]~StopDue(f) \/ []<><<SeesStop(f)>>_vars
    /\ []<>~Ending(next[f]) \/ []<><<NextDone(f)>>_vars
    /\ []<>~Ending(cur[f]) \/ []<><<CurDone(f)>>_vars
StopperRuns(k) == []<>~StopperDue(k) \/ []<><<Stopper(k)>>_vars
Fair ==
    /\ Spec
    /\ \A f \in Forwards : ForwardRuns(f)
    /\ \A k \in Stoppers : StopperRuns(k)

LEMMA Scheduled ==
  ASSUME NEW f \in Forwards
  PROVE  Fair => ForwardRuns(f)
  BY DEF Fair

(* How any step moves a forward: where its supervisor goes, ...              *)
Leaves(f, to) == pc'[f] \in to
SupervisorMoves(f) ==
    \/ pc[f] = "idle" /\ Leaves(f, {"starting"})
    \/ pc[f] = "starting" /\ Answered(f) /\ Leaves(f, {"run", "refused"})
    \/ pc[f] = "run" /\ Leaves(f, {"drop", "stopping"})
    \/ pc[f] = "drop" /\ Leaves(f, {"backoff", "unwindCur"})
    \/ pc[f] = "backoff" /\ Leaves(f, {"exited", "find", "lost"})
    \/ pc[f] = "find" /\ Leaves(f, {"backoff", "lost", "dial", "unwindCur"})
    \/ pc[f] = "dial" /\ Answered(f) /\ Leaves(f, {"backoff", "lost", "adopt"})
    \/ pc[f] = "adopt" /\ Leaves(f, {"run", "unwindCur"})
    \/ pc[f] = "lost" /\ Leaves(f, {"exited", "find", "backoff"})
    \/ pc[f] = "stopping" /\ Leaves(f, {"exited"})
    \/ pc[f] = "unwindCur" /\ Leaves(f, {"unwindNext"})
    \/ pc[f] = "unwindNext" /\ Leaves(f, {"exited"})

(* ... what a dial in progress answers, ...                                  *)
DialMoves(f) ==
    \/ dial[f] = "waiting" /\ dial'[f] \in {"ready", "refused", "teardown"}
    \/ dial[f] = "teardown" /\ dial'[f] = "refused"

(* ... and how an attempt ends while nobody acts on it.                      *)
AttemptMoves(a, b) ==
    \/ b.st = a.st
    \/ a.st = "opening" /\ b.st \in {"up", "failed"}
    \/ a.st = "aborting" /\ b.st \in {"closing", "failed"}
    \/ a.st = "up" /\ b.st = "failed"
    \/ Ending(a) /\ b.st = "done"

LocalStep(f) ==
    /\ f \in stopClosed => f \in stopClosed'
    /\ \/ SupervisorMoves(f)
       \/ /\ pc'[f] = pc[f]
          /\ f \in pending' <=> f \in pending
          /\ cur'[f] = cur[f]
          /\ DialMoves(f)
       \/ /\ pc'[f] = pc[f] /\ dial'[f] = dial[f]
          /\ f \in pending' <=> f \in pending
          /\ AttemptMoves(cur[f], cur'[f]) /\ AttemptMoves(next[f], next'[f])

LEMMA Local ==
  ASSUME IInv, [Next]_vars, NEW f \in Forwards
  PROVE  LocalStep(f)
<1>0. /\ cur \in [Forwards -> Attempts] /\ next \in [Forwards -> Attempts]
      /\ pc \in [Forwards -> PCs] /\ pending \subseteq Forwards
      /\ dial \in [Forwards -> {"none", "waiting", "teardown", "ready", "refused"}]
  BY DEF IInv, TypeOK
<1> USE <1>0 DEF LocalStep, supVars, regVars, row, att
<1>1. ASSUME NEW g \in Forwards, ForwardStep(g), g # f
      PROVE  /\ pc'[f] = pc[f] /\ dial'[f] = dial[f] /\ cur'[f] = cur[f] /\ next'[f] = next[f]
             /\ f \in pending' <=> f \in pending
             /\ stopClosed' = stopClosed
  <2>1. CASE StartDial(g) \/ ReconnectPortForward(g) \/ Panic(g)
    BY <1>1, <2>1 DEF StartDial, ReconnectPortForward, Panic, Go
  <2>2. CASE AttemptStep(g) \/ Dialler(g)
    BY <1>1, <2>2 DEF AttemptStep, Bind, NextFails, CurFails, NextDone, CurDone, Dialler,
                      DialReady, DialFailed, DialTimeout, DialTornDown
  <2>3. CASE Starter(g) \/ SeesStop(g) \/ Nudged(g)
    BY <1>1, <2>3 DEF Starter, StartRefused, Register, SeesStop, SeeStop, StopInWindow,
                      StopWhileLost, Nudged, Go
  <2>4. CASE Supervisor(g)
    BY <1>1, <2>4 DEF Supervisor, Stopped, SeeDrop, BeginWindow, Search, WindowOver, FindNone,
                      FindPod, RedialRefused, Redialled, Adopt, Tick, UnwindPending, Unwound,
                      Back, Go
  <2> QED
    BY <1>1, <2>1, <2>2, <2>3, <2>4 DEF ForwardStep
<1>2. CASE AttemptStep(f)
  <2>1. CASE Bind(f)
    BY <2>1, AttemptEffects DEF Bind, Bound, AttemptMoves
  <2>2. CASE NextFails(f) \/ NextDone(f)
    BY <2>2, AttemptEffects DEF NextFails, NextDone, AttemptMoves, Ending
  <2>3. CASE CurFails(f) \/ CurDone(f)
    BY <2>3, AttemptEffects DEF CurFails, CurDone, AttemptMoves, Ending
  <2> QED
    BY <1>2, <2>1, <2>2, <2>3 DEF AttemptStep
<1>3. CASE Dialler(f)
  BY <1>3 DEF Dialler, DialReady, DialFailed, DialTimeout, DialTornDown, DialMoves
<1>4. CASE Starter(f) \/ StartDial(f)
  BY <1>4 DEF Starter, StartRefused, Register, StartDial, SupervisorMoves, Leaves, Answered
<1>5. CASE SeesStop(f) \/ Nudged(f) \/ Panic(f)
  BY <1>5 DEF SeesStop, SeeStop, StopInWindow, StopWhileLost, Nudged, Panic, Go,
              SupervisorMoves, Leaves
<1>6. CASE Supervisor(f)
  <2>1. CASE FindNone(f) \/ RedialRefused(f)
    BY <2>1 DEF FindNone, RedialRefused, Back, Go, SupervisorMoves, Leaves, Answered
  <2>2. CASE ~(FindNone(f) \/ RedialRefused(f))
    BY <1>6, <2>2 DEF Supervisor, Stopped, SeeDrop, BeginWindow, Search, WindowOver, FindPod,
                      Redialled, Adopt, Tick, UnwindPending, Unwound, Go, SupervisorMoves,
                      Leaves, Answered
  <2> QED
    BY <2>1, <2>2
<1>7. CASE ReconnectPortForward(f)
  BY <1>7 DEF ReconnectPortForward, AttemptMoves
<1>8. ASSUME NEW k \in Stoppers, StopCall(k) \/ Stopper(k) PROVE LocalStep(f)
  BY <1>8 DEF StopCall, StopPortForward, StopAllPortForwards, stopPortForwardsFor, Take,
              Stopper, CloseStop, Waited, AttemptMoves
<1>9. CASE UNCHANGED vars
  BY <1>9 DEF vars, AttemptMoves
<1> QED
  BY <1>1, <1>2, <1>3, <1>4, <1>5, <1>6, <1>7, <1>8, <1>9 DEF Next, ForwardStep, AttemptMoves

(* A step of the supervisor takes it somewhere else.                         *)
LEMMA SupervisorActs ==
  ASSUME IInv, NEW f \in Forwards, Supervisor(f)
  PROVE  pc'[f] # pc[f]
<1>0. pc \in [Forwards -> PCs]
  BY DEF IInv, TypeOK
<1> QED
  BY <1>0, Supervisor(f) DEF Supervisor, Stopped, SeeDrop, BeginWindow, Search, WindowOver, FindNone, FindPod,
                  RedialRefused, Redialled, Adopt, Tick, UnwindPending, Unwound, Back, Go

(* A dial is answered or hangs: it hears from the attempt or times out, and  *)
(* the attempt it tears down ends once it has connected or was refused, also *)
(* one that sees the stop after it bound.                                    *)
LEMMA DialEnded ==
  ASSUME NEW f \in Forwards
  PROVE  Fair => (dial[f] \in {"waiting", "teardown"} ~> Answered(f) \/ []Hung(f))
  <1> DEFINE Open == dial[f] \in {"waiting", "teardown"}
             Waiting == dial[f] = "waiting"
             Aborting == Hung(f)
             Closing == dial[f] = "teardown" /\ Ending(next[f])
             Down == dial[f] = "teardown" /\ next[f].st = "done"
             Heard == Answered(f)
             Dials == Dialler(f)
             Ends == NextDone(f)
             DialDue == DiallerDue(f)
             EndDue == Ending(next[f])
  <1>1. IInv /\ Open => Waiting \/ Aborting \/ Closing \/ Down
    BY DEF IInv, AttemptsEnd, Ending, Hung
  <1>2. IInv /\ Open /\ [Next]_vars =>
          \/ DialMoves(f)
          \/ dial'[f] = dial[f] /\ AttemptMoves(next[f], next'[f])
    <2>1. IInv /\ Open => pc[f] \in {"starting", "dial"} /\ ~Answered(f)
      BY DEF IInv, AttemptsFollowControl, Answered
    <2> QED
      BY <2>1, Local DEF LocalStep, SupervisorMoves
  <1>3. IInv /\ Waiting /\ [Next]_vars => Waiting' \/ Open' \/ Heard'
    BY <1>2 DEF DialMoves, Answered
  <1>4. IInv /\ Aborting /\ [Next]_vars => Aborting' \/ Closing' \/ Heard'
    BY <1>2 DEF DialMoves, AttemptMoves, Ending, Hung, Answered
  <1>5. IInv /\ Closing /\ [Next]_vars => Closing' \/ Down' \/ Heard'
    BY <1>2 DEF DialMoves, AttemptMoves, Ending, Answered
  <1>6. IInv /\ Down /\ [Next]_vars => Down' \/ Heard'
    BY <1>2 DEF DialMoves, AttemptMoves, Ending, Answered
  <1>7. /\ Waiting \/ Down => DialDue
        /\ Closing => EndDue
    BY DEF DiallerDue, Ending
  <1>8. IInv /\ Dials /\ [Next]_vars => (Waiting => ~Waiting') /\ (Down => Heard')
    BY DEF Dialler, DialReady, DialFailed, DialTimeout, DialTornDown, Answered, IInv, TypeOK
  <1>9. IInv /\ Ends /\ Closing => ~Closing'
    BY AttemptEffects DEF NextDone, Ending, IInv, TypeOK
  <1>10. Fair => /\ []<>~DialDue \/ []<><<Dials>>_vars
                 /\ []<>~EndDue \/ []<><<Ends>>_vars
    BY Scheduled, PTL DEF ForwardRuns
  <1> HIDE DEF Open, Waiting, Aborting, Closing, Down, Heard, Dials, Ends, DialDue, EndDue
  <1>11. Fair => (Open ~> Heard \/ []Aborting)
    BY Invariance, <1>1, <1>3, <1>4, <1>5, <1>6, <1>7, <1>8, <1>9, <1>10,
       PTL DEF Fair, Spec
  <1> QED
    BY <1>11 DEF Open, Heard, Aborting

(* An attempt a supervisor waits for ends, and with it the supervisor, which *)
(* unwinds or was told to stop.                                              *)
LEMMA LastWaits ==
  ASSUME NEW f \in Forwards
  PROVE  Fair => (pc[f] \in {"stopping", "unwindCur", "unwindNext"} ~> pc[f] = "exited")
  <1> DEFINE Last == pc[f] \in {"stopping", "unwindCur", "unwindNext"}
             Closing == pc[f] \in {"stopping", "unwindCur"} /\ Ending(cur[f])
             Ended == pc[f] \in {"stopping", "unwindCur"} /\ cur[f].st = "done"
             Unwinding == pc[f] = "unwindNext" /\ f \in pending /\ Ending(next[f])
             Free == pc[f] = "unwindNext" /\ (f \in pending => next[f].st = "done")
             Gone == pc[f] = "exited"
             Moves == Supervisor(f)
             CurEnds == CurDone(f)
             NextEnds == NextDone(f)
             Due == SupervisorDue(f)
             CurDue == Ending(cur[f])
             NextDue == Ending(next[f])
  <1>1. IInv /\ Last => Closing \/ Ended \/ Unwinding \/ Free
    BY DEF IInv, AttemptsEnd, Ending
  <1>2. IInv /\ Last /\ [Next]_vars =>
          \/ pc[f] = "stopping" /\ pc'[f] = "exited"
          \/ pc[f] = "unwindCur" /\ pc'[f] = "unwindNext"
          \/ pc[f] = "unwindNext" /\ pc'[f] = "exited"
          \/ /\ pc'[f] = pc[f] /\ (f \in pending' <=> f \in pending)
             /\ AttemptMoves(cur[f], cur'[f]) /\ AttemptMoves(next[f], next'[f])
    <2>1. IInv /\ Last => dial[f] = "none"
      BY DEF IInv, AttemptsFollowControl
    <2> QED
      BY <2>1, Local DEF LocalStep, SupervisorMoves, Leaves, DialMoves
  <1>3. IInv /\ IInv' /\ Closing /\ [Next]_vars =>
           Closing' \/ Ended' \/ Unwinding' \/ Free' \/ Gone'
    BY <1>1, <1>2 DEF IInv, AttemptsEnd, Ending
  <1>4. IInv /\ IInv' /\ Ended /\ [Next]_vars => Ended' \/ Unwinding' \/ Free' \/ Gone'
    BY <1>2 DEF IInv, AttemptsEnd, Ending, AttemptMoves
  <1>5. IInv /\ Unwinding /\ [Next]_vars => Unwinding' \/ Free' \/ Gone'
    BY <1>2 DEF AttemptMoves, Ending
  <1>6. IInv /\ Free /\ [Next]_vars => Free' \/ Gone'
    BY <1>2 DEF AttemptMoves, Ending
  <1>7. /\ Ended \/ Free => Due
        /\ Closing => CurDue
        /\ Unwinding => NextDue
    BY DEF SupervisorDue
  <1>8. IInv /\ Moves => (Ended => ~Ended') /\ (Free => ~Free')
    <2>1. IInv /\ Ended /\ Moves => pc'[f] \in {"exited", "unwindNext"}
      BY DEF Supervisor, Stopped, SeeDrop, BeginWindow, Search, WindowOver, FindNone, FindPod,
             RedialRefused, Redialled, Adopt, Tick, UnwindPending, Unwound, Go, IInv, TypeOK
    <2> QED
      BY <2>1, SupervisorActs
  <1>9. IInv /\ CurEnds /\ Closing => ~Closing'
    BY AttemptEffects DEF CurDone, Ending, IInv, TypeOK
  <1>10. IInv /\ NextEnds /\ Unwinding => ~Unwinding'
    BY AttemptEffects DEF NextDone, Ending, IInv, TypeOK
  <1>11. Fair => /\ []<>~Due \/ []<><<Moves>>_vars
                 /\ []<>~CurDue \/ []<><<CurEnds>>_vars
                 /\ []<>~NextDue \/ []<><<NextEnds>>_vars
    BY Scheduled, PTL DEF ForwardRuns
  <1> HIDE DEF Last, Closing, Ended, Unwinding, Free, Gone, Moves, CurEnds, NextEnds, Due,
               CurDue, NextDue
  <1>12. Fair => (Last ~> Gone)
    BY Invariance, <1>1, <1>3, <1>4, <1>5, <1>6, <1>7, <1>8, <1>9, <1>10, <1>11,
       PTL DEF Fair, Spec
  <1> QED
    BY <1>12 DEF Last, Gone

(* Who dialled goes on when it has the answer: the caller of a start, ...    *)
THEOREM StartsEnd == Fair => StartsReturn
  <1> SUFFICES ASSUME NEW f \in Forwards
               PROVE  Fair => (pc[f] = "starting" ~> pc[f] \in {"run", "refused"} \/ []Hung(f))
    BY DEF StartsReturn
  <1> DEFINE Starts == pc[f] = "starting"
             Open == dial[f] \in {"waiting", "teardown"}
             Heard == Answered(f)
             Stuck == Hung(f)
             Done == pc[f] \in {"run", "refused"}
             Moves == Starter(f)
             Due == StarterDue(f)
  <1>1. IInv /\ Starts => Open \/ Heard
    BY DEF IInv, TypeOK, AttemptsEnd, Answered
  <1>2. IInv /\ Starts /\ [Next]_vars => Starts' \/ Done'
    BY Local DEF LocalStep, SupervisorMoves, Leaves
  <1>3. IInv /\ Starts /\ Heard /\ [Next]_vars => (Starts /\ Heard)' \/ Done'
    BY Local DEF LocalStep, SupervisorMoves, Leaves, DialMoves, Answered
  <1>4. Starts /\ Heard => Due
    BY DEF StarterDue
  <1>5. IInv /\ Moves => Done'
    BY DEF Starter, StartRefused, Register, IInv, TypeOK
  <1>6. Fair => (Open ~> Heard \/ []Stuck) /\ ([]<>~Due \/ []<><<Moves>>_vars)
    <2>1. Fair => []<>~Due \/ []<><<Moves>>_vars
      BY Scheduled, PTL DEF ForwardRuns
    <2> QED
      BY <2>1, DialEnded
  <1> HIDE DEF Starts, Open, Heard, Stuck, Done, Moves, Due
  <1>7. Fair => (Starts ~> Done \/ []Stuck)
    BY Invariance, <1>1, <1>2, <1>3, <1>4, <1>5, <1>6, PTL DEF Fair, Spec
  <1> QED
    BY <1>7 DEF Starts, Stuck, Done

(* ... and a supervisor.                                                     *)
LEMMA RedialEnded ==
  ASSUME NEW f \in Forwards
  PROVE  Fair => (pc[f] = "dial" ~> pc[f] \in {"backoff", "lost", "adopt"} \/ []Hung(f))
  <1> DEFINE Dials == pc[f] = "dial"
             Open == dial[f] \in {"waiting", "teardown"}
             Heard == Answered(f)
             Stuck == Hung(f)
             Done == pc[f] \in {"backoff", "lost", "adopt"}
             Moves == Supervisor(f)
             Due == SupervisorDue(f)
  <1>1. IInv /\ Dials => Open \/ Heard
    BY DEF IInv, TypeOK, AttemptsEnd, Answered
  <1>2. IInv /\ Dials /\ [Next]_vars => Dials' \/ Done'
    BY Local DEF LocalStep, SupervisorMoves, Leaves
  <1>3. IInv /\ Dials /\ Heard /\ [Next]_vars => (Dials /\ Heard)' \/ Done'
    BY Local DEF LocalStep, SupervisorMoves, Leaves, DialMoves, Answered
  <1>4. Dials /\ Heard => Due
    BY DEF SupervisorDue
  <1>5. IInv /\ Dials /\ Moves => ~Dials'
    BY SupervisorActs
  <1>6. Fair => (Open ~> Heard \/ []Stuck) /\ ([]<>~Due \/ []<><<Moves>>_vars)
    <2>1. Fair => []<>~Due \/ []<><<Moves>>_vars
      BY Scheduled, PTL DEF ForwardRuns
    <2> QED
      BY <2>1, DialEnded
  <1> HIDE DEF Dials, Open, Heard, Stuck, Done, Moves, Due
  <1>7. Fair => (Dials ~> Done \/ []Stuck)
    BY Invariance, <1>1, <1>2, <1>3, <1>4, <1>5, <1>6, PTL DEF Fair, Spec
  <1> QED
    BY <1>7 DEF Dials, Stuck, Done

(* A supervisor that is asked to stop ends or is in a dial that hangs for    *)
(* ever (portforward.go, superviseForward and what it calls): a drop is      *)
(* waited for and a search ends, so that it is again and again in a select   *)
(* that has the stop channel or stays in one dial; in the select it sees the *)
(* stop some time, and ends the attempt it runs.                             *)
THEOREM StopsEnd == Fair => StopsAreHeeded
  <1> SUFFICES ASSUME NEW f \in Forwards
               PROVE  Fair => (f \in stopClosed ~> pc[f] = "exited" \/ []Hung(f))
    BY DEF StopsAreHeeded
  <1> DEFINE Asked == f \in stopClosed
             Sees == Asked /\ pc[f] \in {"run", "backoff", "lost"}
             Dropping == Asked /\ pc[f] = "drop" /\ Ending(cur[f])
             Dropped == Asked /\ pc[f] = "drop" /\ cur[f].st = "done"
             Finding == Asked /\ pc[f] = "find"
             Dialling == Asked /\ pc[f] = "dial"
             Adopting == Asked /\ pc[f] = "adopt"
             Last == pc[f] \in {"stopping", "unwindCur", "unwindNext"}
             Gone == pc[f] = "exited"
             Stuck == Hung(f)
             Moves == Supervisor(f)
             Stops == SeesStop(f)
             CurEnds == CurDone(f)
             Due == SupervisorDue(f)
             SeesDue == StopDue(f)
             CurDue == Ending(cur[f])
  <1>1. IInv /\ Asked => \/ Sees \/ Dropping \/ Dropped \/ Finding \/ Dialling \/ Adopting
                         \/ Last \/ Gone
    BY DEF IInv, OnlyKnownIsStopped, Known, Supervised, SupervisorPCs, AttemptsEnd, Ending
  <1>2. IInv /\ Asked /\ [Next]_vars => Asked'
    BY Local DEF LocalStep
  <1>3. IInv /\ Dropping /\ [Next]_vars => Dropping' \/ Dropped' \/ Sees' \/ Last'
    BY Local DEF LocalStep, SupervisorMoves, Leaves, AttemptMoves, Ending
  <1>4. IInv /\ Dropped /\ [Next]_vars => Dropped' \/ Sees' \/ Last'
    BY Local DEF LocalStep, SupervisorMoves, Leaves, AttemptMoves, Ending
  <1>5. IInv /\ Finding /\ [Next]_vars => Finding' \/ Sees' \/ Dialling' \/ Last'
    BY Local DEF LocalStep, SupervisorMoves, Leaves
  <1>6. IInv /\ Adopting /\ [Next]_vars => Adopting' \/ Sees' \/ Last'
    BY Local DEF LocalStep, SupervisorMoves, Leaves
  <1>7. /\ Dropped \/ Finding \/ Adopting => Due
        /\ Dropping => CurDue
        /\ Sees => SeesDue
    BY DEF SupervisorDue, StopDue
  <1>8. /\ IInv /\ Moves /\ Dropped => ~Dropped'
        /\ IInv /\ Moves /\ Finding => ~Finding'
        /\ IInv /\ Moves /\ Adopting => ~Adopting'
    BY SupervisorActs
  <1>9. IInv /\ CurEnds /\ Dropping => ~Dropping'
    BY AttemptEffects DEF CurDone, Ending, IInv, TypeOK
  <1>10. IInv /\ Stops => Last' \/ Gone'
    BY DEF SeesStop, SeeStop, StopInWindow, StopWhileLost, Go, IInv, TypeOK
  <1>11. Fair => /\ []<>~Due \/ []<><<Moves>>_vars
                 /\ []<>~CurDue \/ []<><<CurEnds>>_vars
                 /\ <>[]~SeesDue \/ []<><<Stops>>_vars
    BY Scheduled, PTL DEF ForwardRuns
  <1>12. Fair => (Last ~> Gone)
    BY LastWaits
  <1>13. Fair => (Dialling ~> Sees \/ Adopting \/ []Stuck)
    <2> DEFINE Dials == pc[f] = "dial"
               Done == pc[f] \in {"backoff", "lost", "adopt"}
    <2>1. Fair => (Dials ~> Done \/ []Stuck)
      BY RedialEnded
    <2>2. /\ Dialling => Dials
          /\ Done /\ Asked => Sees \/ Adopting
      OBVIOUS
    <2>3. Dialling => Asked
      OBVIOUS
    <2> HIDE DEF Stuck, Dials, Done, Asked, Sees, Dialling, Adopting
    <2> QED
      BY Invariance, <1>2, <2>1, <2>2, <2>3, PTL DEF Fair, Spec
  <1> HIDE DEF Asked, Sees, Dropping, Dropped, Finding, Dialling, Adopting, Last, Gone, Stuck, Moves,
               Stops, CurEnds, Due, SeesDue, CurDue
  <1>14. Fair => (Asked ~> Sees \/ Last \/ Gone \/ []Stuck)
    BY Invariance, <1>1, <1>2, <1>3, <1>4, <1>5, <1>6, <1>7, <1>8, <1>9, <1>11, <1>13,
       PTL DEF Fair, Spec
  <1>15. Fair => (Asked ~> Gone \/ []Stuck)
    BY Invariance, <1>2, <1>7, <1>10, <1>11, <1>12, <1>14, PTL DEF Fair, Spec
  <1> QED
    BY <1>15 DEF Asked, Gone, Stuck

(* StopPortForward returns or waits for a dial that hangs for ever           *)
(* (portforward.go, stopForwards): it closes one stop channel and waits for  *)
(* a supervisor that otherwise ends. That a stop of many returns *)
(* takes the counting of what it has left, and is left to TLC.               *)
THEOREM OneStopEnds == Fair => OneStopReturns
  <1> SUFFICES ASSUME NEW k \in Stoppers, NEW f \in Forwards
               PROVE  Fair => (call[k] = [todo |-> {f}, at |-> NoForward] ~>
                                  call[k] = Idle \/ [](Awaits(k, f) /\ Hung(f)))
    BY DEF OneStopReturns
  <1> DEFINE Todo == call[k] = [todo |-> {f}, at |-> NoForward]
             Waits == Awaits(k, f)
             Asked == f \in stopClosed
             Gone == pc[f] = "exited"
             Stuck == Hung(f)
             Blocked == Awaits(k, f) /\ Hung(f)
             Returned == call[k] = Idle
             Moves == Stopper(k)
             Due == StopperDue(k)
  <1>1. IInv /\ [Next]_vars =>
          \/ call'[k] = call[k]
          \/ \E S \in SUBSET Forwards : Take(k, S)
          \/ CloseStop(k) \/ Waited(k)
    <2> SUFFICES ASSUME IInv, [Next]_vars, call'[k] # call[k]
                 PROVE  \/ \E S \in SUBSET Forwards : Take(k, S)
                        \/ CloseStop(k) \/ Waited(k)
      OBVIOUS
    <2>0. /\ byID \subseteq Forwards
          /\ call \in [Stoppers -> [todo : SUBSET Forwards, at : Forwards \cup {NoForward}]]
      BY DEF IInv, TypeOK
    <2>1. ASSUME NEW g \in Forwards, ForwardStep(g) PROVE call' = call
      BY <2>1 DEF ForwardStep, StartDial, ReconnectPortForward, Panic, AttemptStep, Bind, NextFails,
                  CurFails, NextDone, CurDone, Dialler, DialReady, DialFailed, DialTimeout,
                  DialTornDown, Starter, StartRefused, Register, Supervisor, Stopped, SeeDrop,
                  BeginWindow, Search, WindowOver, FindNone, FindPod, RedialRefused, Redialled,
                  Adopt, Tick, UnwindPending, Unwound, SeesStop, SeeStop, StopInWindow,
                  StopWhileLost, Nudged, regVars
    <2>2. ASSUME NEW j \in Stoppers, NEW S \in SUBSET byID, Take(j, S)
          PROVE  j = k /\ S \in SUBSET Forwards
      BY <2>0, <2>2 DEF Take
    <2>3. ASSUME NEW j \in Stoppers, StopCall(j)
          PROVE  \E S \in SUBSET Forwards : Take(k, S)
      <3>1. \E S \in SUBSET byID : Take(j, S)
        BY <2>3 DEF StopCall, StopPortForward, StopAllPortForwards, stopPortForwardsFor, OfCluster
      <3> QED
        BY <2>2, <3>1
    <2>4. ASSUME NEW j \in Stoppers, Stopper(j) PROVE CloseStop(k) \/ Waited(k)
      <3>1. j = k
        BY <2>0, <2>4 DEF Stopper, CloseStop, Waited
      <3> QED
        BY <2>4, <3>1 DEF Stopper
    <2>5. CASE UNCHANGED vars
      BY <2>5 DEF vars, regVars
    <2> QED
      BY <2>1, <2>3, <2>4, <2>5 DEF Next
  <1>2. ASSUME IInv, Todo, CloseStop(k) PROVE Waits'
    <2>1. PICK g \in {f} : call' = [call EXCEPT ![k] = [todo |-> {f} \ {g}, at |-> g]]
      BY <1>2 DEF CloseStop
    <2>2. g = f /\ {f} \ {g} = {}
      BY <2>1
    <2> QED
      BY <1>2, <2>1, <2>2 DEF Awaits, IInv, TypeOK
  <1>3. ASSUME IInv, Waits, Waited(k) PROVE Returned'
    <2>1. call' = [call EXCEPT ![k] = [@ EXCEPT !.at = NoForward]]
      BY <1>3 DEF Waited
    <2>2. [[todo |-> {}, at |-> f] EXCEPT !.at = NoForward] = Idle
      BY DEF Idle
    <2> QED
      BY <1>3, <2>1, <2>2 DEF Awaits, IInv, TypeOK
  <1>4. /\ IInv /\ Todo /\ [Next]_vars => Todo' \/ Waits'
        /\ IInv /\ Waits /\ [Next]_vars => Waits' \/ Returned'
    BY <1>1, <1>2, <1>3, ForwardsAssumption DEF Take, CloseStop, Waited, Awaits, Idle
  <1>5. /\ IInv /\ Todo /\ Moves => Waits'
        /\ IInv /\ Waits /\ Moves => Returned'
    BY <1>2, <1>3, ForwardsAssumption DEF Stopper, CloseStop, Waited, Awaits
  <1>6. /\ Todo => Due
        /\ Waits /\ Gone => Due
        /\ IInv /\ Waits => Asked
    BY ForwardsAssumption DEF StopperDue, Awaits, IInv, InTurn
  <1>7. IInv /\ Gone /\ [Next]_vars => Gone'
    BY Local DEF LocalStep, SupervisorMoves
  <1>8. Fair => (Asked ~> Gone \/ []Stuck)
    BY StopsEnd DEF StopsAreHeeded
  <1>9. Fair => []<>~Due \/ []<><<Moves>>_vars
    <2>1. Fair => StopperRuns(k)
      BY DEF Fair
    <2> QED
      BY <2>1, PTL DEF StopperRuns
  <1>10. Waits /\ Stuck => Blocked
    OBVIOUS
  <1> HIDE DEF Todo, Waits, Asked, Gone, Stuck, Blocked, Returned, Moves, Due
  <1>11. Fair => (Todo ~> Returned \/ []Blocked)
    BY Invariance, <1>4, <1>5, <1>6, <1>7, <1>8, <1>9, <1>10, PTL DEF Fair, Spec
  <1> QED
    BY <1>11 DEF Todo, Returned, Blocked
=============================================================================
