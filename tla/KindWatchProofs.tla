--------------------------- MODULE KindWatchProofs ---------------------------
(* The theorems of KindWatch, for every bound on the versions.               *)
EXTENDS KindWatch, TLAPS

LEMMA IInvInit == Init => IInv
  BY MaxVersionAssumption
     DEF Init, IInv, TypeOK, StallsInOrder, SupervisorKnows, SupervisorStays, ServesOnlySynced,
         Versions, None, Reflectors, Supervisors

(* Every action preserves the invariant: the reflector's first, which move   *)
(* the version and the record of a stall, then the supervisor's, which turn  *)
(* that record into evidence.                                                *)
LEMMA IInvStep == IInv /\ [Next]_vars => IInv'
  <1> SUFFICES ASSUME IInv, [Next]_vars PROVE IInv'
    OBVIOUS
  <1> USE MaxVersionAssumption
      DEF IInv, TypeOK, StallsInOrder, SupervisorKnows, SupervisorStays, ServesOnlySynced,
          Versions, None, Reflectors, Supervisors, stall
  <1>1. CASE Start
    <2>1. CASE NotWatched
      BY <2>1 DEF NotWatched
    <2>2. CASE Run
      BY <2>2 DEF Run
    <2> QED
      BY <1>1, <2>1, <2>2 DEF Start
  <1>2. CASE Reflector
    <2>1. CASE Deliver
      BY <2>1 DEF Deliver, Mirrors
    <2>2. CASE Forbidden \/ TransientError
      BY <2>2 DEF Forbidden, TransientError, Mirrors
    <2>3. CASE RecordStall
      BY <2>3 DEF RecordStall
    <2>4. CASE FlipStall
      BY <2>4 DEF FlipStall
    <2>5. CASE ReflectorEnds
      BY <2>5 DEF ReflectorEnds, Mirrors
    <2> QED
      BY <1>2, <2>1, <2>2, <2>3, <2>4, <2>5 DEF Reflector, Handler
  <1>3. CASE Supervisor
    <2>1. CASE Synced \/ FirstPromotion
      BY <2>1 DEF Synced, FirstPromotion
    <2>2. CASE Tick
      BY <2>2 DEF Tick
    <2>3. CASE ReadStalled
      BY <2>3 DEF ReadStalled
    <2>4. CASE ReadVersion \/ Promote
      BY <2>4 DEF ReadVersion, Promote
    <2>5. CASE SupervisorEnds
      BY <2>5 DEF SupervisorEnds
    <2> QED
      BY <1>3, <2>1, <2>2, <2>3, <2>4, <2>5 DEF Supervisor, Checks
  <1>4. CASE Cancel
    <2> SUFFICES ASSUME Cancel PROVE IInv'
      BY <1>4
    <2>1. UNCHANGED <<state, stalled, demotedAt, version, reflector, supervisor, seen>>
          /\ running' = FALSE
      BY DEF Cancel
    <2>2. TypeOK'
      BY <2>1
    <2>3. StallsInOrder'
      BY <2>1
    <2>4. SupervisorKnows' /\ SupervisorStays' /\ ServesOnlySynced'
      BY <2>1
    <2> QED
      BY <2>2, <2>3, <2>4
  <1>5. CASE UNCHANGED vars
    BY <1>5 DEF vars
  <1> QED
    BY <1>1, <1>2, <1>3, <1>4, <1>5 DEF Next

(* The invariant holds of every reachable state.                             *)
THEOREM Invariance == Spec => []IInv
  BY IInvInit, IInvStep, PTL DEF Spec

(* Every variable keeps its type.                                            *)
THEOREM TypeCorrect == Spec => []TypeOK
  <1>1. IInv => TypeOK
    BY DEF IInv
  <1> QED
    BY <1>1, Invariance, PTL

(* watched never answers from a store that holds no list.                    *)
THEOREM Synchronised == Spec => []ServesOnlySynced
  <1>1. IInv => ServesOnlySynced
    BY DEF IInv
  <1> QED
    BY <1>1, Invariance, PTL

(* Forbidden is terminal: both promotions compare before they swap.          *)
THEOREM Condemned == Spec => CondemnedForGood
  <1>1. [Next]_vars => (state = "degraded" => state' = "degraded")
    <2> SUFFICES ASSUME [Next]_vars, state = "degraded"
                 PROVE  state' = "degraded"
      OBVIOUS
    <2>1. CASE Start \/ Reflector
      BY <2>1 DEF Start, NotWatched, Run, Reflector, Handler, Deliver, Forbidden,
                  TransientError, RecordStall, FlipStall, ReflectorEnds, stall
    <2>2. CASE Supervisor \/ Cancel
      BY <2>2 DEF Supervisor, Checks, Synced, FirstPromotion, Tick, ReadStalled,
                  ReadVersion, Promote, SupervisorEnds, Cancel, stall
    <2> QED
      BY <2>1, <2>2 DEF Next, vars
  <1> QED
    BY <1>1, PTL DEF Spec, CondemnedForGood

(* A demoted store is promoted past the version of its demotion only: the    *)
(* compare-and-swap of Promote is the one step that can bring it back.       *)
THEOREM Evidence == Spec => PromotedOnEvidence
  <1> DEFINE Comeback == state = "starting" /\ demotedAt # None /\ state' = "serving"
  <1>1. IInv /\ [Next]_vars => (Comeback => version > demotedAt)
    <2> SUFFICES ASSUME IInv, [Next]_vars, Comeback PROVE version > demotedAt
      OBVIOUS
    <2>1. Promote
      <3>1. ~ FirstPromotion
        BY DEF IInv, SupervisorKnows, FirstPromotion
      <3>2. ~ (Start \/ Reflector \/ Cancel \/ SupervisorEnds)
        BY DEF Start, NotWatched, Run, Reflector, Handler, Deliver, Forbidden,
               TransientError, RecordStall, FlipStall, ReflectorEnds, Cancel,
               SupervisorEnds
      <3>3. ~ (Synced \/ Tick \/ ReadStalled \/ ReadVersion)
        BY DEF Synced, Tick, ReadStalled, ReadVersion
      <3> QED
        BY <3>1, <3>2, <3>3 DEF Next, Supervisor, Checks, vars
    <2> QED
      BY <2>1 DEF Promote, IInv, SupervisorKnows, TypeOK, Versions, None
  <1> QED
    BY <1>1, Invariance, PTL DEF Spec, PromotedOnEvidence

-----------------------------------------------------------------------------
(* What must happen. tlapm cannot expand ENABLED, so Fair is FairSpec with    *)
(* the guard of each fair step written where its fairness has ENABLED of it.  *)
StartDue == reflector = "unstarted"
HandlerDue == reflector \in {"recording", "flipping"}
ReflectorEndDue == ~running /\ Mirrors
CheckDue ==
    \/ supervisor = "syncing" /\ version > 0
    \/ supervisor \in {"first", "stalled", "version", "promote"}
    \/ supervisor = "idle" /\ state # "serving"
SupervisorEndDue == ~running /\ supervisor \in {"syncing", "idle"}

Fair ==
    /\ Spec
    /\ []<>~StartDue \/ []<><<Start>>_vars
    /\ []<>~HandlerDue \/ []<><<Handler>>_vars
    /\ []<>~ReflectorEndDue \/ []<><<ReflectorEnds>>_vars
    /\ []<>~CheckDue \/ []<><<Checks>>_vars
    /\ <>[]~SupervisorEndDue \/ []<><<SupervisorEnds>>_vars

(* How a step moves the two goroutines of a cancelled set.                    *)
ReflectorMoves ==
    \/ reflector' = reflector
    \/ reflector = "unstarted" /\ reflector' \in {"mirroring", "gone"}
    \/ reflector = "recording" /\ reflector' = "flipping"
    \/ reflector = "flipping" /\ reflector' = "failing"
    \/ Mirrors /\ reflector' = "gone"

SupervisorMoves ==
    \/ supervisor' = supervisor
    \/ supervisor = "unstarted" /\ supervisor' \in {"syncing", "gone"}
    \/ supervisor = "syncing" /\ supervisor' \in {"first", "gone"}
    \/ supervisor = "first" /\ supervisor' \in {"idle", "gone"}
    \/ supervisor = "idle" /\ supervisor' \in {"stalled", "gone"}
    \/ supervisor = "stalled" /\ supervisor' \in {"idle", "version"}
    \/ supervisor = "version" /\ supervisor' \in {"idle", "promote"}
    \/ supervisor = "promote" /\ supervisor' = "idle"

LEMMA CancelledStep ==
  ASSUME IInv, [Next]_vars, ~running
  PROVE  ~running' /\ ReflectorMoves /\ SupervisorMoves
  BY DEF Next, Start, NotWatched, Run, Reflector, Handler, Deliver, Forbidden, TransientError,
         RecordStall, FlipStall, ReflectorEnds, Supervisor, Checks, Synced, FirstPromotion, Tick,
         ReadStalled, ReadVersion, Promote, SupervisorEnds, Cancel, Mirrors, stall, vars,
         ReflectorMoves, SupervisorMoves, IInv, SupervisorKnows

(* The reflector of a cancelled set ends: its handler is left after at most   *)
(* two statements, and nothing calls it again.                                *)
LEMMA ReflectorGoes == Fair => (~running ~> reflector = "gone")
  <1> DEFINE New == ~running /\ reflector = "unstarted"
             Recording == ~running /\ reflector = "recording"
             Flipping == ~running /\ reflector = "flipping"
             Mirroring == ~running /\ Mirrors
             Gone == reflector = "gone"
  <1>1. IInv /\ ~running => New \/ Recording \/ Flipping \/ Mirroring \/ Gone
    BY DEF IInv, TypeOK, Reflectors, Mirrors
  <1>2. IInv /\ New /\ [Next]_vars => New' \/ Mirroring' \/ Gone'
    BY CancelledStep DEF ReflectorMoves, Mirrors
  <1>3. New => StartDue
    BY DEF StartDue
  <1>4. IInv /\ New /\ [Next]_vars /\ <<Start>>_vars => Mirroring' \/ Gone'
    BY CancelledStep DEF Start, NotWatched, Run, Mirrors
  <1>5. IInv /\ Recording /\ [Next]_vars => Recording' \/ Flipping'
    BY CancelledStep DEF ReflectorMoves, Mirrors
  <1>6. Recording => HandlerDue
    BY DEF HandlerDue
  <1>7. IInv /\ Recording /\ [Next]_vars /\ <<Handler>>_vars => Flipping'
    BY CancelledStep DEF Handler, RecordStall, FlipStall
  <1>8. IInv /\ Flipping /\ [Next]_vars => Flipping' \/ Mirroring'
    BY CancelledStep DEF ReflectorMoves, Mirrors
  <1>9. Flipping => HandlerDue
    BY DEF HandlerDue
  <1>10. IInv /\ Flipping /\ [Next]_vars /\ <<Handler>>_vars => Mirroring'
    BY CancelledStep DEF Handler, RecordStall, FlipStall, Mirrors
  <1>11. IInv /\ Mirroring /\ [Next]_vars => Mirroring' \/ Gone'
    BY CancelledStep DEF ReflectorMoves, Mirrors
  <1>12. Mirroring => ReflectorEndDue
    BY DEF ReflectorEndDue
  <1>13. IInv /\ Mirroring /\ [Next]_vars /\ <<ReflectorEnds>>_vars => Gone'
    BY DEF ReflectorEnds
  <1> HIDE DEF New, Recording, Flipping, Mirroring, Gone
  <1>14. Fair => (~running ~> Gone)
    BY Invariance, <1>1, <1>2, <1>3, <1>4, <1>5, <1>6, <1>7, <1>8, <1>9, <1>10, <1>11, <1>12, <1>13,
       PTL DEF Fair, Spec
  <1> QED
    BY <1>14 DEF Gone

(* The supervisor of a cancelled set ends: whatever it is checking, it comes  *)
(* back to a wait, and one of its waits finds the context cancelled.          *)
LEMMA SupervisorGoes == Fair => (~running ~> supervisor = "gone")
  <1> DEFINE New == ~running /\ supervisor = "unstarted"
             Waiting == ~running /\ supervisor \in {"syncing", "idle"}
             First == ~running /\ supervisor = "first"
             Reading == ~running /\ supervisor = "stalled"
             Comparing == ~running /\ supervisor = "version"
             Swapping == ~running /\ supervisor = "promote"
             Gone == supervisor = "gone"
  <1>1. IInv /\ ~running => New \/ Waiting \/ First \/ Reading \/ Comparing \/ Swapping \/ Gone
    BY DEF IInv, TypeOK, Supervisors
  <1>2. IInv /\ New => StartDue
    BY DEF IInv, SupervisorKnows, StartDue
  <1>3. IInv /\ New /\ [Next]_vars => New' \/ Waiting' \/ Gone'
    BY CancelledStep DEF SupervisorMoves
  <1>4. IInv /\ New /\ [Next]_vars /\ <<Start>>_vars => Waiting' \/ Gone'
    BY CancelledStep DEF Start, NotWatched, Run
  <1>5. First \/ Reading \/ Comparing \/ Swapping => CheckDue
    BY DEF CheckDue
  <1>6. IInv /\ First /\ [Next]_vars => First' \/ Waiting' \/ Gone'
    BY CancelledStep DEF SupervisorMoves
  <1>7. IInv /\ Reading /\ [Next]_vars => Reading' \/ Comparing' \/ Waiting'
    BY CancelledStep DEF SupervisorMoves
  <1>8. IInv /\ Comparing /\ [Next]_vars => Comparing' \/ Swapping' \/ Waiting'
    BY CancelledStep DEF SupervisorMoves
  <1>9. IInv /\ Swapping /\ [Next]_vars => Swapping' \/ Waiting'
    BY CancelledStep DEF SupervisorMoves
  <1>10. <<Checks>>_vars => supervisor' # supervisor
    BY DEF Checks, Synced, FirstPromotion, Tick, ReadStalled, ReadVersion, Promote
  <1>11. /\ First /\ <<Checks>>_vars => ~First'
         /\ Reading /\ <<Checks>>_vars => ~Reading'
         /\ Comparing /\ <<Checks>>_vars => ~Comparing'
         /\ Swapping /\ <<Checks>>_vars => ~Swapping'
    BY <1>10
  <1>12. IInv /\ Waiting /\ [Next]_vars => Waiting' \/ First' \/ Reading' \/ Gone'
    BY CancelledStep DEF SupervisorMoves
  <1>13. Waiting => SupervisorEndDue
    BY DEF SupervisorEndDue
  <1>14. <<SupervisorEnds>>_vars => Gone'
    BY DEF SupervisorEnds
  <1> HIDE DEF New, Waiting, First, Reading, Comparing, Swapping, Gone
  <1>15. Fair => (~running ~> Gone)
    BY Invariance, <1>1, <1>2, <1>3, <1>4, <1>5, <1>6, <1>7, <1>8, <1>9, <1>11, <1>12, <1>13, <1>14,
       PTL DEF Fair, Spec
  <1> QED
    BY <1>15 DEF Gone

(* A cancelled set ends, both goroutines of every kind it watches             *)
(* (watch.go, watchKind): set.done closes, and whoever waits for it returns.  *)
THEOREM CancelledEnds == Fair => Ends
  <1> DEFINE Over == ~running
             ReflectorGone == reflector = "gone"
             SupervisorGone == supervisor = "gone"
  <1>1. IInv /\ Over /\ [Next]_vars => Over'
    BY CancelledStep
  <1>2. IInv /\ Over /\ ReflectorGone /\ [Next]_vars => ReflectorGone'
    BY CancelledStep DEF ReflectorMoves, Mirrors
  <1>3. IInv /\ Over /\ SupervisorGone /\ [Next]_vars => SupervisorGone'
    BY CancelledStep DEF SupervisorMoves
  <1>4. Fair => (Over ~> ReflectorGone) /\ (Over ~> SupervisorGone)
    BY ReflectorGoes, SupervisorGoes
  <1> HIDE DEF Over, ReflectorGone, SupervisorGone
  <1>5. Fair => (Over ~> ReflectorGone /\ SupervisorGone)
    BY Invariance, <1>1, <1>2, <1>3, <1>4, PTL DEF Fair, Spec
  <1> QED
    BY <1>5 DEF Over, ReflectorGone, SupervisorGone, Ends

(* A store that a stall demoted comes back once its reflector has moved past  *)
(* the version of the stall (watch.go, supervise): the supervisor's next tick *)
(* finds it starting, the record older than the version, and swaps.           *)
THEOREM DemotedRecovers == Fair => Recovers
  <1> DEFINE Back == state # "starting" \/ Stalled \/ ~running
             Past == running /\ state = "starting" /\ ~Stalled /\ supervisor # "unstarted"
             Step(where) == Past /\ supervisor = where
             Syncing == Step("syncing")
             First == Step("first")
             Idle == Step("idle")
             Reading == Step("stalled")
             Comparing == Step("version")
             Swapping == Step("promote")
  <1>1. IInv /\ Past => Syncing \/ First \/ Idle \/ Reading \/ Comparing \/ Swapping
    BY DEF IInv, TypeOK, Supervisors, SupervisorStays
  <1>2. IInv /\ (Syncing \/ First \/ Idle \/ Reading \/ Comparing \/ Swapping) => CheckDue
    BY DEF CheckDue, Stalled, IInv, TypeOK, Versions
  <1>3. ASSUME IInv, Past, [Next]_vars
        PROVE  \/ Back'
               \/ /\ Past'
                  /\ \/ supervisor' = supervisor /\ ~Checks
                     \/ supervisor = "syncing" /\ supervisor' = "first"
                     \/ supervisor = "idle" /\ supervisor' = "stalled"
                     \/ supervisor = "stalled" /\ supervisor' = "version"
                     \/ supervisor = "version" /\ supervisor' = "promote"
    <2>1. CASE Checks
      <3>1. stalled' = stalled /\ version' = version /\ running' = running
        BY <2>1 DEF Checks, Synced, FirstPromotion, Tick, ReadStalled, ReadVersion, Promote, stall
      <3>2. CASE state' = state
        <4>1. Past'
          BY <1>3, <2>1, <3>1, <3>2
             DEF Stalled, Checks, Synced, FirstPromotion, Tick, ReadStalled, ReadVersion, Promote
        <4>2. /\ supervisor = "stalled" => stalled # None
              /\ supervisor = "version" => version \notin {0, seen}
          BY <1>1, <1>3 DEF IInv, TypeOK, Versions, None, SupervisorKnows, SupervisorStays,
                            StallsInOrder, Stalled
        <4> QED
          BY <1>3, <2>1, <3>2, <4>1, <4>2
             DEF Checks, Synced, FirstPromotion, Tick, ReadStalled, ReadVersion, Promote
      <3>3. CASE state' # state
        BY <1>3, <3>3
      <3> QED
        BY <3>2, <3>3
    <2>2. CASE ~Checks
      <3>1. CASE SupervisorEnds \/ Start
        BY <1>3, <3>1 DEF SupervisorEnds, Start, NotWatched, Run, IInv, SupervisorKnows
      <3>2. CASE Reflector \/ Cancel \/ UNCHANGED vars
        <4>1. supervisor' = supervisor
          BY <3>2 DEF Reflector, Handler, Deliver, Forbidden, TransientError, RecordStall,
                      FlipStall, ReflectorEnds, Cancel, vars
        <4> QED
          BY <1>3, <2>2, <4>1
      <3> QED
        BY <1>3, <2>2, <3>1, <3>2 DEF Next, Supervisor
    <2> QED
      BY <2>1, <2>2
  <1>4. IInv /\ Syncing /\ [Next]_vars => Syncing' \/ First' \/ Back'
    BY <1>3
  <1>5. IInv /\ First /\ [Next]_vars => First' \/ Back'
    BY <1>3
  <1>6. IInv /\ Idle /\ [Next]_vars => Idle' \/ Reading' \/ Back'
    BY <1>3
  <1>7. IInv /\ Reading /\ [Next]_vars => Reading' \/ Comparing' \/ Back'
    BY <1>3
  <1>8. IInv /\ Comparing /\ [Next]_vars => Comparing' \/ Swapping' \/ Back'
    BY <1>3
  <1>9. IInv /\ Swapping /\ [Next]_vars => Swapping' \/ Back'
    BY <1>3
  <1>10. /\ IInv /\ Syncing /\ [Next]_vars /\ <<Checks>>_vars => ~Syncing'
         /\ IInv /\ First /\ [Next]_vars /\ <<Checks>>_vars => ~First'
         /\ IInv /\ Idle /\ [Next]_vars /\ <<Checks>>_vars => ~Idle'
         /\ IInv /\ Reading /\ [Next]_vars /\ <<Checks>>_vars => ~Reading'
         /\ IInv /\ Comparing /\ [Next]_vars /\ <<Checks>>_vars => ~Comparing'
         /\ IInv /\ Swapping /\ [Next]_vars /\ <<Checks>>_vars => ~Swapping'
    BY <1>3
  <1> HIDE DEF Back, Past, Syncing, First, Idle, Reading, Comparing, Swapping
  <1>11. Fair => (Past ~> Back)
    BY Invariance, <1>1, <1>2, <1>4, <1>5, <1>6, <1>7, <1>8, <1>9, <1>10, PTL DEF Fair, Spec
  <1>12. /\ state = "starting" /\ supervisor # "unstarted" /\ ~Stalled => Past \/ Back
         /\ Back => state # "starting" \/ Stalled \/ ~running
    BY DEF Past, Back
  <1> QED
    BY <1>11, <1>12, PTL DEF Recovers
=============================================================================
