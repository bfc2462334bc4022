--------------------------- MODULE WatchSetsProofs ---------------------------
(* The theorems of WatchSets, for any number of clusters, sets and stoppers. *)
EXTENDS WatchSets, TLAPS

LEMMA IInvInit == Init => IInv
  <1> SUFFICES ASSUME Init PROVE IInv
    OBVIOUS
  <1> USE WatchSetsAssumption DEF Init
  <1>1. TypeOK
    BY DEF TypeOK, Takers
  <1>2. RegistryIsApart /\ TakenApart /\ InTurn /\ BornOnce
    BY DEF RegistryIsApart, TakenApart, InTurn, BornOnce
  <1>3. NoOrphan
    BY DEF NoOrphan, Live
  <1>4. Closing
    BY DEF Closing, Takers
  <1> QED
    BY <1>1, <1>2, <1>3, <1>4 DEF IInv

(* A read starts a set that nobody has, or touches one.                      *)
LEMMA ReadStepKeeps == IInv /\ ReadStep => IInv'
  <1> SUFFICES ASSUME IInv, ReadStep PROVE IInv'
    OBVIOUS
  <1> USE WatchSetsAssumption DEF IInv
  <1>1. ASSUME NEW c \in Clusters, EnsureNew(c) PROVE IInv'
    <2> USE <1>1 DEF EnsureNew
    <2>1. PICK s \in Sets :
            /\ life[s] = "unborn" /\ life' = [life EXCEPT ![s] = "starting"]
            /\ registry' = [registry EXCEPT ![c] = s]
            /\ fresh' = fresh \cup {s}
      BY DEF Unborn, NextSet
    <2>2. TypeOK'
      BY <2>1 DEF TypeOK
    <2>3. RegistryIsApart'
      BY <2>1 DEF RegistryIsApart, TakenApart, BornOnce, TypeOK
    <2>4. TakenApart' /\ InTurn' /\ BornOnce'
      BY <2>1 DEF TakenApart, InTurn, BornOnce, TypeOK
    <2>5. NoOrphan'
      BY <2>1 DEF NoOrphan, Live, TypeOK
    <2>6. Closing'
      BY <2>1 DEF Closing
    <2> QED
      BY <2>2, <2>3, <2>4, <2>5, <2>6
  <1>2. ASSUME NEW c \in Clusters, Read(c) PROVE IInv'
    BY <1>2 DEF Read, TypeOK, RegistryIsApart, TakenApart, InTurn, NoOrphan, Live, BornOnce,
                     Closing
  <1>3. ASSUME NEW s \in Sets, Age(s) PROVE IInv'
    BY <1>3 DEF Age, TypeOK, RegistryIsApart, TakenApart, InTurn, NoOrphan, Live, BornOnce,
                    Closing
  <1> QED
    BY <1>1, <1>2, <1>3 DEF ReadStep

(* A set moves on by itself.                                                 *)
LEMMA SetStepKeeps == ASSUME NEW s \in Sets PROVE IInv /\ SetStep(s) => IInv'
  <1> SUFFICES ASSUME IInv, SetStep(s) PROVE IInv'
    OBVIOUS
  <1>1. PICK after \in {"running", "done"} :
          /\ life[s] # "unborn" /\ life' = [life EXCEPT ![s] = after]
          /\ life[s] \in {"starting", "running"}
          /\ UNCHANGED <<registry, cancelled, fresh, call, taken, at, closed, stopped>>
    BY DEF SetStep, StartFails, Started, Ended, Lives
  <1> USE <1>1 DEF IInv
  <1>2. TypeOK'
    BY DEF TypeOK
  <1>3. RegistryIsApart' /\ TakenApart' /\ InTurn' /\ BornOnce'
    BY DEF RegistryIsApart, TakenApart, InTurn, BornOnce, TypeOK
  <1>4. NoOrphan'
    BY DEF NoOrphan, Live, TypeOK
  <1>5. Closing'
    BY DEF Closing
  <1> QED
    BY <1>2, <1>3, <1>4, <1>5

(* What a taker takes leaves the registry whole: nothing of it stays behind, *)
(* and nothing of it was another taker's.                                    *)
LEMMA TakeKeeps ==
  ASSUME NEW t \in Takers, NEW sets \in SUBSET Registered, NEW what,
         what \in {"forget", "stopAll", "sweep"},
         IInv, taken[t] = {}, Take(t, sets, what), call[t] # "gone",
         t = Sweeper => what = "sweep" /\ UNCHANGED closed,
         t # Sweeper => what \in {"forget", "stopAll"},
         closed' = (closed \/ what = "stopAll"),
         what = "stopAll" => sets = Registered
  PROVE  IInv'
  <1> USE WatchSetsAssumption DEF IInv, Take
  <1>0. sets \subseteq Sets /\ Registered \subseteq Sets
    BY DEF Registered
  <1>1. TypeOK'
    BY <1>0 DEF TypeOK
  <1>2. \A u \in Takers : taken'[u] = IF u = t THEN sets ELSE taken[u]
    BY DEF TypeOK
  <1>3. \A s \in sets : /\ life[s] # "unborn" /\ s \notin cancelled
                        /\ \A u \in Takers : s \notin taken[u]
    BY <1>0 DEF Registered, RegistryIsApart, TypeOK
  <1>4. RegistryIsApart'
    BY <1>2, <1>3 DEF RegistryIsApart
  <1>5. TakenApart' /\ InTurn'
    BY <1>2, <1>3 DEF TakenApart, InTurn
  <1>6. NoOrphan'
    BY <1>2 DEF NoOrphan, Live
  <1>7. BornOnce'
    BY DEF BornOnce
  <1>8. Closing'
    <2>1. closed' => \A c \in Clusters : registry'[c] = None
      BY DEF Closing, Registered, TypeOK
    <2>2. \A u \in Takers : call'[u] = IF u = t THEN what ELSE call[u]
      BY DEF TypeOK
    <2> QED
      BY <2>1, <2>2, <1>2 DEF Closing, Takers
  <1> QED
    BY <1>1, <1>4, <1>5, <1>6, <1>7, <1>8

(* A taker that works off its map only ever touches what it took.            *)
LEMMA TakerStepKeeps == ASSUME NEW t \in Takers PROVE IInv /\ TakerStep(t) => IInv'
  <1> SUFFICES ASSUME IInv, TakerStep(t) PROVE IInv'
    OBVIOUS
  <1> USE WatchSetsAssumption DEF IInv
  <1>1. CASE CancelOne(t)
    <2> USE <1>1 DEF CancelOne
    <2>1. TypeOK'
      BY DEF TypeOK
    <2>2. RegistryIsApart'
      BY DEF RegistryIsApart, TypeOK
    <2>3. TakenApart' /\ Closing'
      BY DEF TakenApart, Closing
    <2>4. NoOrphan' /\ BornOnce'
      BY DEF NoOrphan, Live, BornOnce, TakenApart, TypeOK
    <2>5. InTurn'
      BY DEF InTurn, TakenApart, TypeOK
    <2> QED
      BY <2>1, <2>2, <2>3, <2>4, <2>5
  <1>2. CASE Waited(t)
    <2> USE <1>2 DEF Waited
    <2>1. TypeOK'
      BY DEF TypeOK
    <2>2. \A u \in Takers : taken'[u] = IF u = t THEN taken[u] \ {at[t]} ELSE taken[u]
      BY DEF TypeOK
    <2>3. RegistryIsApart' /\ TakenApart' /\ InTurn' /\ BornOnce'
      BY <2>2 DEF RegistryIsApart, TakenApart, InTurn, BornOnce, TypeOK
    <2>4. NoOrphan'
      BY <2>2 DEF NoOrphan, Live
    <2>5. Closing'
      BY <2>2 DEF Closing, Takers
    <2> QED
      BY <2>1, <2>3, <2>4, <2>5
  <1>3. CASE ForgetReturns(t) \/ StopAllReturns(t)
    <2> USE <1>3 DEF ForgetReturns, StopAllReturns
    <2>1. TypeOK'
      BY DEF TypeOK
    <2>2. RegistryIsApart' /\ TakenApart' /\ InTurn' /\ BornOnce' /\ NoOrphan'
      BY DEF RegistryIsApart, TakenApart, InTurn, BornOnce, NoOrphan, Live
    <2>3. t # Sweeper
      BY DEF Closing
    <2>4. Closing'
      BY <2>3 DEF Closing, TypeOK, Takers
    <2> QED
      BY <2>1, <2>2, <2>4
  <1> QED
    BY <1>1, <1>2, <1>3 DEF TakerStep

LEMMA IInvStep == IInv /\ [Next]_vars => IInv'
  <1> SUFFICES ASSUME IInv, [Next]_vars PROVE IInv'
    OBVIOUS
  <1>1. CASE ReadStep
    BY <1>1, ReadStepKeeps
  <1>2. ASSUME NEW s \in Sets, SetStep(s) PROVE IInv'
    BY <1>2, SetStepKeeps
  <1>3. ASSUME NEW t \in Takers, TakerStep(t) PROVE IInv'
    BY <1>3, TakerStepKeeps
  <1>7. \A t \in Stoppers : t \in Takers /\ t # Sweeper
    BY WatchSetsAssumption DEF Takers
  <1>4. ASSUME NEW t \in Stoppers, StopAll(t) PROVE IInv'
    <2>1. taken[t] = {} /\ closed' = TRUE
      BY <1>4 DEF StopAll, IInv, Closing
    <2>2. Take(t, Registered, "stopAll") /\ call[t] # "gone"
      BY <1>4 DEF StopAll
    <2> QED
      BY <1>7, <2>1, <2>2, TakeKeeps
  <1>5. ASSUME NEW t \in Stoppers, NEW c \in Clusters, Forget(t, c) PROVE IInv'
    <2>1. taken[t] = {} /\ closed' = closed /\ call[t] # "gone"
      BY <1>5 DEF Forget, IInv, Closing
    <2>2. Take(t, {registry[c]}, "forget") /\ {registry[c]} \in SUBSET Registered
      BY <1>5 DEF Forget, IInv, TypeOK, Registered
    <2>3. closed' = (closed \/ "forget" = "stopAll")
      BY <2>1 DEF IInv, TypeOK
    <2> QED
      BY <1>7, <2>1, <2>2, <2>3, TakeKeeps
  <1>6. CASE Reap
    <2>1. /\ taken[Sweeper] = {} /\ closed' = closed /\ call[Sweeper] # "gone"
          /\ Take(Sweeper, Idle, "sweep")
      BY <1>6 DEF Reap
    <2>2. Idle \in SUBSET Registered /\ Sweeper \in Takers
      BY DEF Idle, Takers
    <2>3. closed' = (closed \/ "sweep" = "stopAll")
      BY <2>1 DEF IInv, TypeOK
    <2> QED
      BY <2>1, <2>2, <2>3, TakeKeeps
  <1>9. CASE SweeperEnds
    <2> USE WatchSetsAssumption, <1>9 DEF SweeperEnds, IInv
    <2>1. TypeOK' /\ RegistryIsApart' /\ TakenApart' /\ InTurn' /\ BornOnce' /\ NoOrphan'
      BY DEF TypeOK, RegistryIsApart, TakenApart, InTurn, BornOnce, NoOrphan, Live
    <2>2. Closing'
      BY <1>7 DEF Closing, TypeOK
    <2> QED
      BY <2>1, <2>2
  <1>8. CASE UNCHANGED vars
    BY <1>8 DEF vars, IInv, TypeOK, RegistryIsApart, TakenApart, InTurn, NoOrphan, Live,
                BornOnce, Closing
  <1> QED
    BY <1>1, <1>2, <1>3, <1>4, <1>5, <1>6, <1>8, <1>9 DEF Next, Sweep

(* The invariant holds of every reachable state.                             *)
THEOREM Invariance == Spec => []IInv
  BY IInvInit, IInvStep, PTL DEF Spec

(* Every variable keeps its type.                                            *)
THEOREM TypeCorrect == Spec => []TypeOK
  <1>1. IInv => TypeOK
    BY DEF IInv
  <1> QED
    BY <1>1, Invariance, PTL

(* The record and the goroutines never part company: a running set has       *)
(* exactly one owner, the registry or one taker.                             *)
THEOREM Owned == Spec => []OneOwner
  <1>1. IInv => OneOwner
    <2> SUFFICES ASSUME IInv, NEW s \in Live
                 PROVE  \E o \in Clusters \cup Takers : Owners(s) = {o}
      BY DEF OneOwner
    <2> USE WatchSetsAssumption DEF IInv
    <2>1. s \in Sets /\ s # None
      BY DEF Live
    <2>2. CASE \E c \in Clusters : registry[c] = s
      <3>1. PICK c \in Clusters : registry[c] = s
        BY <2>2
      <3>2. Owners(s) = {c}
        BY <2>1, <3>1 DEF Owners, RegistryIsApart
      <3> QED
        BY <3>2
    <2>3. CASE ~ \E c \in Clusters : registry[c] = s
      <3>1. PICK t \in Takers : s \in taken[t]
        BY <2>1, <2>3 DEF NoOrphan
      <3>2. Owners(s) = {t}
        BY <2>1, <2>3, <3>1 DEF Owners, TakenApart
      <3> QED
        BY <3>2
    <2> QED
      BY <2>2, <2>3
  <1> QED
    BY <1>1, Invariance, PTL

(* A read never finds a cancelled set.                                       *)
THEOREM NeverFrozen == Spec => []NoFrozenMirror
  <1>1. IInv => NoFrozenMirror
    BY WatchSetsAssumption DEF IInv, RegistryIsApart, NoFrozenMirror, Registered
  <1> QED
    BY <1>1, Invariance, PTL

(* After a stopAll nothing is watched and nothing is started again.          *)
THEOREM Stopped == Spec => []StoppedForGood
  <1>1. IInv => StoppedForGood
    <2> SUFFICES ASSUME IInv, stopped PROVE StoppedForGood
      BY DEF StoppedForGood
    <2> USE WatchSetsAssumption DEF IInv
    <2>1. Registered = {} /\ call[Sweeper] = "gone" /\ taken[Sweeper] = {}
      BY DEF Closing, Registered
    <2>2. ASSUME NEW s \in Live PROVE \E t \in Stoppers : s \in taken[t]
      <3>1. s \in Sets /\ ~ \E c \in Clusters : registry[c] = s
        BY <2>1 DEF Live, Registered
      <3>2. PICK t \in Takers : s \in taken[t]
        BY <3>1, <2>2 DEF NoOrphan
      <3> QED
        BY <2>1, <3>2 DEF Takers
    <2> QED
      BY <2>1, <2>2 DEF StoppedForGood
  <1> QED
    BY <1>1, Invariance, PTL
-----------------------------------------------------------------------------
(* The manager implements Custody: each of its steps is one of Custody's or  *)
(* changes nothing that Custody sees.                                        *)

LEMMA CustodyInit == Init => Kept!Init
  BY WatchSetsAssumption DEF Init, Kept!Init, Registered, Life

(* A step that moves no set and takes none is not seen.                      *)
LEMMA CustodyUnseen ==
  ASSUME UNCHANGED <<registry, life, cancelled, taken, closed>>
  PROVE  UNCHANGED Kept!vars
  BY DEF Kept!vars, Registered, Life

(* What is registered is a set, once.                                        *)
LEMMA CustodyBegin ==
  ASSUME IInv, NEW c \in Clusters, EnsureNew(c)
  PROVE  \E s \in Sets : Kept!Begin(s)
  <1>1. PICK s \in Sets :
          /\ life[s] = "unborn" /\ life' = [life EXCEPT ![s] = "starting"]
          /\ registry' = [registry EXCEPT ![c] = s]
    BY DEF EnsureNew, Unborn, NextSet
  <1>2. Registered' = Registered \cup {s}
    BY <1>1, WatchSetsAssumption DEF EnsureNew, Registered, IInv, TypeOK
  <1>3. [x \in Sets |-> Life(x)]' = [[x \in Sets |-> Life(x)] EXCEPT ![s] = "alive"]
    BY <1>1 DEF Life, IInv, TypeOK
  <1> QED
    BY <1>1, <1>2, <1>3 DEF EnsureNew, Kept!Begin, Life

LEMMA CustodyEnd ==
  ASSUME IInv, NEW s \in Sets, SetStep(s)
  PROVE  Kept!End(s) \/ UNCHANGED Kept!vars
  <1> DEFINE lives == [x \in Sets |-> Life(x)]
  <1>1. UNCHANGED <<registry, cancelled, taken, closed>> /\ Registered' = Registered
    BY DEF SetStep, StartFails, Started, Ended, Lives, Registered
  <1>2. CASE Started(s)
    <2>1. lives' = lives
      BY <1>2 DEF Started, Lives, Life, IInv, TypeOK
    <2> QED
      BY <1>1, <2>1 DEF Kept!vars
  <1>3. CASE StartFails(s) \/ Ended(s)
    <2>1. lives[s] = "alive" /\ lives' = [lives EXCEPT ![s] = "ended"]
      BY <1>3 DEF StartFails, Ended, Lives, Life, IInv, TypeOK
    <2> QED
      BY <1>1, <2>1 DEF Kept!End
  <1> QED
    BY <1>2, <1>3 DEF SetStep

LEMMA CustodyTake ==
  ASSUME IInv, NEW t \in Takers, NEW sets \in SUBSET Registered, NEW what,
         Take(t, sets, what), taken[t] = {},
         closed' = closed \/ (closed' = TRUE /\ sets = Registered)
  PROVE  Kept!Take(t, sets)
  <1>1. Registered' = Registered \ sets
    BY WatchSetsAssumption DEF Take, Registered, IInv, TypeOK
  <1> QED
    BY <1>1 DEF Take, Kept!Take, Life

LEMMA CustodyTakerStep ==
  ASSUME IInv, NEW t \in Takers, TakerStep(t)
  PROVE  (\E s \in Sets : Kept!Ask(t, s) \/ Kept!LetGo(t, s)) \/ UNCHANGED Kept!vars
  <1> USE WatchSetsAssumption DEF IInv
  <1>1. CASE CancelOne(t)
    <2>1. PICK s \in taken[t] : cancelled' = cancelled \cup {s}
      BY <1>1 DEF CancelOne
    <2>2. s \in Sets /\ taken[t] \cap cancelled = {}
      BY <1>1, <2>1 DEF CancelOne, InTurn, TypeOK
    <2>3. Registered' = Registered
      BY <1>1 DEF CancelOne, Registered
    <2> QED
      BY <1>1, <2>1, <2>2, <2>3 DEF CancelOne, Kept!Ask, Life
  <1>2. CASE Waited(t)
    <2>1. at[t] \in Sets /\ at[t] \in taken[t] \cap cancelled
      BY <1>2 DEF Waited, InTurn, TypeOK
    <2>2. Registered' = Registered /\ Life(at[t]) = "ended"
      BY <1>2 DEF Waited, Registered, Life
    <2>3. Kept!LetGo(t, at[t])
      BY <1>2, <2>1, <2>2 DEF Waited, Kept!LetGo, Life
    <2> QED
      BY <2>1, <2>3
  <1>3. CASE ForgetReturns(t) \/ StopAllReturns(t)
    BY <1>3, CustodyUnseen DEF ForgetReturns, StopAllReturns
  <1> QED
    BY <1>1, <1>2, <1>3 DEF TakerStep

LEMMA CustodyStep == IInv /\ [Next]_vars => [Kept!Next]_(Kept!vars)
  <1> SUFFICES ASSUME IInv, [Next]_vars PROVE Kept!Next \/ UNCHANGED Kept!vars
    OBVIOUS
  <1>1. CASE ReadStep
    <2>1. CASE \E c \in Clusters : EnsureNew(c)
      BY <2>1, CustodyBegin DEF Kept!Next
    <2>2. CASE (\E c \in Clusters : Read(c)) \/ (\E s \in Sets : Age(s))
      BY <2>2, CustodyUnseen DEF Read, Age
    <2> QED
      BY <1>1, <2>1, <2>2 DEF ReadStep
  <1>2. CASE \E s \in Sets : SetStep(s)
    BY <1>2, CustodyEnd DEF Kept!Next
  <1>3. ASSUME NEW t \in Stoppers, StopAll(t) \/ \E c \in Clusters : Forget(t, c)
        PROVE  Kept!Next
    <2>1. t \in Takers /\ call[t] = "none" /\ taken[t] = {}
      BY <1>3 DEF StopAll, Forget, Takers, IInv, Closing
    <2>2. CASE StopAll(t)
      <3>1. Kept!Take(t, Registered)
        BY <2>1, <2>2, CustodyTake DEF StopAll
      <3> QED
        BY <2>1, <3>1 DEF Kept!Next
    <2>3. ASSUME NEW c \in Clusters, Forget(t, c) PROVE Kept!Next
      <3>1. {registry[c]} \in SUBSET Registered
        BY <2>3 DEF Forget, IInv, TypeOK, Registered
      <3>2. Kept!Take(t, {registry[c]})
        BY <2>1, <2>3, <3>1, CustodyTake DEF Forget
      <3> QED
        BY <2>1, <3>1, <3>2 DEF Kept!Next
    <2> QED
      BY <1>3, <2>2, <2>3
  <1>4. CASE \E t \in Takers : TakerStep(t)
    BY <1>4, CustodyTakerStep DEF Kept!Next
  <1>5. CASE Reap
    <2>1. Idle \in SUBSET Registered /\ Sweeper \in Takers
      BY DEF Idle, Takers
    <2>2. Kept!Take(Sweeper, Idle)
      BY <1>5, <2>1, CustodyTake DEF Reap
    <2> QED
      BY <2>1, <2>2 DEF Kept!Next
  <1>6. CASE SweeperEnds
    BY <1>6, CustodyUnseen DEF SweeperEnds
  <1>7. CASE UNCHANGED vars
    BY <1>7, CustodyUnseen DEF vars
  <1> QED
    BY <1>1, <1>2, <1>3, <1>4, <1>5, <1>6, <1>7 DEF Next, Sweep

(* A set is cancelled once, by the one that took it out of the registry,     *)
(* which waits for it, whatever reads, reaps and disconnects overlap.        *)
THEOREM Custodian == Spec => SetsInCustody
  <1>1. Init => Kept!Init
    BY CustodyInit
  <1>2. IInv /\ [Next]_vars => [Kept!Next]_(Kept!vars)
    BY CustodyStep
  <1> QED
    BY <1>1, <1>2, Invariance, PTL DEF Spec, SetsInCustody, Kept!Spec
=============================================================================
