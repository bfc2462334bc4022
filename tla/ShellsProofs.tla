---------------------------- MODULE ShellsProofs ----------------------------
(* The theorems of Shells, for any number of sessions and pods: nothing that *)
(* was started is forgotten, no record outlives its pod, stopped means gone; *)
(* starts, clean-ups, stops and the sweep of one local shell end.            *)
EXTENDS Shells, TLAPS

LEMMA IInvInit == Init => IInv
  <1> SUFFICES ASSUME Init PROVE IInv
    OBVIOUS
  <1> USE ShellsAssumption DEF Init, PodKinds, Kinds
  <1>1. TypeOK
    BY DEF TypeOK, InHand
  <1>2. Owned /\ Shared /\ Held /\ Local /\ Sweeping /\ Ghosts
    BY DEF Owned, Shared, Held, Local, Sweeping, Ghosts
  <1>3. NothingForgotten
    BY DEF NothingForgotten, PodsAreAnswered, ProcessesAreAnswered
  <1> QED
    BY <1>1, <1>2, <1>3 DEF IInv

(* Every variable keeps its type.                                            *)
LEMMA TypeStep == ASSUME TypeOK, Owned, Held, Local, Sweeping, [Next]_vars PROVE TypeOK'
  <1> USE ShellsAssumption DEF PodKinds, Kinds, Up, pods, processes, directories, sweeping
  <1>1. ASSUME NEW p \in Pods, PodGoes(p) PROVE TypeOK'
    BY <1>1 DEF PodGoes, TypeOK, InHand, Owned, Held, Local, Sweeping
  <1>2. ASSUME NEW c \in Sessions, NEW k \in PodKinds, NEW p \in Pods, Created(c, k, p) PROVE TypeOK'
    BY <1>2 DEF Created, Create, Begins, TypeOK, InHand, Owned, Held, Local, Sweeping
  <1>3. ASSUME NEW c \in Sessions, NEW k \in PodKinds, NEW p \in Pods, CreateUnanswered(c, k, p) PROVE TypeOK'
    BY <1>3 DEF CreateUnanswered, Create, Begins, TypeOK, InHand, Owned, Held, Local, Sweeping
  <1>4. ASSUME NEW c \in Sessions, NEW p \in Pods, Offer(c, p) PROVE TypeOK'
    BY <1>4 DEF Offer, Begins, TypeOK, InHand, Owned, Held, Local, Sweeping
  <1>5. ASSUME NEW c \in Sessions, Adopt(c) PROVE TypeOK'
    BY <1>5 DEF Adopt, Goes, TypeOK, InHand, Owned, Held, Local, Sweeping
  <1>6. ASSUME NEW c \in Sessions, StartProcess(c) PROVE TypeOK'
    BY <1>6 DEF StartProcess, Begins, TypeOK, InHand, Owned, Held, Local, Sweeping
  <1>32. ASSUME NEW c \in Sessions, NotStarted(c) PROVE TypeOK'
    BY <1>32 DEF NotStarted, Begins, TypeOK, InHand, Owned, Held, Local, Sweeping
  <1>7. ASSUME NEW c \in Sessions, PodRuns(c) PROVE TypeOK'
    BY <1>7 DEF PodRuns, Goes, TypeOK, InHand, Owned, Held, Local, Sweeping
  <1>8. ASSUME NEW c \in Sessions, WaitFails(c) PROVE TypeOK'
    BY <1>8 DEF WaitFails, Goes, TypeOK, InHand, Owned, Held, Local, Sweeping
  <1>9. ASSUME NEW c \in Sessions, Register(c) PROVE TypeOK'
    BY <1>9 DEF Register, Goes, TypeOK, InHand, Owned, Held, Local, Sweeping
  <1>10. ASSUME NEW c \in Sessions, UndoPod(c) PROVE TypeOK'
    BY <1>10 DEF UndoPod, Goes, Delete, TypeOK, InHand, Owned, Held, Local, Sweeping
  <1>11. ASSUME NEW c \in Sessions, UndoProcess(c) PROVE TypeOK'
    BY <1>11 DEF UndoProcess, DropOverlay, Goes, TypeOK, InHand, Owned, Held, Local, Sweeping
  <1>12. ASSUME NEW c \in Sessions, SessionEnds(c) PROVE TypeOK'
    BY <1>12 DEF SessionEnds, Goes, TypeOK, InHand, Owned, Held, Local, Sweeping
  <1>13. ASSUME NEW c \in Sessions, StopTakes(c) PROVE TypeOK'
    BY <1>13 DEF StopTakes, Goes, TypeOK, InHand, Owned, Held, Local, Sweeping
  <1>14. ASSUME NEW c \in Sessions, StopDeletes(c) PROVE TypeOK'
    BY <1>14 DEF StopDeletes, Goes, Delete, TypeOK, InHand, Owned, Held, Local, Sweeping
  <1>15. ASSUME NEW c \in Sessions, WindowStops(c) PROVE TypeOK'
    BY <1>15 DEF WindowStops, TypeOK, InHand, Owned, Held, Local, Sweeping
  <1>16. ASSUME NEW c \in Sessions, WindowDeletes(c) PROVE TypeOK'
    BY <1>16 DEF WindowDeletes, Delete, TypeOK, InHand, Owned, Held, Local, Sweeping
  <1>17. ASSUME NEW c \in Sessions, ProcessExits(c) PROVE TypeOK'
    BY <1>17 DEF ProcessExits, TypeOK, InHand, Owned, Held, Local, Sweeping
  <1>18. ASSUME NEW c \in Sessions, Retire(c) PROVE TypeOK'
    BY <1>18 DEF Retire, Goes, TypeOK, InHand, Owned, Held, Local, Sweeping
  <1>19. ASSUME NEW c \in Sessions, Retired(c) PROVE TypeOK'
    BY <1>19 DEF Retired, DropOverlay, Goes, TypeOK, InHand, Owned, Held, Local, Sweeping
  <1>20. ASSUME NEW c \in Sessions, Ask(c) PROVE TypeOK'
    BY <1>20 DEF Ask, TypeOK, InHand, Owned, Held, Local, Sweeping
  <1>21. ASSUME NEW c \in Sessions, Hangup(c) PROVE TypeOK'
    BY <1>21 DEF Hangup, Signals, TypeOK, InHand, Owned, Held, Local, Sweeping
  <1>22. ASSUME NEW c \in Sessions, Kill(c) PROVE TypeOK'
    BY <1>22 DEF Kill, Signals, TypeOK, InHand, Owned, Held, Local, Sweeping
  <1>23. ASSUME NEW c \in Sessions, StopReturns(c) PROVE TypeOK'
    BY <1>23 DEF StopReturns, TypeOK, InHand, Owned, Held, Local, Sweeping
  <1>24. ASSUME NEW c \in Sessions, SweepDeletes(c) PROVE TypeOK'
    BY <1>24 DEF SweepDeletes, Delete, TypeOK, InHand, Owned, Held, Local, Sweeping
  <1>25. ASSUME NEW c \in Sessions, SweepEnds(c) PROVE TypeOK'
    BY <1>25 DEF SweepEnds, TypeOK, InHand, Owned, Held, Local, Sweeping
  <1>26. ASSUME NEW c \in Sessions, SweepWaited(c) PROVE TypeOK'
    BY <1>26 DEF SweepWaited, TypeOK, InHand, Owned, Held, Local, Sweeping
  <1>27. ASSUME NEW k \in PodKinds, WindowStopsAll(k) PROVE TypeOK'
    BY <1>27 DEF WindowStopsAll, OfKind, TypeOK, InHand, Owned, Held, Local, Sweeping
  <1>28. ASSUME SweepBegins PROVE TypeOK'
    BY <1>28 DEF SweepBegins, StopAll, OfKind, TypeOK, InHand, Owned, Held, Local, Sweeping
  <1>29. ASSUME SweepGoesOn PROVE TypeOK'
    <2>1. taken' \in SUBSET Sessions /\ registry' \in SUBSET Sessions
      BY <1>29 DEF SweepGoesOn, StopAll, OfKind, TypeOK
    <2>2. closed' \in SUBSET Kinds /\ shutdown' \in Kinds
      BY <1>29 DEF SweepGoesOn, StopAll, TypeOK
    <2> QED
      BY <1>29, <2>1, <2>2 DEF SweepGoesOn, StopAll, TypeOK
  <1>30. ASSUME Exit PROVE TypeOK'
    BY <1>30 DEF Exit, TypeOK, InHand, Owned, Held, Local, Sweeping
  <1>31. ASSUME UNCHANGED vars PROVE TypeOK'
    BY <1>31 DEF vars, TypeOK, InHand, Owned, Held, Local, Sweeping
  <1> QED
    BY <1>1, <1>2, <1>3, <1>4, <1>5, <1>6, <1>7, <1>8, <1>9, <1>10, <1>11, <1>12, <1>13, <1>14, <1>15, <1>16, <1>17, <1>18, <1>19, <1>20, <1>21, <1>22, <1>23, <1>24, <1>25, <1>26, <1>27, <1>28, <1>29, <1>30, <1>31, <1>32 DEF Next, Starts, PodStarts, Settles, Stops, CleansUp, Pumps, Ends, Sweeps

(* A session keeps the pod it has, and a pod that was there is never absent. *)
LEMMA OwnedStep == ASSUME TypeOK, Owned, Held, Local, [Next]_vars PROVE Owned'
  <1> USE ShellsAssumption DEF PodKinds, Kinds, Up, pods, processes, directories, sweeping
  <1>1. ASSUME NEW p \in Pods, PodGoes(p) PROVE Owned'
    BY <1>1 DEF PodGoes, TypeOK, InHand, Owned, Held, Local
  <1>2. ASSUME NEW c \in Sessions, NEW k \in PodKinds, NEW p \in Pods, Created(c, k, p) PROVE Owned'
    BY <1>2 DEF Created, Create, Begins, TypeOK, InHand, Owned, Held, Local
  <1>3. ASSUME NEW c \in Sessions, NEW k \in PodKinds, NEW p \in Pods, CreateUnanswered(c, k, p) PROVE Owned'
    BY <1>3 DEF CreateUnanswered, Create, Begins, TypeOK, InHand, Owned, Held, Local
  <1>4. ASSUME NEW c \in Sessions, NEW p \in Pods, Offer(c, p) PROVE Owned'
    BY <1>4 DEF Offer, Begins, TypeOK, InHand, Owned, Held, Local
  <1>5. ASSUME NEW c \in Sessions, Adopt(c) PROVE Owned'
    BY <1>5 DEF Adopt, Goes, TypeOK, InHand, Owned, Held, Local
  <1>6. ASSUME NEW c \in Sessions, StartProcess(c) PROVE Owned'
    BY <1>6 DEF StartProcess, Begins, TypeOK, InHand, Owned, Held, Local
  <1>32. ASSUME NEW c \in Sessions, NotStarted(c) PROVE Owned'
    BY <1>32 DEF NotStarted, Begins, TypeOK, InHand, Owned, Held, Local
  <1>7. ASSUME NEW c \in Sessions, PodRuns(c) PROVE Owned'
    BY <1>7 DEF PodRuns, Goes, TypeOK, InHand, Owned, Held, Local
  <1>8. ASSUME NEW c \in Sessions, WaitFails(c) PROVE Owned'
    BY <1>8 DEF WaitFails, Goes, TypeOK, InHand, Owned, Held, Local
  <1>9. ASSUME NEW c \in Sessions, Register(c) PROVE Owned'
    BY <1>9 DEF Register, Goes, TypeOK, InHand, Owned, Held, Local
  <1>10. ASSUME NEW c \in Sessions, UndoPod(c) PROVE Owned'
    BY <1>10 DEF UndoPod, Goes, Delete, TypeOK, InHand, Owned, Held, Local
  <1>11. ASSUME NEW c \in Sessions, UndoProcess(c) PROVE Owned'
    BY <1>11 DEF UndoProcess, DropOverlay, Goes, TypeOK, InHand, Owned, Held, Local
  <1>12. ASSUME NEW c \in Sessions, SessionEnds(c) PROVE Owned'
    BY <1>12 DEF SessionEnds, Goes, TypeOK, InHand, Owned, Held, Local
  <1>13. ASSUME NEW c \in Sessions, StopTakes(c) PROVE Owned'
    BY <1>13 DEF StopTakes, Goes, TypeOK, InHand, Owned, Held, Local
  <1>14. ASSUME NEW c \in Sessions, StopDeletes(c) PROVE Owned'
    BY <1>14 DEF StopDeletes, Goes, Delete, TypeOK, InHand, Owned, Held, Local
  <1>15. ASSUME NEW c \in Sessions, WindowStops(c) PROVE Owned'
    BY <1>15 DEF WindowStops, TypeOK, InHand, Owned, Held, Local
  <1>16. ASSUME NEW c \in Sessions, WindowDeletes(c) PROVE Owned'
    BY <1>16 DEF WindowDeletes, Delete, TypeOK, InHand, Owned, Held, Local
  <1>17. ASSUME NEW c \in Sessions, ProcessExits(c) PROVE Owned'
    BY <1>17 DEF ProcessExits, TypeOK, InHand, Owned, Held, Local
  <1>18. ASSUME NEW c \in Sessions, Retire(c) PROVE Owned'
    BY <1>18 DEF Retire, Goes, TypeOK, InHand, Owned, Held, Local
  <1>19. ASSUME NEW c \in Sessions, Retired(c) PROVE Owned'
    BY <1>19 DEF Retired, DropOverlay, Goes, TypeOK, InHand, Owned, Held, Local
  <1>20. ASSUME NEW c \in Sessions, Ask(c) PROVE Owned'
    BY <1>20 DEF Ask, TypeOK, InHand, Owned, Held, Local
  <1>21. ASSUME NEW c \in Sessions, Hangup(c) PROVE Owned'
    BY <1>21 DEF Hangup, Signals, TypeOK, InHand, Owned, Held, Local
  <1>22. ASSUME NEW c \in Sessions, Kill(c) PROVE Owned'
    BY <1>22 DEF Kill, Signals, TypeOK, InHand, Owned, Held, Local
  <1>23. ASSUME NEW c \in Sessions, StopReturns(c) PROVE Owned'
    BY <1>23 DEF StopReturns, TypeOK, InHand, Owned, Held, Local
  <1>24. ASSUME NEW c \in Sessions, SweepDeletes(c) PROVE Owned'
    BY <1>24 DEF SweepDeletes, Delete, TypeOK, InHand, Owned, Held, Local
  <1>25. ASSUME NEW c \in Sessions, SweepEnds(c) PROVE Owned'
    BY <1>25 DEF SweepEnds, TypeOK, InHand, Owned, Held, Local
  <1>26. ASSUME NEW c \in Sessions, SweepWaited(c) PROVE Owned'
    BY <1>26 DEF SweepWaited, TypeOK, InHand, Owned, Held, Local
  <1>27. ASSUME NEW k \in PodKinds, WindowStopsAll(k) PROVE Owned'
    BY <1>27 DEF WindowStopsAll, OfKind, TypeOK, InHand, Owned, Held, Local
  <1>28. ASSUME SweepBegins PROVE Owned'
    BY <1>28 DEF SweepBegins, StopAll, OfKind, TypeOK, InHand, Owned, Held, Local
  <1>29. ASSUME SweepGoesOn PROVE Owned'
    BY <1>29 DEF SweepGoesOn, StopAll, OfKind, TypeOK, InHand, Owned, Held, Local
  <1>30. ASSUME Exit PROVE Owned'
    BY <1>30 DEF Exit, TypeOK, InHand, Owned, Held, Local
  <1>31. ASSUME UNCHANGED vars PROVE Owned'
    BY <1>31 DEF vars, TypeOK, InHand, Owned, Held, Local
  <1> QED
    BY <1>1, <1>2, <1>3, <1>4, <1>5, <1>6, <1>7, <1>8, <1>9, <1>10, <1>11, <1>12, <1>13, <1>14, <1>15, <1>16, <1>17, <1>18, <1>19, <1>20, <1>21, <1>22, <1>23, <1>24, <1>25, <1>26, <1>27, <1>28, <1>29, <1>30, <1>31, <1>32 DEF Next, Starts, PodStarts, Settles, Stops, CleansUp, Pumps, Ends, Sweeps

(* Only an adoption shares a pod: a name that is created was absent.         *)
LEMMA SharedStep == ASSUME TypeOK, Owned, Shared, [Next]_vars PROVE Shared'
  <1> USE ShellsAssumption DEF PodKinds, Kinds, Up, pods, processes, directories, sweeping
  <1>1. ASSUME NEW p \in Pods, PodGoes(p) PROVE Shared'
    BY <1>1 DEF PodGoes, TypeOK, InHand, Owned, Shared
  <1>2. ASSUME NEW c \in Sessions, NEW k \in PodKinds, NEW p \in Pods, Created(c, k, p) PROVE Shared'
    BY <1>2 DEF Created, Create, Begins, TypeOK, InHand, Owned, Shared
  <1>3. ASSUME NEW c \in Sessions, NEW k \in PodKinds, NEW p \in Pods, CreateUnanswered(c, k, p) PROVE Shared'
    BY <1>3 DEF CreateUnanswered, Create, Begins, TypeOK, InHand, Owned, Shared
  <1>4. ASSUME NEW c \in Sessions, NEW p \in Pods, Offer(c, p) PROVE Shared'
    BY <1>4 DEF Offer, Begins, TypeOK, InHand, Owned, Shared
  <1>5. ASSUME NEW c \in Sessions, Adopt(c) PROVE Shared'
    BY <1>5 DEF Adopt, Goes, TypeOK, InHand, Owned, Shared
  <1>6. ASSUME NEW c \in Sessions, StartProcess(c) PROVE Shared'
    BY <1>6 DEF StartProcess, Begins, TypeOK, InHand, Owned, Shared
  <1>32. ASSUME NEW c \in Sessions, NotStarted(c) PROVE Shared'
    BY <1>32 DEF NotStarted, Begins, TypeOK, InHand, Owned, Shared
  <1>7. ASSUME NEW c \in Sessions, PodRuns(c) PROVE Shared'
    BY <1>7 DEF PodRuns, Goes, TypeOK, InHand, Owned, Shared
  <1>8. ASSUME NEW c \in Sessions, WaitFails(c) PROVE Shared'
    BY <1>8 DEF WaitFails, Goes, TypeOK, InHand, Owned, Shared
  <1>9. ASSUME NEW c \in Sessions, Register(c) PROVE Shared'
    BY <1>9 DEF Register, Goes, TypeOK, InHand, Owned, Shared
  <1>10. ASSUME NEW c \in Sessions, UndoPod(c) PROVE Shared'
    BY <1>10 DEF UndoPod, Goes, Delete, TypeOK, InHand, Owned, Shared
  <1>11. ASSUME NEW c \in Sessions, UndoProcess(c) PROVE Shared'
    BY <1>11 DEF UndoProcess, DropOverlay, Goes, TypeOK, InHand, Owned, Shared
  <1>12. ASSUME NEW c \in Sessions, SessionEnds(c) PROVE Shared'
    BY <1>12 DEF SessionEnds, Goes, TypeOK, InHand, Owned, Shared
  <1>13. ASSUME NEW c \in Sessions, StopTakes(c) PROVE Shared'
    BY <1>13 DEF StopTakes, Goes, TypeOK, InHand, Owned, Shared
  <1>14. ASSUME NEW c \in Sessions, StopDeletes(c) PROVE Shared'
    BY <1>14 DEF StopDeletes, Goes, Delete, TypeOK, InHand, Owned, Shared
  <1>15. ASSUME NEW c \in Sessions, WindowStops(c) PROVE Shared'
    BY <1>15 DEF WindowStops, TypeOK, InHand, Owned, Shared
  <1>16. ASSUME NEW c \in Sessions, WindowDeletes(c) PROVE Shared'
    BY <1>16 DEF WindowDeletes, Delete, TypeOK, InHand, Owned, Shared
  <1>17. ASSUME NEW c \in Sessions, ProcessExits(c) PROVE Shared'
    BY <1>17 DEF ProcessExits, TypeOK, InHand, Owned, Shared
  <1>18. ASSUME NEW c \in Sessions, Retire(c) PROVE Shared'
    BY <1>18 DEF Retire, Goes, TypeOK, InHand, Owned, Shared
  <1>19. ASSUME NEW c \in Sessions, Retired(c) PROVE Shared'
    BY <1>19 DEF Retired, DropOverlay, Goes, TypeOK, InHand, Owned, Shared
  <1>20. ASSUME NEW c \in Sessions, Ask(c) PROVE Shared'
    BY <1>20 DEF Ask, TypeOK, InHand, Owned, Shared
  <1>21. ASSUME NEW c \in Sessions, Hangup(c) PROVE Shared'
    BY <1>21 DEF Hangup, Signals, TypeOK, InHand, Owned, Shared
  <1>22. ASSUME NEW c \in Sessions, Kill(c) PROVE Shared'
    BY <1>22 DEF Kill, Signals, TypeOK, InHand, Owned, Shared
  <1>23. ASSUME NEW c \in Sessions, StopReturns(c) PROVE Shared'
    BY <1>23 DEF StopReturns, TypeOK, InHand, Owned, Shared
  <1>24. ASSUME NEW c \in Sessions, SweepDeletes(c) PROVE Shared'
    BY <1>24 DEF SweepDeletes, Delete, TypeOK, InHand, Owned, Shared
  <1>25. ASSUME NEW c \in Sessions, SweepEnds(c) PROVE Shared'
    BY <1>25 DEF SweepEnds, TypeOK, InHand, Owned, Shared
  <1>26. ASSUME NEW c \in Sessions, SweepWaited(c) PROVE Shared'
    BY <1>26 DEF SweepWaited, TypeOK, InHand, Owned, Shared
  <1>27. ASSUME NEW k \in PodKinds, WindowStopsAll(k) PROVE Shared'
    BY <1>27 DEF WindowStopsAll, OfKind, TypeOK, InHand, Owned, Shared
  <1>28. ASSUME SweepBegins PROVE Shared'
    BY <1>28 DEF SweepBegins, StopAll, OfKind, TypeOK, InHand, Owned, Shared
  <1>29. ASSUME SweepGoesOn PROVE Shared'
    BY <1>29 DEF SweepGoesOn, StopAll, OfKind, TypeOK, InHand, Owned, Shared
  <1>30. ASSUME Exit PROVE Shared'
    BY <1>30 DEF Exit, TypeOK, InHand, Owned, Shared
  <1>31. ASSUME UNCHANGED vars PROVE Shared'
    BY <1>31 DEF vars, TypeOK, InHand, Owned, Shared
  <1> QED
    BY <1>1, <1>2, <1>3, <1>4, <1>5, <1>6, <1>7, <1>8, <1>9, <1>10, <1>11, <1>12, <1>13, <1>14, <1>15, <1>16, <1>17, <1>18, <1>19, <1>20, <1>21, <1>22, <1>23, <1>24, <1>25, <1>26, <1>27, <1>28, <1>29, <1>30, <1>31, <1>32 DEF Next, Starts, PodStarts, Settles, Stops, CleansUp, Pumps, Ends, Sweeps

(* A record that is taken leaves the registry, and does not come back.       *)
LEMMA HeldStep == ASSUME TypeOK, Owned, Held, Local, Sweeping, [Next]_vars PROVE Held'
  <1> USE ShellsAssumption DEF PodKinds, Kinds, Up, pods, processes, directories, sweeping
  <1>1. ASSUME NEW p \in Pods, PodGoes(p) PROVE Held'
    BY <1>1 DEF PodGoes, TypeOK, InHand, Owned, Held, Local, Sweeping
  <1>2. ASSUME NEW c \in Sessions, NEW k \in PodKinds, NEW p \in Pods, Created(c, k, p) PROVE Held'
    BY <1>2 DEF Created, Create, Begins, TypeOK, InHand, Owned, Held, Local, Sweeping
  <1>3. ASSUME NEW c \in Sessions, NEW k \in PodKinds, NEW p \in Pods, CreateUnanswered(c, k, p) PROVE Held'
    BY <1>3 DEF CreateUnanswered, Create, Begins, TypeOK, InHand, Owned, Held, Local, Sweeping
  <1>4. ASSUME NEW c \in Sessions, NEW p \in Pods, Offer(c, p) PROVE Held'
    BY <1>4 DEF Offer, Begins, TypeOK, InHand, Owned, Held, Local, Sweeping
  <1>5. ASSUME NEW c \in Sessions, Adopt(c) PROVE Held'
    BY <1>5 DEF Adopt, Goes, TypeOK, InHand, Owned, Held, Local, Sweeping
  <1>6. ASSUME NEW c \in Sessions, StartProcess(c) PROVE Held'
    BY <1>6 DEF StartProcess, Begins, TypeOK, InHand, Owned, Held, Local, Sweeping
  <1>32. ASSUME NEW c \in Sessions, NotStarted(c) PROVE Held'
    BY <1>32 DEF NotStarted, Begins, TypeOK, InHand, Owned, Held, Local, Sweeping
  <1>7. ASSUME NEW c \in Sessions, PodRuns(c) PROVE Held'
    BY <1>7 DEF PodRuns, Goes, TypeOK, InHand, Owned, Held, Local, Sweeping
  <1>8. ASSUME NEW c \in Sessions, WaitFails(c) PROVE Held'
    BY <1>8 DEF WaitFails, Goes, TypeOK, InHand, Owned, Held, Local, Sweeping
  <1>9. ASSUME NEW c \in Sessions, Register(c) PROVE Held'
    BY <1>9 DEF Register, Goes, TypeOK, InHand, Owned, Held, Local, Sweeping
  <1>10. ASSUME NEW c \in Sessions, UndoPod(c) PROVE Held'
    BY <1>10 DEF UndoPod, Goes, Delete, TypeOK, InHand, Owned, Held, Local, Sweeping
  <1>11. ASSUME NEW c \in Sessions, UndoProcess(c) PROVE Held'
    BY <1>11 DEF UndoProcess, DropOverlay, Goes, TypeOK, InHand, Owned, Held, Local, Sweeping
  <1>12. ASSUME NEW c \in Sessions, SessionEnds(c) PROVE Held'
    BY <1>12 DEF SessionEnds, Goes, TypeOK, InHand, Owned, Held, Local, Sweeping
  <1>13. ASSUME NEW c \in Sessions, StopTakes(c) PROVE Held'
    BY <1>13 DEF StopTakes, Goes, TypeOK, InHand, Owned, Held, Local, Sweeping
  <1>14. ASSUME NEW c \in Sessions, StopDeletes(c) PROVE Held'
    BY <1>14 DEF StopDeletes, Goes, Delete, TypeOK, InHand, Owned, Held, Local, Sweeping
  <1>15. ASSUME NEW c \in Sessions, WindowStops(c) PROVE Held'
    BY <1>15 DEF WindowStops, TypeOK, InHand, Owned, Held, Local, Sweeping
  <1>16. ASSUME NEW c \in Sessions, WindowDeletes(c) PROVE Held'
    BY <1>16 DEF WindowDeletes, Delete, TypeOK, InHand, Owned, Held, Local, Sweeping
  <1>17. ASSUME NEW c \in Sessions, ProcessExits(c) PROVE Held'
    BY <1>17 DEF ProcessExits, TypeOK, InHand, Owned, Held, Local, Sweeping
  <1>18. ASSUME NEW c \in Sessions, Retire(c) PROVE Held'
    BY <1>18 DEF Retire, Goes, TypeOK, InHand, Owned, Held, Local, Sweeping
  <1>19. ASSUME NEW c \in Sessions, Retired(c) PROVE Held'
    BY <1>19 DEF Retired, DropOverlay, Goes, TypeOK, InHand, Owned, Held, Local, Sweeping
  <1>20. ASSUME NEW c \in Sessions, Ask(c) PROVE Held'
    BY <1>20 DEF Ask, TypeOK, InHand, Owned, Held, Local, Sweeping
  <1>21. ASSUME NEW c \in Sessions, Hangup(c) PROVE Held'
    BY <1>21 DEF Hangup, Signals, TypeOK, InHand, Owned, Held, Local, Sweeping
  <1>22. ASSUME NEW c \in Sessions, Kill(c) PROVE Held'
    BY <1>22 DEF Kill, Signals, TypeOK, InHand, Owned, Held, Local, Sweeping
  <1>23. ASSUME NEW c \in Sessions, StopReturns(c) PROVE Held'
    BY <1>23 DEF StopReturns, TypeOK, InHand, Owned, Held, Local, Sweeping
  <1>24. ASSUME NEW c \in Sessions, SweepDeletes(c) PROVE Held'
    BY <1>24 DEF SweepDeletes, Delete, TypeOK, InHand, Owned, Held, Local, Sweeping
  <1>25. ASSUME NEW c \in Sessions, SweepEnds(c) PROVE Held'
    BY <1>25 DEF SweepEnds, TypeOK, InHand, Owned, Held, Local, Sweeping
  <1>26. ASSUME NEW c \in Sessions, SweepWaited(c) PROVE Held'
    BY <1>26 DEF SweepWaited, TypeOK, InHand, Owned, Held, Local, Sweeping
  <1>27. ASSUME NEW k \in PodKinds, WindowStopsAll(k) PROVE Held'
    BY <1>27 DEF WindowStopsAll, OfKind, TypeOK, InHand, Owned, Held, Local, Sweeping
  <1>28. ASSUME SweepBegins PROVE Held'
    BY <1>28 DEF SweepBegins, StopAll, OfKind, TypeOK, InHand, Owned, Held, Local, Sweeping
  <1>29. ASSUME SweepGoesOn PROVE Held'
    BY <1>29 DEF SweepGoesOn, StopAll, OfKind, TypeOK, InHand, Owned, Held, Local, Sweeping
  <1>30. ASSUME Exit PROVE Held'
    BY <1>30 DEF Exit, TypeOK, InHand, Owned, Held, Local, Sweeping
  <1>31. ASSUME UNCHANGED vars PROVE Held'
    BY <1>31 DEF vars, TypeOK, InHand, Owned, Held, Local, Sweeping
  <1> QED
    BY <1>1, <1>2, <1>3, <1>4, <1>5, <1>6, <1>7, <1>8, <1>9, <1>10, <1>11, <1>12, <1>13, <1>14, <1>15, <1>16, <1>17, <1>18, <1>19, <1>20, <1>21, <1>22, <1>23, <1>24, <1>25, <1>26, <1>27, <1>28, <1>29, <1>30, <1>31, <1>32 DEF Next, Starts, PodStarts, Settles, Stops, CleansUp, Pumps, Ends, Sweeps

(* A local session goes with its process and its directory.                  *)
LEMMA LocalStep == ASSUME TypeOK, Owned, Held, Local, Sweeping, [Next]_vars PROVE Local'
  <1> USE ShellsAssumption DEF PodKinds, Kinds, Up, pods, processes, directories, sweeping
  <1>1. ASSUME NEW p \in Pods, PodGoes(p) PROVE Local'
    BY <1>1 DEF PodGoes, TypeOK, InHand, Owned, Held, Local, Sweeping
  <1>2. ASSUME NEW c \in Sessions, NEW k \in PodKinds, NEW p \in Pods, Created(c, k, p) PROVE Local'
    BY <1>2 DEF Created, Create, Begins, TypeOK, InHand, Owned, Held, Local, Sweeping
  <1>3. ASSUME NEW c \in Sessions, NEW k \in PodKinds, NEW p \in Pods, CreateUnanswered(c, k, p) PROVE Local'
    BY <1>3 DEF CreateUnanswered, Create, Begins, TypeOK, InHand, Owned, Held, Local, Sweeping
  <1>4. ASSUME NEW c \in Sessions, NEW p \in Pods, Offer(c, p) PROVE Local'
    BY <1>4 DEF Offer, Begins, TypeOK, InHand, Owned, Held, Local, Sweeping
  <1>5. ASSUME NEW c \in Sessions, Adopt(c) PROVE Local'
    BY <1>5 DEF Adopt, Goes, TypeOK, InHand, Owned, Held, Local, Sweeping
  <1>6. ASSUME NEW c \in Sessions, StartProcess(c) PROVE Local'
    BY <1>6 DEF StartProcess, Begins, TypeOK, InHand, Owned, Held, Local, Sweeping
  <1>32. ASSUME NEW c \in Sessions, NotStarted(c) PROVE Local'
    BY <1>32 DEF NotStarted, Begins, TypeOK, InHand, Owned, Held, Local, Sweeping
  <1>7. ASSUME NEW c \in Sessions, PodRuns(c) PROVE Local'
    BY <1>7 DEF PodRuns, Goes, TypeOK, InHand, Owned, Held, Local, Sweeping
  <1>8. ASSUME NEW c \in Sessions, WaitFails(c) PROVE Local'
    BY <1>8 DEF WaitFails, Goes, TypeOK, InHand, Owned, Held, Local, Sweeping
  <1>9. ASSUME NEW c \in Sessions, Register(c) PROVE Local'
    BY <1>9 DEF Register, Goes, TypeOK, InHand, Owned, Held, Local, Sweeping
  <1>10. ASSUME NEW c \in Sessions, UndoPod(c) PROVE Local'
    BY <1>10 DEF UndoPod, Goes, Delete, TypeOK, InHand, Owned, Held, Local, Sweeping
  <1>11. ASSUME NEW c \in Sessions, UndoProcess(c) PROVE Local'
    BY <1>11 DEF UndoProcess, DropOverlay, Goes, TypeOK, InHand, Owned, Held, Local, Sweeping
  <1>12. ASSUME NEW c \in Sessions, SessionEnds(c) PROVE Local'
    BY <1>12 DEF SessionEnds, Goes, TypeOK, InHand, Owned, Held, Local, Sweeping
  <1>13. ASSUME NEW c \in Sessions, StopTakes(c) PROVE Local'
    BY <1>13 DEF StopTakes, Goes, TypeOK, InHand, Owned, Held, Local, Sweeping
  <1>14. ASSUME NEW c \in Sessions, StopDeletes(c) PROVE Local'
    BY <1>14 DEF StopDeletes, Goes, Delete, TypeOK, InHand, Owned, Held, Local, Sweeping
  <1>15. ASSUME NEW c \in Sessions, WindowStops(c) PROVE Local'
    BY <1>15 DEF WindowStops, TypeOK, InHand, Owned, Held, Local, Sweeping
  <1>16. ASSUME NEW c \in Sessions, WindowDeletes(c) PROVE Local'
    BY <1>16 DEF WindowDeletes, Delete, TypeOK, InHand, Owned, Held, Local, Sweeping
  <1>17. ASSUME NEW c \in Sessions, ProcessExits(c) PROVE Local'
    BY <1>17 DEF ProcessExits, TypeOK, InHand, Owned, Held, Local, Sweeping
  <1>18. ASSUME NEW c \in Sessions, Retire(c) PROVE Local'
    BY <1>18 DEF Retire, Goes, TypeOK, InHand, Owned, Held, Local, Sweeping
  <1>19. ASSUME NEW c \in Sessions, Retired(c) PROVE Local'
    BY <1>19 DEF Retired, DropOverlay, Goes, TypeOK, InHand, Owned, Held, Local, Sweeping
  <1>20. ASSUME NEW c \in Sessions, Ask(c) PROVE Local'
    BY <1>20 DEF Ask, TypeOK, InHand, Owned, Held, Local, Sweeping
  <1>21. ASSUME NEW c \in Sessions, Hangup(c) PROVE Local'
    BY <1>21 DEF Hangup, Signals, TypeOK, InHand, Owned, Held, Local, Sweeping
  <1>22. ASSUME NEW c \in Sessions, Kill(c) PROVE Local'
    BY <1>22 DEF Kill, Signals, TypeOK, InHand, Owned, Held, Local, Sweeping
  <1>23. ASSUME NEW c \in Sessions, StopReturns(c) PROVE Local'
    BY <1>23 DEF StopReturns, TypeOK, InHand, Owned, Held, Local, Sweeping
  <1>24. ASSUME NEW c \in Sessions, SweepDeletes(c) PROVE Local'
    BY <1>24 DEF SweepDeletes, Delete, TypeOK, InHand, Owned, Held, Local, Sweeping
  <1>25. ASSUME NEW c \in Sessions, SweepEnds(c) PROVE Local'
    BY <1>25 DEF SweepEnds, TypeOK, InHand, Owned, Held, Local, Sweeping
  <1>26. ASSUME NEW c \in Sessions, SweepWaited(c) PROVE Local'
    BY <1>26 DEF SweepWaited, TypeOK, InHand, Owned, Held, Local, Sweeping
  <1>27. ASSUME NEW k \in PodKinds, WindowStopsAll(k) PROVE Local'
    BY <1>27 DEF WindowStopsAll, OfKind, TypeOK, InHand, Owned, Held, Local, Sweeping
  <1>28. ASSUME SweepBegins PROVE Local'
    BY <1>28 DEF SweepBegins, StopAll, OfKind, TypeOK, InHand, Owned, Held, Local, Sweeping
  <1>29. ASSUME SweepGoesOn PROVE Local'
    BY <1>29 DEF SweepGoesOn, StopAll, OfKind, TypeOK, InHand, Owned, Held, Local, Sweeping
  <1>30. ASSUME Exit PROVE Local'
    BY <1>30 DEF Exit, TypeOK, InHand, Owned, Held, Local, Sweeping
  <1>31. ASSUME UNCHANGED vars PROVE Local'
    BY <1>31 DEF vars, TypeOK, InHand, Owned, Held, Local, Sweeping
  <1> QED
    BY <1>1, <1>2, <1>3, <1>4, <1>5, <1>6, <1>7, <1>8, <1>9, <1>10, <1>11, <1>12, <1>13, <1>14, <1>15, <1>16, <1>17, <1>18, <1>19, <1>20, <1>21, <1>22, <1>23, <1>24, <1>25, <1>26, <1>27, <1>28, <1>29, <1>30, <1>31, <1>32 DEF Next, Starts, PodStarts, Settles, Stops, CleansUp, Pumps, Ends, Sweeps

(* The sweep is at one kind at a time, and local shells come last.           *)
LEMMA SweepingStep == ASSUME TypeOK, Owned, Held, Sweeping, [Next]_vars PROVE Sweeping'
  <1> USE ShellsAssumption DEF PodKinds, Kinds, Up, pods, processes, directories, sweeping
  <1>1. ASSUME NEW p \in Pods, PodGoes(p) PROVE Sweeping'
    BY <1>1 DEF PodGoes, TypeOK, InHand, Owned, Held, Sweeping
  <1>2. ASSUME NEW c \in Sessions, NEW k \in PodKinds, NEW p \in Pods, Created(c, k, p) PROVE Sweeping'
    BY <1>2 DEF Created, Create, Begins, TypeOK, InHand, Owned, Held, Sweeping
  <1>3. ASSUME NEW c \in Sessions, NEW k \in PodKinds, NEW p \in Pods, CreateUnanswered(c, k, p) PROVE Sweeping'
    BY <1>3 DEF CreateUnanswered, Create, Begins, TypeOK, InHand, Owned, Held, Sweeping
  <1>4. ASSUME NEW c \in Sessions, NEW p \in Pods, Offer(c, p) PROVE Sweeping'
    BY <1>4 DEF Offer, Begins, TypeOK, InHand, Owned, Held, Sweeping
  <1>5. ASSUME NEW c \in Sessions, Adopt(c) PROVE Sweeping'
    BY <1>5 DEF Adopt, Goes, TypeOK, InHand, Owned, Held, Sweeping
  <1>6. ASSUME NEW c \in Sessions, StartProcess(c) PROVE Sweeping'
    BY <1>6 DEF StartProcess, Begins, TypeOK, InHand, Owned, Held, Sweeping
  <1>32. ASSUME NEW c \in Sessions, NotStarted(c) PROVE Sweeping'
    BY <1>32 DEF NotStarted, Begins, TypeOK, InHand, Owned, Held, Sweeping
  <1>7. ASSUME NEW c \in Sessions, PodRuns(c) PROVE Sweeping'
    BY <1>7 DEF PodRuns, Goes, TypeOK, InHand, Owned, Held, Sweeping
  <1>8. ASSUME NEW c \in Sessions, WaitFails(c) PROVE Sweeping'
    BY <1>8 DEF WaitFails, Goes, TypeOK, InHand, Owned, Held, Sweeping
  <1>9. ASSUME NEW c \in Sessions, Register(c) PROVE Sweeping'
    BY <1>9 DEF Register, Goes, TypeOK, InHand, Owned, Held, Sweeping
  <1>10. ASSUME NEW c \in Sessions, UndoPod(c) PROVE Sweeping'
    BY <1>10 DEF UndoPod, Goes, Delete, TypeOK, InHand, Owned, Held, Sweeping
  <1>11. ASSUME NEW c \in Sessions, UndoProcess(c) PROVE Sweeping'
    BY <1>11 DEF UndoProcess, DropOverlay, Goes, TypeOK, InHand, Owned, Held, Sweeping
  <1>12. ASSUME NEW c \in Sessions, SessionEnds(c) PROVE Sweeping'
    BY <1>12 DEF SessionEnds, Goes, TypeOK, InHand, Owned, Held, Sweeping
  <1>13. ASSUME NEW c \in Sessions, StopTakes(c) PROVE Sweeping'
    BY <1>13 DEF StopTakes, Goes, TypeOK, InHand, Owned, Held, Sweeping
  <1>14. ASSUME NEW c \in Sessions, StopDeletes(c) PROVE Sweeping'
    BY <1>14 DEF StopDeletes, Goes, Delete, TypeOK, InHand, Owned, Held, Sweeping
  <1>15. ASSUME NEW c \in Sessions, WindowStops(c) PROVE Sweeping'
    BY <1>15 DEF WindowStops, TypeOK, InHand, Owned, Held, Sweeping
  <1>16. ASSUME NEW c \in Sessions, WindowDeletes(c) PROVE Sweeping'
    BY <1>16 DEF WindowDeletes, Delete, TypeOK, InHand, Owned, Held, Sweeping
  <1>17. ASSUME NEW c \in Sessions, ProcessExits(c) PROVE Sweeping'
    BY <1>17 DEF ProcessExits, TypeOK, InHand, Owned, Held, Sweeping
  <1>18. ASSUME NEW c \in Sessions, Retire(c) PROVE Sweeping'
    BY <1>18 DEF Retire, Goes, TypeOK, InHand, Owned, Held, Sweeping
  <1>19. ASSUME NEW c \in Sessions, Retired(c) PROVE Sweeping'
    BY <1>19 DEF Retired, DropOverlay, Goes, TypeOK, InHand, Owned, Held, Sweeping
  <1>20. ASSUME NEW c \in Sessions, Ask(c) PROVE Sweeping'
    BY <1>20 DEF Ask, TypeOK, InHand, Owned, Held, Sweeping
  <1>21. ASSUME NEW c \in Sessions, Hangup(c) PROVE Sweeping'
    BY <1>21 DEF Hangup, Signals, TypeOK, InHand, Owned, Held, Sweeping
  <1>22. ASSUME NEW c \in Sessions, Kill(c) PROVE Sweeping'
    BY <1>22 DEF Kill, Signals, TypeOK, InHand, Owned, Held, Sweeping
  <1>23. ASSUME NEW c \in Sessions, StopReturns(c) PROVE Sweeping'
    BY <1>23 DEF StopReturns, TypeOK, InHand, Owned, Held, Sweeping
  <1>24. ASSUME NEW c \in Sessions, SweepDeletes(c) PROVE Sweeping'
    BY <1>24 DEF SweepDeletes, Delete, TypeOK, InHand, Owned, Held, Sweeping
  <1>25. ASSUME NEW c \in Sessions, SweepEnds(c) PROVE Sweeping'
    BY <1>25 DEF SweepEnds, TypeOK, InHand, Owned, Held, Sweeping
  <1>26. ASSUME NEW c \in Sessions, SweepWaited(c) PROVE Sweeping'
    BY <1>26 DEF SweepWaited, TypeOK, InHand, Owned, Held, Sweeping
  <1>27. ASSUME NEW k \in PodKinds, WindowStopsAll(k) PROVE Sweeping'
    BY <1>27 DEF WindowStopsAll, OfKind, TypeOK, InHand, Owned, Held, Sweeping
  <1>28. ASSUME SweepBegins PROVE Sweeping'
    BY <1>28 DEF SweepBegins, StopAll, OfKind, TypeOK, InHand, Owned, Held, Sweeping
  <1>29. ASSUME SweepGoesOn PROVE Sweeping'
    BY <1>29 DEF SweepGoesOn, StopAll, OfKind, TypeOK, InHand, Owned, Held, Sweeping
  <1>30. ASSUME Exit PROVE Sweeping'
    BY <1>30 DEF Exit, TypeOK, InHand, Owned, Held, Sweeping
  <1>31. ASSUME UNCHANGED vars PROVE Sweeping'
    BY <1>31 DEF vars, TypeOK, InHand, Owned, Held, Sweeping
  <1> QED
    BY <1>1, <1>2, <1>3, <1>4, <1>5, <1>6, <1>7, <1>8, <1>9, <1>10, <1>11, <1>12, <1>13, <1>14, <1>15, <1>16, <1>17, <1>18, <1>19, <1>20, <1>21, <1>22, <1>23, <1>24, <1>25, <1>26, <1>27, <1>28, <1>29, <1>30, <1>31, <1>32 DEF Next, Starts, PodStarts, Settles, Stops, CleansUp, Pumps, Ends, Sweeps

(* Who deletes a pod has no record of it: one that is left is another's.     *)
LEMMA GhostsStep == ASSUME TypeOK, Owned, Shared, Held, Ghosts, Sweeping, [Next]_vars PROVE Ghosts'
  <1> USE ShellsAssumption DEF PodKinds, Kinds, Up, pods, processes, directories, sweeping
  <1>1. ASSUME NEW p \in Pods, PodGoes(p) PROVE Ghosts'
    BY <1>1 DEF PodGoes, TypeOK, InHand, Owned, Shared, Held, Sweeping, Ghosts
  <1>2. ASSUME NEW c \in Sessions, NEW k \in PodKinds, NEW p \in Pods, Created(c, k, p) PROVE Ghosts'
    BY <1>2 DEF Created, Create, Begins, TypeOK, InHand, Owned, Shared, Held, Sweeping, Ghosts
  <1>3. ASSUME NEW c \in Sessions, NEW k \in PodKinds, NEW p \in Pods, CreateUnanswered(c, k, p) PROVE Ghosts'
    BY <1>3 DEF CreateUnanswered, Create, Begins, TypeOK, InHand, Owned, Shared, Held, Sweeping, Ghosts
  <1>4. ASSUME NEW c \in Sessions, NEW p \in Pods, Offer(c, p) PROVE Ghosts'
    BY <1>4 DEF Offer, Begins, TypeOK, InHand, Owned, Shared, Held, Sweeping, Ghosts
  <1>5. ASSUME NEW c \in Sessions, Adopt(c) PROVE Ghosts'
    BY <1>5 DEF Adopt, Goes, TypeOK, InHand, Owned, Shared, Held, Sweeping, Ghosts
  <1>6. ASSUME NEW c \in Sessions, StartProcess(c) PROVE Ghosts'
    BY <1>6 DEF StartProcess, Begins, TypeOK, InHand, Owned, Shared, Held, Sweeping, Ghosts
  <1>32. ASSUME NEW c \in Sessions, NotStarted(c) PROVE Ghosts'
    BY <1>32 DEF NotStarted, Begins, TypeOK, InHand, Owned, Shared, Held, Sweeping, Ghosts
  <1>7. ASSUME NEW c \in Sessions, PodRuns(c) PROVE Ghosts'
    BY <1>7 DEF PodRuns, Goes, TypeOK, InHand, Owned, Shared, Held, Sweeping, Ghosts
  <1>8. ASSUME NEW c \in Sessions, WaitFails(c) PROVE Ghosts'
    BY <1>8 DEF WaitFails, Goes, TypeOK, InHand, Owned, Shared, Held, Sweeping, Ghosts
  <1>9. ASSUME NEW c \in Sessions, Register(c) PROVE Ghosts'
    BY <1>9 DEF Register, Goes, TypeOK, InHand, Owned, Shared, Held, Sweeping, Ghosts
  <1>10. ASSUME NEW c \in Sessions, UndoPod(c) PROVE Ghosts'
    BY <1>10 DEF UndoPod, Goes, Delete, TypeOK, InHand, Owned, Shared, Held, Sweeping, Ghosts
  <1>11. ASSUME NEW c \in Sessions, UndoProcess(c) PROVE Ghosts'
    BY <1>11 DEF UndoProcess, DropOverlay, Goes, TypeOK, InHand, Owned, Shared, Held, Sweeping, Ghosts
  <1>12. ASSUME NEW c \in Sessions, SessionEnds(c) PROVE Ghosts'
    BY <1>12 DEF SessionEnds, Goes, TypeOK, InHand, Owned, Shared, Held, Sweeping, Ghosts
  <1>13. ASSUME NEW c \in Sessions, StopTakes(c) PROVE Ghosts'
    BY <1>13 DEF StopTakes, Goes, TypeOK, InHand, Owned, Shared, Held, Sweeping, Ghosts
  <1>14. ASSUME NEW c \in Sessions, StopDeletes(c) PROVE Ghosts'
    BY <1>14 DEF StopDeletes, Goes, Delete, TypeOK, InHand, Owned, Shared, Held, Sweeping, Ghosts
  <1>15. ASSUME NEW c \in Sessions, WindowStops(c) PROVE Ghosts'
    BY <1>15 DEF WindowStops, TypeOK, InHand, Owned, Shared, Held, Sweeping, Ghosts
  <1>16. ASSUME NEW c \in Sessions, WindowDeletes(c) PROVE Ghosts'
    BY <1>16 DEF WindowDeletes, Delete, TypeOK, InHand, Owned, Shared, Held, Sweeping, Ghosts
  <1>17. ASSUME NEW c \in Sessions, ProcessExits(c) PROVE Ghosts'
    BY <1>17 DEF ProcessExits, TypeOK, InHand, Owned, Shared, Held, Sweeping, Ghosts
  <1>18. ASSUME NEW c \in Sessions, Retire(c) PROVE Ghosts'
    BY <1>18 DEF Retire, Goes, TypeOK, InHand, Owned, Shared, Held, Sweeping, Ghosts
  <1>19. ASSUME NEW c \in Sessions, Retired(c) PROVE Ghosts'
    BY <1>19 DEF Retired, DropOverlay, Goes, TypeOK, InHand, Owned, Shared, Held, Sweeping, Ghosts
  <1>20. ASSUME NEW c \in Sessions, Ask(c) PROVE Ghosts'
    BY <1>20 DEF Ask, TypeOK, InHand, Owned, Shared, Held, Sweeping, Ghosts
  <1>21. ASSUME NEW c \in Sessions, Hangup(c) PROVE Ghosts'
    BY <1>21 DEF Hangup, Signals, TypeOK, InHand, Owned, Shared, Held, Sweeping, Ghosts
  <1>22. ASSUME NEW c \in Sessions, Kill(c) PROVE Ghosts'
    BY <1>22 DEF Kill, Signals, TypeOK, InHand, Owned, Shared, Held, Sweeping, Ghosts
  <1>23. ASSUME NEW c \in Sessions, StopReturns(c) PROVE Ghosts'
    BY <1>23 DEF StopReturns, TypeOK, InHand, Owned, Shared, Held, Sweeping, Ghosts
  <1>24. ASSUME NEW c \in Sessions, SweepDeletes(c) PROVE Ghosts'
    BY <1>24 DEF SweepDeletes, Delete, TypeOK, InHand, Owned, Shared, Held, Sweeping, Ghosts
  <1>25. ASSUME NEW c \in Sessions, SweepEnds(c) PROVE Ghosts'
    BY <1>25 DEF SweepEnds, TypeOK, InHand, Owned, Shared, Held, Sweeping, Ghosts
  <1>26. ASSUME NEW c \in Sessions, SweepWaited(c) PROVE Ghosts'
    BY <1>26 DEF SweepWaited, TypeOK, InHand, Owned, Shared, Held, Sweeping, Ghosts
  <1>27. ASSUME NEW k \in PodKinds, WindowStopsAll(k) PROVE Ghosts'
    BY <1>27 DEF WindowStopsAll, OfKind, TypeOK, InHand, Owned, Shared, Held, Sweeping, Ghosts
  <1>28. ASSUME SweepBegins PROVE Ghosts'
    BY <1>28 DEF SweepBegins, StopAll, OfKind, TypeOK, InHand, Owned, Shared, Held, Sweeping, Ghosts
  <1>29. ASSUME SweepGoesOn PROVE Ghosts'
    BY <1>29 DEF SweepGoesOn, StopAll, OfKind, TypeOK, InHand, Owned, Shared, Held, Sweeping, Ghosts
  <1>30. ASSUME Exit PROVE Ghosts'
    BY <1>30 DEF Exit, TypeOK, InHand, Owned, Shared, Held, Sweeping, Ghosts
  <1>31. ASSUME UNCHANGED vars PROVE Ghosts'
    BY <1>31 DEF vars, TypeOK, InHand, Owned, Shared, Held, Sweeping, Ghosts
  <1> QED
    BY <1>1, <1>2, <1>3, <1>4, <1>5, <1>6, <1>7, <1>8, <1>9, <1>10, <1>11, <1>12, <1>13, <1>14, <1>15, <1>16, <1>17, <1>18, <1>19, <1>20, <1>21, <1>22, <1>23, <1>24, <1>25, <1>26, <1>27, <1>28, <1>29, <1>30, <1>31, <1>32 DEF Next, Starts, PodStarts, Settles, Stops, CleansUp, Pumps, Ends, Sweeps

(* What one step lets go of another has in hand, or it is gone.              *)
LEMMA AnswersStep == ASSUME TypeOK, Owned, Shared, Held, Local, Sweeping, NothingForgotten, [Next]_vars PROVE NothingForgotten'
  <1> USE ShellsAssumption DEF PodKinds, Kinds, Up, pods, processes, directories, sweeping
  <1>1. ASSUME NEW p \in Pods, PodGoes(p) PROVE NothingForgotten'
    BY <1>1 DEF PodGoes, TypeOK, InHand, Exists, Owned, Held, Local, Sweeping, NothingForgotten, PodsAreAnswered, ProcessesAreAnswered, Answers
  <1>2. ASSUME NEW c \in Sessions, NEW k \in PodKinds, NEW p \in Pods, Created(c, k, p) PROVE NothingForgotten'
    BY <1>2 DEF Created, Create, Begins, TypeOK, InHand, Exists, Owned, Held, Local, Sweeping, NothingForgotten, PodsAreAnswered, ProcessesAreAnswered, Answers
  <1>3. ASSUME NEW c \in Sessions, NEW k \in PodKinds, NEW p \in Pods, CreateUnanswered(c, k, p) PROVE NothingForgotten'
    BY <1>3 DEF CreateUnanswered, Create, Begins, TypeOK, InHand, Exists, Owned, Held, Local, Sweeping, NothingForgotten, PodsAreAnswered, ProcessesAreAnswered, Answers
  <1>4. ASSUME NEW c \in Sessions, NEW p \in Pods, Offer(c, p) PROVE NothingForgotten'
    BY <1>4 DEF Offer, Begins, TypeOK, InHand, Exists, Owned, Held, Local, Sweeping, NothingForgotten, PodsAreAnswered, ProcessesAreAnswered, Answers
  <1>5. ASSUME NEW c \in Sessions, Adopt(c) PROVE NothingForgotten'
    BY <1>5 DEF Adopt, Goes, TypeOK, InHand, Exists, Owned, Held, Local, Sweeping, NothingForgotten, PodsAreAnswered, ProcessesAreAnswered, Answers
  <1>6. ASSUME NEW c \in Sessions, StartProcess(c) PROVE NothingForgotten'
    BY <1>6 DEF StartProcess, Begins, TypeOK, InHand, Exists, Owned, Held, Local, Sweeping, NothingForgotten, PodsAreAnswered, ProcessesAreAnswered, Answers
  <1>32. ASSUME NEW c \in Sessions, NotStarted(c) PROVE NothingForgotten'
    BY <1>32 DEF NotStarted, Begins, TypeOK, InHand, Exists, Owned, Held, Local, Sweeping, NothingForgotten, PodsAreAnswered, ProcessesAreAnswered, Answers
  <1>7. ASSUME NEW c \in Sessions, PodRuns(c) PROVE NothingForgotten'
    BY <1>7 DEF PodRuns, Goes, TypeOK, InHand, Exists, Owned, Held, Local, Sweeping, NothingForgotten, PodsAreAnswered, ProcessesAreAnswered, Answers
  <1>8. ASSUME NEW c \in Sessions, WaitFails(c) PROVE NothingForgotten'
    BY <1>8 DEF WaitFails, Goes, TypeOK, InHand, Exists, Owned, Held, Local, Sweeping, NothingForgotten, PodsAreAnswered, ProcessesAreAnswered, Answers
  <1>9. ASSUME NEW c \in Sessions, Register(c) PROVE NothingForgotten'
    BY <1>9 DEF Register, Goes, TypeOK, InHand, Exists, Owned, Held, Local, Sweeping, NothingForgotten, PodsAreAnswered, ProcessesAreAnswered, Answers
  <1>10. ASSUME NEW c \in Sessions, UndoPod(c) PROVE NothingForgotten'
    BY <1>10 DEF UndoPod, Goes, Delete, TypeOK, InHand, Exists, Owned, Held, Local, Sweeping, NothingForgotten, PodsAreAnswered, ProcessesAreAnswered, Answers
  <1>11. ASSUME NEW c \in Sessions, UndoProcess(c) PROVE NothingForgotten'
    BY <1>11 DEF UndoProcess, DropOverlay, Goes, TypeOK, InHand, Exists, Owned, Held, Local, Sweeping, NothingForgotten, PodsAreAnswered, ProcessesAreAnswered, Answers
  <1>12. ASSUME NEW c \in Sessions, SessionEnds(c) PROVE NothingForgotten'
    BY <1>12 DEF SessionEnds, Goes, TypeOK, InHand, Exists, Owned, Held, Local, Sweeping, NothingForgotten, PodsAreAnswered, ProcessesAreAnswered, Answers
  <1>13. ASSUME NEW c \in Sessions, StopTakes(c) PROVE NothingForgotten'
    BY <1>13 DEF StopTakes, Goes, TypeOK, InHand, Exists, Owned, Held, Local, Sweeping, NothingForgotten, PodsAreAnswered, ProcessesAreAnswered, Answers
  <1>14. ASSUME NEW c \in Sessions, StopDeletes(c) PROVE NothingForgotten'
    BY <1>14 DEF StopDeletes, Goes, Delete, TypeOK, InHand, Exists, Owned, Held, Local, Sweeping, NothingForgotten, PodsAreAnswered, ProcessesAreAnswered, Answers
  <1>15. ASSUME NEW c \in Sessions, WindowStops(c) PROVE NothingForgotten'
    BY <1>15 DEF WindowStops, TypeOK, InHand, Exists, Owned, Held, Local, Sweeping, NothingForgotten, PodsAreAnswered, ProcessesAreAnswered, Answers
  <1>16. ASSUME NEW c \in Sessions, WindowDeletes(c) PROVE NothingForgotten'
    BY <1>16 DEF WindowDeletes, Delete, TypeOK, InHand, Exists, Owned, Held, Local, Sweeping, NothingForgotten, PodsAreAnswered, ProcessesAreAnswered, Answers
  <1>17. ASSUME NEW c \in Sessions, ProcessExits(c) PROVE NothingForgotten'
    BY <1>17 DEF ProcessExits, TypeOK, InHand, Exists, Owned, Held, Local, Sweeping, NothingForgotten, PodsAreAnswered, ProcessesAreAnswered, Answers
  <1>18. ASSUME NEW c \in Sessions, Retire(c) PROVE NothingForgotten'
    BY <1>18 DEF Retire, Goes, TypeOK, InHand, Exists, Owned, Held, Local, Sweeping, NothingForgotten, PodsAreAnswered, ProcessesAreAnswered, Answers
  <1>19. ASSUME NEW c \in Sessions, Retired(c) PROVE NothingForgotten'
    BY <1>19 DEF Retired, DropOverlay, Goes, TypeOK, InHand, Exists, Owned, Held, Local, Sweeping, NothingForgotten, PodsAreAnswered, ProcessesAreAnswered, Answers
  <1>20. ASSUME NEW c \in Sessions, Ask(c) PROVE NothingForgotten'
    BY <1>20 DEF Ask, TypeOK, InHand, Exists, Owned, Held, Local, Sweeping, NothingForgotten, PodsAreAnswered, ProcessesAreAnswered, Answers
  <1>21. ASSUME NEW c \in Sessions, Hangup(c) PROVE NothingForgotten'
    BY <1>21 DEF Hangup, Signals, TypeOK, InHand, Exists, Owned, Held, Local, Sweeping, NothingForgotten, PodsAreAnswered, ProcessesAreAnswered, Answers
  <1>22. ASSUME NEW c \in Sessions, Kill(c) PROVE NothingForgotten'
    BY <1>22 DEF Kill, Signals, TypeOK, InHand, Exists, Owned, Held, Local, Sweeping, NothingForgotten, PodsAreAnswered, ProcessesAreAnswered, Answers
  <1>23. ASSUME NEW c \in Sessions, StopReturns(c) PROVE NothingForgotten'
    BY <1>23 DEF StopReturns, TypeOK, InHand, Exists, Owned, Held, Local, Sweeping, NothingForgotten, PodsAreAnswered, ProcessesAreAnswered, Answers
  <1>24. ASSUME NEW c \in Sessions, SweepDeletes(c) PROVE NothingForgotten'
    BY <1>24 DEF SweepDeletes, Delete, TypeOK, InHand, Exists, Owned, Held, Local, Sweeping, NothingForgotten, PodsAreAnswered, ProcessesAreAnswered, Answers
  <1>25. ASSUME NEW c \in Sessions, SweepEnds(c) PROVE NothingForgotten'
    BY <1>25 DEF SweepEnds, TypeOK, InHand, Exists, Owned, Held, Local, Sweeping, NothingForgotten, PodsAreAnswered, ProcessesAreAnswered, Answers
  <1>26. ASSUME NEW c \in Sessions, SweepWaited(c) PROVE NothingForgotten'
    BY <1>26 DEF SweepWaited, TypeOK, InHand, Exists, Owned, Held, Local, Sweeping, NothingForgotten, PodsAreAnswered, ProcessesAreAnswered, Answers
  <1>27. ASSUME NEW k \in PodKinds, WindowStopsAll(k) PROVE NothingForgotten'
    BY <1>27 DEF WindowStopsAll, OfKind, TypeOK, InHand, Exists, Owned, Held, Local, Sweeping, NothingForgotten, PodsAreAnswered, ProcessesAreAnswered, Answers
  <1>28. ASSUME SweepBegins PROVE NothingForgotten'
    BY <1>28 DEF SweepBegins, StopAll, OfKind, TypeOK, InHand, Exists, Owned, Held, Local, Sweeping, NothingForgotten, PodsAreAnswered, ProcessesAreAnswered, Answers
  <1>29. ASSUME SweepGoesOn PROVE NothingForgotten'
    BY <1>29 DEF SweepGoesOn, StopAll, OfKind, TypeOK, InHand, Exists, Owned, Held, Local, Sweeping, NothingForgotten, PodsAreAnswered, ProcessesAreAnswered, Answers
  <1>30. ASSUME Exit PROVE NothingForgotten'
    BY <1>30 DEF Exit, TypeOK, InHand, Exists, Owned, Held, Local, Sweeping, NothingForgotten, PodsAreAnswered, ProcessesAreAnswered, Answers
  <1>31. ASSUME UNCHANGED vars PROVE NothingForgotten'
    BY <1>31 DEF vars, TypeOK, InHand, Exists, Owned, Held, Local, Sweeping, NothingForgotten, PodsAreAnswered, ProcessesAreAnswered, Answers
  <1> QED
    BY <1>1, <1>2, <1>3, <1>4, <1>5, <1>6, <1>7, <1>8, <1>9, <1>10, <1>11, <1>12, <1>13, <1>14, <1>15, <1>16, <1>17, <1>18, <1>19, <1>20, <1>21, <1>22, <1>23, <1>24, <1>25, <1>26, <1>27, <1>28, <1>29, <1>30, <1>31, <1>32 DEF Next, Starts, PodStarts, Settles, Stops, CleansUp, Pumps, Ends, Sweeps

LEMMA IInvStep == IInv /\ [Next]_vars => IInv'
  BY TypeStep, OwnedStep, SharedStep, HeldStep, LocalStep, SweepingStep, GhostsStep, AnswersStep DEF IInv

LEMMA Invariance == Spec => []IInv
  BY IInvInit, IInvStep, PTL DEF Spec

(* Every variable keeps its type, for any number of sessions and pods.       *)
THEOREM TypeCorrect == Spec => []TypeOK
  <1>1. IInv => TypeOK
    BY DEF IInv
  <1> QED
    BY Invariance, <1>1, PTL

(* A pod or a process of ours always has somebody who will end it.           *)
THEOREM AnsweredFor == Spec => []NothingForgotten
  <1>1. IInv => NothingForgotten
    BY DEF IInv
  <1> QED
    BY Invariance, <1>1, PTL

(* The list shows no shell whose pod is deleted, but for one adopted twice.  *)
THEOREM ListIsHonest == Spec => []NoGhostShell
  <1>1. IInv => NoGhostShell
    <2> SUFFICES ASSUME TypeOK, Ghosts PROVE NoGhostShell
      BY DEF IInv
    <2> QED
      BY DEF TypeOK, Ghosts, NoGhostShell
  <1> QED
    BY Invariance, <1>1, PTL

(* A stop that returned leaves no process and no record, and no directory    *)
(* but one whose removal was tried and failed (localshell.go, pump and       *)
(* dropOverlay).                                                             *)
THEOREM StopsAreFinal == Spec => []StoppedIsGone
  <1>1. IInv => StoppedIsGone
    BY DEF IInv, TypeOK, Held, Local, StoppedIsGone
  <1> QED
    BY Invariance, <1>1, PTL
-----------------------------------------------------------------------------
(* Liveness. tlapm cannot expand ENABLED, so Fair is FairSpec with the guard *)
(* of each of a session's steps written where weak fairness has ENABLED of   *)
(* it: of a call, a clean-up, a killed process, a pump, an end, the sweep.   *)
SettleDue(c) == Up /\ pc[c] \in {"waiting", "register", "undo"}
CleanUpDue(c) == Up /\ pc[c] \in {"ending", "deleting"}
DeathDue(c) == Up /\ signalled[c] = "kill" /\ pc[c] = "attached" /\ proc[c] = "running"
PumpDue(c) == Up /\ \/ pc[c] = "attached" /\ proc[c] = "exited"
                    \/ pc[c] = "retiring"
EndDue(c) ==
    /\ Up /\ Ending(c)
    /\ \/ signalled[c] = "none"
       \/ signalled[c] = "hangup" /\ pc[c] # "done"
       \/ asked[c] = "waits" /\ pc[c] = "done"
SweepDue(c) ==
    \/ shutdown \in PodKinds /\ c \in taken
    \/ shutdown = "local" /\ c \in taken /\ at = None
    \/ at = c /\ pc[c] = "done"

SessionRuns(c) ==
    /\ []<>~SettleDue(c) \/ []<><<Settles(c)>>_vars
    /\ []<>~CleanUpDue(c) \/ []<><<CleansUp(c)>>_vars
    /\ []<>~DeathDue(c) \/ []<><<Dies(c)>>_vars
    /\ []<>~PumpDue(c) \/ []<><<Pumps(c)>>_vars
    /\ []<>~EndDue(c) \/ []<><<Ends(c)>>_vars
    /\ []<>~SweepDue(c) \/ []<><<Sweeps(c)>>_vars
Fair == Spec /\ \A c \in Sessions : SessionRuns(c)

(* Where any step takes a session.                                           *)
Course(c) ==
    \/ pc'[c] = pc[c]
    \/ pc[c] = "idle"
    \/ pc[c] = "waiting" /\ pc'[c] \in {"register", "undo"}
    \/ pc[c] = "offered" /\ pc'[c] = "register"
    \/ pc[c] = "register" /\ pc'[c] \in {"attached", "undo"}
    \/ pc[c] = "attached" /\ kind[c] # "local" /\ pc'[c] = "ending"
    \/ pc[c] = "attached" /\ proc[c] = "exited" /\ pc'[c] = "retiring"
    \/ pc[c] = "ending" /\ pc'[c] \in {"deleting", "done"}
    \/ pc[c] \in {"undo", "deleting", "retiring"} /\ pc'[c] = "done"

LEMMA Courses ==
  ASSUME IInv, [Next]_vars, NEW c \in Sessions
  PROVE  Course(c)
  <1>0. pc \in [Sessions -> InHand \cup {"idle", "offered", "attached", "ending", "retiring", "done"}]
    BY DEF IInv, TypeOK
  <1> USE <1>0 DEF Course
  <1>1. ASSUME NEW d \in Sessions, Starts(d) PROVE Course(c)
    BY <1>1 DEF Starts, PodStarts, Created, CreateUnanswered, Create, Offer, Adopt, StartProcess,
                NotStarted, Begins, Goes
  <1>2. ASSUME NEW d \in Sessions, Settles(d) PROVE Course(c)
    BY <1>2 DEF Settles, PodRuns, WaitFails, Register, UndoPod, UndoProcess, Goes
  <1>3. ASSUME NEW d \in Sessions, Stops(d) PROVE Course(c)
    BY <1>3 DEF Stops, CleansUp, SessionEnds, StopTakes, StopDeletes, Goes, PodKinds
  <1>4. ASSUME NEW d \in Sessions, Pumps(d) PROVE Course(c)
    BY <1>4 DEF Pumps, Retire, Retired, Goes
  <1>5. ASSUME NEW d \in Sessions, \/ WindowStops(d) \/ WindowDeletes(d) \/ ProcessExits(d)
                                   \/ Ask(d) \/ Ends(d) \/ Sweeps(d)
        PROVE  pc' = pc
    BY <1>5 DEF WindowStops, WindowDeletes, ProcessExits, Ask, Ends, Hangup, Kill, Signals,
                StopReturns, Sweeps, SweepDeletes, SweepEnds, SweepWaited
  <1>6. ASSUME \/ \E p \in Pods : PodGoes(p)
               \/ \E k \in PodKinds : WindowStopsAll(k)
               \/ SweepBegins \/ SweepGoesOn \/ Exit \/ UNCHANGED vars
        PROVE  pc' = pc
    BY <1>6 DEF PodGoes, WindowStopsAll, SweepBegins, SweepGoesOn, StopAll, Exit, vars
  <1> QED
    BY <1>1, <1>2, <1>3, <1>4, <1>5, <1>6 DEF Next

(* A start ends with a session or with nothing left of it, and a clean-up    *)
(* with its deletion done or given up (nodeshell.go, StartNodeShell and      *)
(* StopNodeShell; terminal.go, openAttachSession).                           *)
THEOREM CallsEnd == Fair => CallsReturn
  <1> SUFFICES ASSUME NEW c \in Sessions
               PROVE  Fair =>
                 /\ pc[c] \in {"waiting", "register", "undo"} ~> pc[c] \in {"attached", "done"} \/ ~Up
                 /\ pc[c] \in {"ending", "deleting"} ~> pc[c] = "done" \/ ~Up
    BY DEF CallsReturn
  <1> DEFINE Waiting == pc[c] = "waiting"
             Registering == pc[c] = "register"
             Undoing == pc[c] = "undo"
             Starting == pc[c] \in {"waiting", "register", "undo"}
             Started == pc[c] \in {"attached", "done"} \/ ~Up
             EndBegun == pc[c] = "ending"
             Deleting == pc[c] = "deleting"
             Closing == pc[c] \in {"ending", "deleting"}
             Closed == pc[c] = "done" \/ ~Up
             Start == Settles(c)
             CleanUp == CleansUp(c)
             StartDue == SettleDue(c)
             CloseDue == CleanUpDue(c)
  <1>1. /\ Starting => Waiting \/ Registering \/ Undoing
        /\ Closing => EndBegun \/ Deleting
        /\ Waiting \/ Registering \/ Undoing => StartDue \/ Started
        /\ EndBegun \/ Deleting => CloseDue \/ Closed
    BY DEF SettleDue, CleanUpDue
  <1>2. IInv /\ [Next]_vars =>
          /\ Waiting => Waiting' \/ Registering' \/ Undoing'
          /\ Registering => Registering' \/ Undoing' \/ Started'
          /\ Undoing => Undoing' \/ Started'
          /\ EndBegun => EndBegun' \/ Deleting' \/ Closed'
          /\ Deleting => Deleting' \/ Closed'
    BY Courses DEF Course
  <1>3. IInv /\ Start =>
          (Waiting => ~Waiting') /\ (Registering => ~Registering') /\ (Undoing => ~Undoing')
    BY DEF Settles, PodRuns, WaitFails, Register, UndoPod, UndoProcess, Goes, IInv, TypeOK
  <1>4. IInv /\ CleanUp => (EndBegun => ~EndBegun') /\ (Deleting => ~Deleting')
    BY DEF CleansUp, StopTakes, StopDeletes, Goes, IInv, TypeOK
  <1>5. Fair => /\ []<>~StartDue \/ []<><<Start>>_vars
                /\ []<>~CloseDue \/ []<><<CleanUp>>_vars
    BY DEF Fair, SessionRuns
  <1> HIDE DEF Waiting, Registering, Undoing, Starting, Started, EndBegun, Deleting, Closing,
               Closed, Start, CleanUp, StartDue, CloseDue
  <1>6. Fair => (Starting ~> Started)
    BY Invariance, <1>1, <1>2, <1>3, <1>5, PTL DEF Fair, Spec
  <1>7. Fair => (Closing ~> Closed)
    BY Invariance, <1>1, <1>2, <1>4, <1>5, PTL DEF Fair, Spec
  <1> QED
    BY <1>6, <1>7 DEF Starting, Started, Closing, Closed

(* How a local session that somebody ends may change.                        *)
EndCourse(c) ==
    /\ pc[c] \in {"attached", "retiring", "done"}
    /\ \/ signalled'[c] = signalled[c]
       \/ signalled[c] = "none" /\ signalled'[c] = "hangup"
       \/ signalled[c] = "hangup" /\ signalled'[c] = "kill"
    /\ proc'[c] = proc[c] \/ proc'[c] = "exited"
    /\ asked[c] = "waits" /\ asked'[c] # "waits" => pc[c] = "done" /\ asked'[c] = "returned"
    /\ at = c /\ at' # c => pc[c] = "done"

LEMMA EndCourses ==
  ASSUME IInv, [Next]_vars, NEW c \in Sessions, Ending(c)
  PROVE  EndCourse(c)
  <1>0. /\ kind[c] = "local" /\ pc[c] \in {"attached", "retiring", "done"}
        /\ proc \in [Sessions -> {"none", "running", "exited"}]
        /\ asked \in [Sessions -> {"no", "waits", "returned"}]
        /\ signalled \in [Sessions -> {"none", "hangup", "kill"}]
    <2>1. kind[c] = "local"
      BY ShellsAssumption DEF Ending, IInv, Local, Sweeping, Kinds, PodKinds
    <2> QED
      BY <2>1, ShellsAssumption DEF Ending, IInv, TypeOK, Local, Sweeping
  <1> USE <1>0, ShellsAssumption DEF EndCourse, Up, processes, directories, sweeping
  <1>1. ASSUME NEW d \in Sessions, Starts(d) PROVE EndCourse(c)
    BY <1>1 DEF Starts, PodStarts, Created, CreateUnanswered, Create, Offer, Adopt, StartProcess,
                NotStarted, Begins, Goes
  <1>2. ASSUME NEW d \in Sessions, Settles(d) PROVE EndCourse(c)
    BY <1>2 DEF Settles, PodRuns, WaitFails, Register, UndoPod, UndoProcess, Goes
  <1>3. ASSUME NEW d \in Sessions, Stops(d) PROVE EndCourse(c)
    BY <1>3 DEF Stops, CleansUp, SessionEnds, StopTakes, StopDeletes
  <1>4. ASSUME NEW d \in Sessions, Pumps(d) \/ ProcessExits(d) PROVE EndCourse(c)
    BY <1>4 DEF Pumps, Retire, Retired, ProcessExits
  <1>5. ASSUME NEW d \in Sessions, WindowStops(d) \/ WindowDeletes(d) PROVE EndCourse(c)
    BY <1>5 DEF WindowStops, WindowDeletes
  <1>6. ASSUME NEW d \in Sessions, Ask(d) PROVE EndCourse(c)
    BY <1>6 DEF Ask
  <1>7. ASSUME NEW d \in Sessions, Ends(d) PROVE EndCourse(c)
    BY <1>7 DEF Ends, Hangup, Kill, Signals, StopReturns
  <1>8. ASSUME NEW d \in Sessions, Sweeps(d) PROVE EndCourse(c)
    BY <1>8 DEF Sweeps, SweepDeletes, SweepEnds, SweepWaited
  <1>9. ASSUME \/ \E p \in Pods : PodGoes(p)
               \/ \E k \in PodKinds : WindowStopsAll(k)
               \/ SweepBegins \/ SweepGoesOn \/ Exit \/ UNCHANGED vars
        PROVE  EndCourse(c)
    BY <1>9 DEF PodGoes, WindowStopsAll, SweepBegins, SweepGoesOn, StopAll, Exit, vars
  <1> QED
    BY <1>1, <1>2, <1>3, <1>4, <1>5, <1>6, <1>7, <1>8, <1>9 DEF Next

(* A shell somebody ends is hung up, killed if that did not do it, reaped    *)
(* and retired.                                                              *)
LEMMA Reaped ==
  ASSUME NEW c \in Sessions
  PROVE  Fair => (Ending(c) ~> pc[c] = "done" \/ ~Up)
  <1> DEFINE Ended == Ending(c)
             Alive == Ending(c) /\ Up /\ pc[c] = "attached" /\ proc[c] = "running"
             Quiet == Alive /\ signalled[c] = "none"
             HungUp == Alive /\ signalled[c] = "hangup"
             Killed == Alive /\ signalled[c] = "kill"
             Dead == Ending(c) /\ Up /\ pc[c] = "attached" /\ proc[c] = "exited"
             Retiring == Ending(c) /\ Up /\ pc[c] = "retiring"
             Over == pc[c] = "done" \/ ~Up
             Signal == Ends(c)
             Death == Dies(c)
             Pump == Pumps(c)
             SignalDue == EndDue(c)
             DieDue == DeathDue(c)
             ReapDue == PumpDue(c)
  <1>1. IInv /\ Ended => Quiet \/ HungUp \/ Killed \/ Dead \/ Retiring \/ Over
    <2>1. IInv /\ Ended => kind[c] = "local" /\ pc[c] \in {"attached", "retiring", "done"}
      BY ShellsAssumption DEF Ending, IInv, Local, Sweeping, Kinds, PodKinds
    <2>2. IInv /\ Ended => /\ pc[c] # "done" => proc[c] \in {"running", "exited"}
                           /\ signalled[c] \in {"none", "hangup", "kill"}
      BY <2>1 DEF IInv, TypeOK, Local
    <2> QED
      BY <2>1, <2>2
  <1>2. /\ Quiet \/ HungUp => SignalDue
        /\ Killed => DieDue
        /\ Dead \/ Retiring => ReapDue
    BY DEF EndDue, DeathDue, PumpDue
  <1>3. IInv /\ Ended /\ [Next]_vars => Course(c) /\ EndCourse(c)
    BY Courses, EndCourses
  <1>4. IInv /\ Ended /\ Up /\ [Next]_vars => Ended' \/ Over'
    BY <1>3 DEF Course, EndCourse, Ending
  <1>5. IInv /\ [Next]_vars =>
          /\ Quiet => Quiet' \/ HungUp' \/ Dead' \/ Over'
          /\ HungUp => HungUp' \/ Killed' \/ Dead' \/ Over'
          /\ Killed => Killed' \/ Dead' \/ Over'
          /\ Dead => Dead' \/ Retiring' \/ Over'
          /\ Retiring => Retiring' \/ Over'
    <2>1. IInv => (Ended => kind[c] = "local")
      BY ShellsAssumption DEF Ending, IInv, Local, Sweeping, Kinds, PodKinds
    <2> QED
      BY <1>3, <1>4, <2>1 DEF Course, EndCourse
  <1>6. IInv /\ Signal => (Quiet => ~Quiet') /\ (HungUp => ~HungUp')
    BY DEF Ends, Hangup, Kill, Signals, StopReturns, IInv, TypeOK
  <1>7. IInv /\ Death => (Killed => ~Killed')
    BY DEF Dies, ProcessExits, IInv, TypeOK
  <1>8. IInv /\ Pump => (Dead => ~Dead') /\ (Retiring => ~Retiring')
    BY DEF Pumps, Retire, Retired, Goes, IInv, TypeOK
  <1>9. Fair => /\ []<>~SignalDue \/ []<><<Signal>>_vars
                /\ []<>~DieDue \/ []<><<Death>>_vars
                /\ []<>~ReapDue \/ []<><<Pump>>_vars
    BY DEF Fair, SessionRuns
  <1> HIDE DEF Ended, Alive, Quiet, HungUp, Killed, Dead, Retiring, Over, Signal, Death, Pump,
               SignalDue, DieDue, ReapDue
  <1>10. Fair => (Ended ~> Over)
    BY Invariance, <1>1, <1>2, <1>5, <1>6, <1>7, <1>8, <1>9, PTL DEF Fair, Spec
  <1> QED
    BY <1>10 DEF Ended, Over

(* StopLocalShell returns, and StopAllLocalShells goes on to the next shell, *)
(* though the shell ignores its hangup (localshell.go, end).                 *)
THEOREM EndsAreOver == Fair => EndsReturn
  <1> SUFFICES ASSUME NEW c \in Sessions
               PROVE  Fair => /\ asked[c] = "waits" ~> asked[c] = "returned" \/ ~Up
                              /\ at = c ~> at # c
    BY DEF EndsReturn
  <1> DEFINE Ended == Ending(c)
             Over == pc[c] = "done" \/ ~Up
             Done == pc[c] = "done"
             Gone == ~Up
             Waits == asked[c] = "waits"
             Unsent == Up /\ Waits /\ Done /\ signalled[c] = "none"
             Sent == Up /\ Waits /\ Done /\ signalled[c] # "none"
             Returned == asked[c] = "returned" \/ ~Up
             InSweep == at = c
             Passed == at # c
             Acts == Ends(c)
             Sweep == Sweeps(c)
             ActDue == EndDue(c)
             PassDue == SweepDue(c)
  <1>1. /\ Waits \/ InSweep => Ended
        /\ Over => Done \/ Gone
        /\ Gone => Returned
        /\ Waits /\ Done => Unsent \/ Sent \/ Gone
        /\ Unsent \/ Sent => ActDue
        /\ InSweep /\ Done => PassDue
        /\ ~InSweep => Passed
    BY DEF Ending, EndDue, SweepDue
  <1>2. IInv /\ InSweep => ~Gone
    BY ShellsAssumption DEF IInv, Sweeping, Up
  <1>3. IInv /\ [Next]_vars =>
          /\ Waits => Waits' \/ Returned'
          /\ Unsent => Unsent' \/ Sent' \/ Returned'
          /\ Sent => Sent' \/ Returned'
          /\ Done => Done'
    <2>1. IInv /\ [Next]_vars => Course(c) /\ (Waits => EndCourse(c))
      BY Courses, EndCourses DEF Ending
    <2> QED
      BY <2>1 DEF Course, EndCourse
  <1>4. IInv /\ Acts => (Unsent => ~Unsent') /\ (Sent => ~Sent')
    BY DEF Ends, Hangup, Kill, Signals, StopReturns, IInv, TypeOK
  <1>5. IInv /\ Sweep => (InSweep /\ Done => Passed')
    BY ShellsAssumption DEF Sweeps, SweepDeletes, SweepEnds, SweepWaited, IInv, Sweeping, PodKinds
  <1>6. Fair => (Ended ~> Over)
    BY Reaped
  <1>7. Fair => /\ []<>~ActDue \/ []<><<Acts>>_vars
                /\ []<>~PassDue \/ []<><<Sweep>>_vars
    BY DEF Fair, SessionRuns
  <1> HIDE DEF Ended, Over, Done, Gone, Waits, Unsent, Sent, Returned, InSweep, Passed, Acts,
               Sweep, ActDue, PassDue
  <1>8. Fair => (Waits ~> Returned)
    BY Invariance, <1>1, <1>3, <1>4, <1>6, <1>7, PTL DEF Fair, Spec
  <1>9. Fair => (InSweep ~> Passed)
    BY Invariance, <1>1, <1>2, <1>3, <1>5, <1>6, <1>7, PTL DEF Fair, Spec
  <1> QED
    BY <1>8, <1>9 DEF Waits, Returned, InSweep, Passed
=============================================================================
