---------------------------- MODULE ClientsProofs ----------------------------
(* What Clients promises, for any number of callers, sets, rewrites and      *)
(* releases.                                                                 *)
(*                                                                          *)
(* The argument: a client is discarded by the first step of a release, and   *)
(* whatever it answered, or may still answer, can be served only until that  *)
(* release takes the entry, the sweep and the set away, or until it moves    *)
(* the generation past every number that was captured before.                *)
EXTENDS Clients, TLAPS

(* Every step keeps the types.                                               *)
LEMMA TypeStep == IInv /\ [Next]_vars => TypeOK'
<1> SUFFICES ASSUME IInv, [Next]_vars PROVE TypeOK'
  OBVIOUS
<1>1. ASSUME NEW p \in Askers, Lookup(p) PROVE TypeOK'
  BY <1>1, ClientsAssumption DEF Lookup, Takes, Goes, TypeOK, IInv, Files,
       Entries, NoEntry, Credentials, Askers, Releasers, Releasing, Stages,
       Jobs, Caches, factory, stores, asking, watching
<1>2. ASSUME NEW p \in Askers, Recheck(p) PROVE TypeOK'
  BY <1>2, ClientsAssumption DEF Recheck, Takes, Goes, TypeOK, IInv, Files,
       Entries, NoEntry, Credentials, Askers, Releasers, Releasing, Stages,
       Jobs, Caches, factory, stores, asking, watching
<1>3. ASSUME NEW p \in Askers, ReadsConfig(p) PROVE TypeOK'
  BY <1>3, ClientsAssumption DEF ReadsConfig, Goes, TypeOK, IInv, Files,
       Entries, NoEntry, Credentials, Askers, Releasers, Releasing, Stages,
       Jobs, Caches, factory, stores, asking, watching
<1>4. ASSUME NEW p \in Askers, Built(p) PROVE TypeOK'
  BY <1>4, ClientsAssumption DEF Built, Takes, Goes, TypeOK, IInv, Files,
       Entries, NoEntry, Credentials, Askers, Releasers, Releasing, Stages,
       Jobs, Caches, factory, stores, asking, watching
<1>5. ASSUME NEW p \in Askers, NoClient(p) PROVE TypeOK'
  BY <1>5, ClientsAssumption DEF NoClient, Returns, Goes, LetsGo, TypeOK,
       IInv, Files, Entries, NoEntry, Credentials, Askers, Releasers,
       Releasing, Stages, Jobs, Caches, factory, stores, asking, watching
<1>6. ASSUME NEW p \in Callers, ReadPlain(p) PROVE TypeOK'
  BY <1>6, ClientsAssumption DEF ReadPlain, Begins, Goes, Free, TypeOK,
       IInv, Files, Entries, NoEntry, Credentials, Askers, Releasers,
       Releasing, Stages, Jobs, Caches, factory, stores, asking, watching
<1>7. ASSUME NEW p \in Callers, ReadNumbered(p) PROVE TypeOK'
  BY <1>7, ClientsAssumption DEF ReadNumbered, Begins, Goes, Free, TypeOK,
       IInv, Files, Entries, NoEntry, Credentials, Askers, Releasers,
       Releasing, Stages, Jobs, Caches, factory, stores, asking, watching
<1>8. ASSUME NEW p \in Callers, ReadSwept(p) PROVE TypeOK'
  BY <1>8, ClientsAssumption DEF ReadSwept, Begins, Goes, Free, TypeOK,
       IInv, Files, Entries, NoEntry, Credentials, Askers, Releasers,
       Releasing, Stages, Jobs, Caches, factory, stores, asking, watching
<1>9. ASSUME NEW p \in Callers, List(p) PROVE TypeOK'
  BY <1>9, ClientsAssumption DEF List, Begins, Goes, Free, TypeOK, IInv,
       Files, Entries, NoEntry, Credentials, Askers, Releasers, Releasing,
       Stages, Jobs, Caches, factory, stores, asking, watching
<1>10. ASSUME NEW p \in Callers, Connect(p) PROVE TypeOK'
  BY <1>10, ClientsAssumption DEF Connect, Begins, Goes, Free, TypeOK, IInv,
       Files, Entries, NoEntry, Credentials, Askers, Releasers, Releasing,
       Stages, Jobs, Caches, factory, stores, asking, watching
<1>11. ASSUME NEW q \in Callers, Disconnect(q) PROVE TypeOK'
  <2>1. /\ stage' \in [Releasers -> Stages] /\ releases' \in Nat
    BY <1>11 DEF Disconnect, Steps, Then, TypeOK, IInv, Releasers, Releasing, Stages
  <2>2. open' = FALSE /\ witnessed' = FALSE
    BY <1>11 DEF Disconnect
  <2> QED
    BY <1>11, <2>1, <2>2 DEF Disconnect, TypeOK, IInv, factory, stores,
         asking, watching
<1>12. ASSUME NEW q \in Callers, Retry(q) PROVE TypeOK'
  BY <1>12, ClientsAssumption DEF Retry, Steps, Then, Free, TypeOK, IInv,
       Files, Entries, NoEntry, Credentials, Askers, Releasers, Releasing,
       Stages, Jobs, Caches, factory, stores, asking, watching
<1>13. ASSUME NEW p \in Callers, Ensure(p) PROVE TypeOK'
  BY <1>13, ClientsAssumption DEF Ensure, Goes, TypeOK, IInv, Files,
       Entries, NoEntry, Credentials, Askers, Releasers, Releasing, Stages,
       Jobs, Caches, factory, stores, asking, watching
<1>14. ASSUME NEW p \in Callers, Stored(p) PROVE TypeOK'
  BY <1>14, ClientsAssumption DEF Stored, Keeps, Returns, Goes, TypeOK,
       IInv, Files, Entries, NoEntry, Credentials, Askers, Releasers,
       Releasing, Stages, Jobs, Caches, factory, stores, asking, watching
<1>15. ASSUME NEW p \in Callers, Swept(p) PROVE TypeOK'
  BY <1>15, ClientsAssumption DEF Swept, Keeps, Returns, Goes, LetsGo,
       TypeOK, IInv, Files, Entries, NoEntry, Credentials, Askers,
       Releasers, Releasing, Stages, Jobs, Caches, factory, stores, asking,
       watching
<1>16. ASSUME NEW p \in Callers, Connected(p) PROVE TypeOK'
  BY <1>16, ClientsAssumption DEF Connected, Returns, Goes, TypeOK, IInv,
       Files, Entries, NoEntry, Credentials, Askers, Releasers, Releasing,
       Stages, Jobs, Caches, factory, stores, asking, watching
<1>17. ASSUME NEW p \in Callers, Fails(p) PROVE TypeOK'
  BY <1>17, ClientsAssumption DEF Fails, Returns, Goes, LetsGo, TypeOK,
       IInv, Files, Entries, NoEntry, Credentials, Askers, Releasers,
       Releasing, Stages, Jobs, Caches, factory, stores, asking, watching
<1>18. ASSUME NEW w \in Sets, SetEnds(w) PROVE TypeOK'
  BY <1>18, ClientsAssumption DEF SetEnds, Returns, Goes, TypeOK, IInv,
       Files, Entries, NoEntry, Credentials, Askers, Releasers, Releasing,
       Stages, Jobs, Caches, factory, stores, asking, watching
<1>19. ASSUME NEW q \in Releasers, Invalidate(q) PROVE TypeOK'
  BY <1>19, ClientsAssumption DEF Invalidate, Steps, Then, Discarded,
       TypeOK, IInv, Files, Entries, NoEntry, Credentials, Askers,
       Releasers, Releasing, Stages, Jobs, Caches, factory, stores, asking,
       watching
<1>20. ASSUME NEW q \in Releasers, ForgetAll(q) PROVE TypeOK'
  BY <1>20, ClientsAssumption DEF ForgetAll, Steps, Then, TypeOK, IInv,
       Files, Entries, NoEntry, Credentials, Askers, Releasers, Releasing,
       Stages, Jobs, Caches, factory, stores, asking, watching
<1>21. ASSUME NEW q \in Releasers, Bump(q) PROVE TypeOK'
  BY <1>21, ClientsAssumption DEF Bump, Steps, Then, TypeOK, IInv, Files,
       Entries, NoEntry, Credentials, Askers, Releasers, Releasing, Stages,
       Jobs, Caches, factory, stores, asking, watching
<1>22. ASSUME Rewrite PROVE TypeOK'
  BY <1>22, ClientsAssumption DEF Rewrite, TypeOK, IInv, Files, Entries,
       NoEntry, Credentials, Askers, Releasers, Releasing, Stages, Jobs,
       Caches, factory, stores, asking, watching
<1>23. ASSUME Complete PROVE TypeOK'
  <2>1. file' \in Files
    BY <1>23 DEF Complete, TypeOK, IInv, Files
  <2>2. witnessed' = open
    BY <1>23 DEF Complete
  <2> QED
    BY <1>23, <2>1, <2>2 DEF Complete, TypeOK, IInv, factory, stores,
         asking, watching
<1>24. ASSUME Check PROVE TypeOK'
  BY <1>24, ClientsAssumption DEF Check, Moves, TypeOK, IInv, Files,
       Entries, NoEntry, Credentials, Askers, Releasers, Releasing, Stages,
       Jobs, Caches, factory, stores, asking, watching
<1>25. ASSUME Refresh PROVE TypeOK'
  BY <1>25, ClientsAssumption DEF Refresh, Moves, TypeOK, IInv, Files,
       Entries, NoEntry, Credentials, Askers, Releasers, Releasing, Stages,
       Jobs, Caches, factory, stores, asking, watching
<1>26. ASSUME Look PROVE TypeOK'
  BY <1>26, ClientsAssumption DEF Look, Moves, TypeOK, IInv, Files, Entries,
       NoEntry, Credentials, Askers, Releasers, Releasing, Stages, Jobs,
       Caches, factory, stores, asking, watching
<1>27. ASSUME Compare PROVE TypeOK'
  BY <1>27, ClientsAssumption DEF Compare, Moves, TypeOK, IInv, Files,
       Entries, NoEntry, Credentials, Askers, Releasers, Releasing, Stages,
       Jobs, Caches, factory, stores, asking, watching
<1>28. ASSUME UNCHANGED vars PROVE TypeOK'
  BY <1>28 DEF vars, TypeOK, IInv, Files, Entries, NoEntry, Credentials,
       Askers, Releasers, Releasing, Stages, Jobs, Caches, factory, stores,
       asking, watching
<1> QED
  BY <1>1, <1>2, <1>3, <1>4, <1>5, <1>6, <1>7, <1>8, <1>9, <1>10, <1>11,
       <1>12, <1>13, <1>14, <1>15, <1>16, <1>17, <1>18, <1>19, <1>20, <1>21,
       <1>22, <1>23, <1>24, <1>25, <1>26, <1>27, <1>28 DEF Next, Asks,
       Calls, Answers, Release, Watches, Releasers

(* Every step keeps the lock and the client apart.                           *)
LEMMA LockedStep == IInv /\ [Next]_vars => Locked'
<1> SUFFICES ASSUME IInv, [Next]_vars PROVE Locked'
  OBVIOUS
<1>1. ASSUME NEW p \in Askers, Lookup(p) PROVE Locked'
  BY <1>1, ClientsAssumption DEF Lookup, Takes, Goes, IInv, TypeOK, Locked,
       Askers, factory, stores, asking, watching
<1>2. ASSUME NEW p \in Askers, Recheck(p) PROVE Locked'
  BY <1>2, ClientsAssumption DEF Recheck, Takes, Goes, IInv, TypeOK, Locked,
       Askers, factory, stores, asking, watching
<1>3. ASSUME NEW p \in Askers, ReadsConfig(p) PROVE Locked'
  BY <1>3, ClientsAssumption DEF ReadsConfig, Goes, IInv, TypeOK, Locked,
       Askers, factory, stores, asking, watching
<1>4. ASSUME NEW p \in Askers, Built(p) PROVE Locked'
  BY <1>4, ClientsAssumption DEF Built, Takes, Goes, IInv, TypeOK, Locked,
       Askers, factory, stores, asking, watching
<1>5. ASSUME NEW p \in Askers, NoClient(p) PROVE Locked'
  BY <1>5, ClientsAssumption DEF NoClient, Returns, Goes, LetsGo, IInv,
       TypeOK, Locked, Askers, factory, stores, asking, watching
<1>6. ASSUME NEW p \in Callers, ReadPlain(p) PROVE Locked'
  BY <1>6, ClientsAssumption DEF ReadPlain, Begins, Goes, Free, IInv,
       TypeOK, Locked, Askers, factory, stores, asking, watching
<1>7. ASSUME NEW p \in Callers, ReadNumbered(p) PROVE Locked'
  BY <1>7, ClientsAssumption DEF ReadNumbered, Begins, Goes, Free, IInv,
       TypeOK, Locked, Askers, factory, stores, asking, watching
<1>8. ASSUME NEW p \in Callers, ReadSwept(p) PROVE Locked'
  BY <1>8, ClientsAssumption DEF ReadSwept, Begins, Goes, Free, IInv,
       TypeOK, Locked, Askers, factory, stores, asking, watching
<1>9. ASSUME NEW p \in Callers, List(p) PROVE Locked'
  BY <1>9, ClientsAssumption DEF List, Begins, Goes, Free, IInv, TypeOK,
       Locked, Askers, factory, stores, asking, watching
<1>10. ASSUME NEW p \in Callers, Connect(p) PROVE Locked'
  BY <1>10, ClientsAssumption DEF Connect, Begins, Goes, Free, IInv, TypeOK,
       Locked, Askers, factory, stores, asking, watching
<1>11. ASSUME NEW q \in Callers, Disconnect(q) PROVE Locked'
  BY <1>11, ClientsAssumption DEF Disconnect, Steps, Then, Free, IInv,
       TypeOK, Locked, Askers, factory, stores, asking, watching
<1>12. ASSUME NEW q \in Callers, Retry(q) PROVE Locked'
  BY <1>12, ClientsAssumption DEF Retry, Steps, Then, Free, IInv, TypeOK,
       Locked, Askers, factory, stores, asking, watching
<1>13. ASSUME NEW p \in Callers, Ensure(p) PROVE Locked'
  BY <1>13, ClientsAssumption DEF Ensure, Goes, IInv, TypeOK, Locked,
       Askers, factory, stores, asking, watching
<1>14. ASSUME NEW p \in Callers, Stored(p) PROVE Locked'
  BY <1>14, ClientsAssumption DEF Stored, Keeps, Returns, Goes, IInv,
       TypeOK, Locked, Askers, factory, stores, asking, watching
<1>15. ASSUME NEW p \in Callers, Swept(p) PROVE Locked'
  BY <1>15, ClientsAssumption DEF Swept, Keeps, Returns, Goes, LetsGo, IInv,
       TypeOK, Locked, Askers, factory, stores, asking, watching
<1>16. ASSUME NEW p \in Callers, Connected(p) PROVE Locked'
  BY <1>16, ClientsAssumption DEF Connected, Returns, Goes, IInv, TypeOK,
       Locked, Askers, factory, stores, asking, watching
<1>17. ASSUME NEW p \in Callers, Fails(p) PROVE Locked'
  BY <1>17, ClientsAssumption DEF Fails, Returns, Goes, LetsGo, IInv,
       TypeOK, Locked, Askers, factory, stores, asking, watching
<1>18. ASSUME NEW w \in Sets, SetEnds(w) PROVE Locked'
  BY <1>18, ClientsAssumption DEF SetEnds, Returns, Goes, IInv, TypeOK,
       Locked, Askers, factory, stores, asking, watching
<1>19. ASSUME NEW q \in Releasers, Invalidate(q) PROVE Locked'
  BY <1>19, ClientsAssumption DEF Invalidate, Steps, Then, Discarded, IInv,
       TypeOK, Locked, Askers, factory, stores, asking, watching
<1>20. ASSUME NEW q \in Releasers, ForgetAll(q) PROVE Locked'
  BY <1>20, ClientsAssumption DEF ForgetAll, Steps, Then, IInv, TypeOK,
       Locked, Askers, factory, stores, asking, watching
<1>21. ASSUME NEW q \in Releasers, Bump(q) PROVE Locked'
  BY <1>21, ClientsAssumption DEF Bump, Steps, Then, IInv, TypeOK, Locked,
       Askers, factory, stores, asking, watching
<1>22. ASSUME Rewrite PROVE Locked'
  BY <1>22, ClientsAssumption DEF Rewrite, IInv, TypeOK, Locked, Askers,
       factory, stores, asking, watching
<1>23. ASSUME Complete PROVE Locked'
  BY <1>23, ClientsAssumption DEF Complete, IInv, TypeOK, Locked, Askers,
       factory, stores, asking, watching
<1>24. ASSUME Check PROVE Locked'
  BY <1>24, ClientsAssumption DEF Check, Moves, IInv, TypeOK, Locked,
       Askers, factory, stores, asking, watching
<1>25. ASSUME Refresh PROVE Locked'
  BY <1>25, ClientsAssumption DEF Refresh, Moves, IInv, TypeOK, Locked,
       Askers, factory, stores, asking, watching
<1>26. ASSUME Look PROVE Locked'
  BY <1>26, ClientsAssumption DEF Look, Moves, IInv, TypeOK, Locked, Askers,
       factory, stores, asking, watching
<1>27. ASSUME Compare PROVE Locked'
  BY <1>27, ClientsAssumption DEF Compare, Moves, IInv, TypeOK, Locked,
       Askers, factory, stores, asking, watching
<1>28. ASSUME UNCHANGED vars PROVE Locked'
  BY <1>28 DEF vars, IInv, TypeOK, Locked, Askers, factory, stores, asking, watching
<1> QED
  BY <1>1, <1>2, <1>3, <1>4, <1>5, <1>6, <1>7, <1>8, <1>9, <1>10, <1>11,
       <1>12, <1>13, <1>14, <1>15, <1>16, <1>17, <1>18, <1>19, <1>20, <1>21,
       <1>22, <1>23, <1>24, <1>25, <1>26, <1>27, <1>28 DEF Next, Asks,
       Calls, Answers, Release, Watches, Releasers

(* Every step keeps the clients in hands.                                    *)
LEMMA HandsStep == IInv /\ [Next]_vars => Hands'
<1> SUFFICES ASSUME IInv, [Next]_vars PROVE Hands'
  OBVIOUS
<1>1. ASSUME NEW p \in Askers, Lookup(p) PROVE Hands'
  BY <1>1, ClientsAssumption DEF Lookup, Takes, Goes, IInv, TypeOK, Hands,
       Askers, Caches, factory, stores, asking, watching
<1>2. ASSUME NEW p \in Askers, Recheck(p) PROVE Hands'
  BY <1>2, ClientsAssumption DEF Recheck, Takes, Goes, IInv, TypeOK, Hands,
       Askers, Caches, factory, stores, asking, watching
<1>3. ASSUME NEW p \in Askers, ReadsConfig(p) PROVE Hands'
  BY <1>3, ClientsAssumption DEF ReadsConfig, Goes, IInv, TypeOK, Hands,
       Askers, Caches, factory, stores, asking, watching
<1>4. ASSUME NEW p \in Askers, Built(p) PROVE Hands'
  BY <1>4, ClientsAssumption DEF Built, Takes, Goes, IInv, TypeOK, Hands,
       Askers, Caches, factory, stores, asking, watching
<1>5. ASSUME NEW p \in Askers, NoClient(p) PROVE Hands'
  BY <1>5, ClientsAssumption DEF NoClient, Returns, Goes, LetsGo, IInv,
       TypeOK, Hands, Askers, Caches, factory, stores, asking, watching
<1>6. ASSUME NEW p \in Callers, ReadPlain(p) PROVE Hands'
  BY <1>6, ClientsAssumption DEF ReadPlain, Begins, Goes, Free, IInv,
       TypeOK, Hands, Askers, Caches, factory, stores, asking, watching
<1>7. ASSUME NEW p \in Callers, ReadNumbered(p) PROVE Hands'
  BY <1>7, ClientsAssumption DEF ReadNumbered, Begins, Goes, Free, IInv,
       TypeOK, Hands, Askers, Caches, factory, stores, asking, watching
<1>8. ASSUME NEW p \in Callers, ReadSwept(p) PROVE Hands'
  BY <1>8, ClientsAssumption DEF ReadSwept, Begins, Goes, Free, IInv,
       TypeOK, Hands, Askers, Caches, factory, stores, asking, watching
<1>9. ASSUME NEW p \in Callers, List(p) PROVE Hands'
  BY <1>9, ClientsAssumption DEF List, Begins, Goes, Free, IInv, TypeOK,
       Hands, Askers, Caches, factory, stores, asking, watching
<1>10. ASSUME NEW p \in Callers, Connect(p) PROVE Hands'
  BY <1>10, ClientsAssumption DEF Connect, Begins, Goes, Free, IInv, TypeOK,
       Hands, Askers, Caches, factory, stores, asking, watching
<1>11. ASSUME NEW q \in Callers, Disconnect(q) PROVE Hands'
  BY <1>11, ClientsAssumption DEF Disconnect, Steps, Then, Free, IInv,
       TypeOK, Hands, Askers, Caches, factory, stores, asking, watching
<1>12. ASSUME NEW q \in Callers, Retry(q) PROVE Hands'
  BY <1>12, ClientsAssumption DEF Retry, Steps, Then, Free, IInv, TypeOK,
       Hands, Askers, Caches, factory, stores, asking, watching
<1>13. ASSUME NEW p \in Callers, Ensure(p) PROVE Hands'
  BY <1>13, ClientsAssumption DEF Ensure, Goes, IInv, TypeOK, Hands, Askers,
       Caches, factory, stores, asking, watching
<1>14. ASSUME NEW p \in Callers, Stored(p) PROVE Hands'
  BY <1>14, ClientsAssumption DEF Stored, Keeps, Returns, Goes, IInv,
       TypeOK, Hands, Askers, Caches, factory, stores, asking, watching
<1>15. ASSUME NEW p \in Callers, Swept(p) PROVE Hands'
  BY <1>15, ClientsAssumption DEF Swept, Keeps, Returns, Goes, LetsGo, IInv,
       TypeOK, Hands, Askers, Caches, factory, stores, asking, watching
<1>16. ASSUME NEW p \in Callers, Connected(p) PROVE Hands'
  BY <1>16, ClientsAssumption DEF Connected, Returns, Goes, IInv, TypeOK,
       Hands, Askers, Caches, factory, stores, asking, watching
<1>17. ASSUME NEW p \in Callers, Fails(p) PROVE Hands'
  BY <1>17, ClientsAssumption DEF Fails, Returns, Goes, LetsGo, IInv,
       TypeOK, Hands, Askers, Caches, factory, stores, asking, watching
<1>18. ASSUME NEW w \in Sets, SetEnds(w) PROVE Hands'
  BY <1>18, ClientsAssumption DEF SetEnds, Returns, Goes, IInv, TypeOK,
       Hands, Askers, Caches, factory, stores, asking, watching
<1>19. ASSUME NEW q \in Releasers, Invalidate(q) PROVE Hands'
  BY <1>19, ClientsAssumption DEF Invalidate, Steps, Then, Discarded, IInv,
       TypeOK, Hands, Askers, Caches, factory, stores, asking, watching
<1>20. ASSUME NEW q \in Releasers, ForgetAll(q) PROVE Hands'
  BY <1>20, ClientsAssumption DEF ForgetAll, Steps, Then, IInv, TypeOK,
       Hands, Askers, Caches, factory, stores, asking, watching
<1>21. ASSUME NEW q \in Releasers, Bump(q) PROVE Hands'
  BY <1>21, ClientsAssumption DEF Bump, Steps, Then, IInv, TypeOK, Hands,
       Askers, Caches, factory, stores, asking, watching
<1>22. ASSUME Rewrite PROVE Hands'
  BY <1>22, ClientsAssumption DEF Rewrite, IInv, TypeOK, Hands, Askers,
       Caches, factory, stores, asking, watching
<1>23. ASSUME Complete PROVE Hands'
  BY <1>23, ClientsAssumption DEF Complete, IInv, TypeOK, Hands, Askers,
       Caches, factory, stores, asking, watching
<1>24. ASSUME Check PROVE Hands'
  BY <1>24, ClientsAssumption DEF Check, Moves, IInv, TypeOK, Hands, Askers,
       Caches, factory, stores, asking, watching
<1>25. ASSUME Refresh PROVE Hands'
  BY <1>25, ClientsAssumption DEF Refresh, Moves, IInv, TypeOK, Hands,
       Askers, Caches, factory, stores, asking, watching
<1>26. ASSUME Look PROVE Hands'
  BY <1>26, ClientsAssumption DEF Look, Moves, IInv, TypeOK, Hands, Askers,
       Caches, factory, stores, asking, watching
<1>27. ASSUME Compare PROVE Hands'
  BY <1>27, ClientsAssumption DEF Compare, Moves, IInv, TypeOK, Hands,
       Askers, Caches, factory, stores, asking, watching
<1>28. ASSUME UNCHANGED vars PROVE Hands'
  BY <1>28 DEF vars, IInv, TypeOK, Hands, Askers, Caches, factory, stores,
       asking, watching
<1> QED
  BY <1>1, <1>2, <1>3, <1>4, <1>5, <1>6, <1>7, <1>8, <1>9, <1>10, <1>11,
       <1>12, <1>13, <1>14, <1>15, <1>16, <1>17, <1>18, <1>19, <1>20, <1>21,
       <1>22, <1>23, <1>24, <1>25, <1>26, <1>27, <1>28 DEF Next, Asks,
       Calls, Answers, Release, Watches, Releasers

(* Every step keeps the numbers behind the generation.                       *)
LEMMA NumberedStep == IInv /\ [Next]_vars => Numbered'
<1> SUFFICES ASSUME IInv, [Next]_vars PROVE Numbered'
  OBVIOUS
<1>1. ASSUME NEW p \in Askers, Lookup(p) PROVE Numbered'
  BY <1>1 DEF Lookup, Takes, Goes, IInv, TypeOK, Numbered, Entries, NoEntry,
       factory, stores, asking, watching
<1>2. ASSUME NEW p \in Askers, Recheck(p) PROVE Numbered'
  BY <1>2 DEF Recheck, Takes, Goes, IInv, TypeOK, Numbered, Entries,
       NoEntry, factory, stores, asking, watching
<1>3. ASSUME NEW p \in Askers, ReadsConfig(p) PROVE Numbered'
  BY <1>3 DEF ReadsConfig, Goes, IInv, TypeOK, Numbered, Entries, NoEntry,
       factory, stores, asking, watching
<1>4. ASSUME NEW p \in Askers, Built(p) PROVE Numbered'
  BY <1>4 DEF Built, Takes, Goes, IInv, TypeOK, Numbered, Entries, NoEntry,
       factory, stores, asking, watching
<1>5. ASSUME NEW p \in Askers, NoClient(p) PROVE Numbered'
  BY <1>5 DEF NoClient, Returns, Goes, LetsGo, IInv, TypeOK, Numbered,
       Entries, NoEntry, factory, stores, asking, watching
<1>6. ASSUME NEW p \in Callers, ReadPlain(p) PROVE Numbered'
  BY <1>6 DEF ReadPlain, Begins, Goes, Free, IInv, TypeOK, Numbered,
       Entries, NoEntry, factory, stores, asking, watching
<1>7. ASSUME NEW p \in Callers, ReadNumbered(p) PROVE Numbered'
  BY <1>7 DEF ReadNumbered, Begins, Goes, Free, IInv, TypeOK, Numbered,
       Entries, NoEntry, factory, stores, asking, watching
<1>8. ASSUME NEW p \in Callers, ReadSwept(p) PROVE Numbered'
  BY <1>8 DEF ReadSwept, Begins, Goes, Free, IInv, TypeOK, Numbered,
       Entries, NoEntry, factory, stores, asking, watching
<1>9. ASSUME NEW p \in Callers, List(p) PROVE Numbered'
  BY <1>9 DEF List, Begins, Goes, Free, IInv, TypeOK, Numbered, Entries,
       NoEntry, factory, stores, asking, watching
<1>10. ASSUME NEW p \in Callers, Connect(p) PROVE Numbered'
  BY <1>10 DEF Connect, Begins, Goes, Free, IInv, TypeOK, Numbered, Entries,
       NoEntry, factory, stores, asking, watching
<1>11. ASSUME NEW q \in Callers, Disconnect(q) PROVE Numbered'
  BY <1>11 DEF Disconnect, Steps, Then, Free, IInv, TypeOK, Numbered,
       Entries, NoEntry, factory, stores, asking, watching
<1>12. ASSUME NEW q \in Callers, Retry(q) PROVE Numbered'
  BY <1>12 DEF Retry, Steps, Then, Free, IInv, TypeOK, Numbered, Entries,
       NoEntry, factory, stores, asking, watching
<1>13. ASSUME NEW p \in Callers, Ensure(p) PROVE Numbered'
  BY <1>13 DEF Ensure, Goes, IInv, TypeOK, Numbered, Entries, NoEntry,
       factory, stores, asking, watching
<1>14. ASSUME NEW p \in Callers, Stored(p) PROVE Numbered'
  <2>1. \/ kept' = kept
        \/ kept' = [by |-> IF over[p] = "live" THEN "live" ELSE "late", number |-> number[p]]
    BY <1>14 DEF Stored, Keeps
  <2>2. kept'.number = kept.number \/ kept'.number = number[p]
    BY <2>1
  <2>3. kept'.number <= generation
    BY <2>2 DEF IInv, TypeOK, Numbered, Askers
  <2>4. generation' = generation /\ \A r \in Askers : number'[r] = number[r] \/ number'[r] = 0
    BY <1>14 DEF Stored, Returns, IInv, TypeOK, Askers
  <2> QED
    BY <2>3, <2>4 DEF IInv, TypeOK, Numbered
<1>15. ASSUME NEW p \in Callers, Swept(p) PROVE Numbered'
  <2>1. \/ kept' = kept
        \/ kept' = [by |-> IF over[p] = "live" THEN "live" ELSE "late", number |-> number[p]]
    BY <1>15 DEF Swept, Keeps
  <2>2. kept'.number = kept.number \/ kept'.number = number[p]
    BY <2>1
  <2>3. kept'.number <= generation
    BY <2>2 DEF IInv, TypeOK, Numbered, Askers
  <2>4. generation' = generation /\ \A r \in Askers : number'[r] = number[r] \/ number'[r] = 0
    BY <1>15 DEF Swept, Returns, IInv, TypeOK, Askers
  <2> QED
    BY <2>3, <2>4 DEF IInv, TypeOK, Numbered
<1>16. ASSUME NEW p \in Callers, Connected(p) PROVE Numbered'
  BY <1>16 DEF Connected, Returns, Goes, IInv, TypeOK, Numbered, Entries,
       NoEntry, factory, stores, asking, watching
<1>17. ASSUME NEW p \in Callers, Fails(p) PROVE Numbered'
  BY <1>17 DEF Fails, Returns, Goes, LetsGo, IInv, TypeOK, Numbered,
       Entries, NoEntry, factory, stores, asking, watching
<1>18. ASSUME NEW w \in Sets, SetEnds(w) PROVE Numbered'
  BY <1>18 DEF SetEnds, Returns, Goes, IInv, TypeOK, Numbered, Entries,
       NoEntry, factory, stores, asking, watching
<1>19. ASSUME NEW q \in Releasers, Invalidate(q) PROVE Numbered'
  BY <1>19 DEF Invalidate, Steps, Then, Discarded, IInv, TypeOK, Numbered,
       Entries, NoEntry, factory, stores, asking, watching
<1>20. ASSUME NEW q \in Releasers, ForgetAll(q) PROVE Numbered'
  BY <1>20 DEF ForgetAll, Steps, Then, IInv, TypeOK, Numbered, Entries,
       NoEntry, factory, stores, asking, watching
<1>21. ASSUME NEW q \in Releasers, Bump(q) PROVE Numbered'
  BY <1>21 DEF Bump, Steps, Then, IInv, TypeOK, Numbered, Entries, NoEntry,
       factory, stores, asking, watching
<1>22. ASSUME Rewrite PROVE Numbered'
  BY <1>22 DEF Rewrite, IInv, TypeOK, Numbered, Entries, NoEntry, factory,
       stores, asking, watching
<1>23. ASSUME Complete PROVE Numbered'
  BY <1>23 DEF Complete, IInv, TypeOK, Numbered, Entries, NoEntry, factory,
       stores, asking, watching
<1>24. ASSUME Check PROVE Numbered'
  BY <1>24 DEF Check, Moves, IInv, TypeOK, Numbered, Entries, NoEntry,
       factory, stores, asking, watching
<1>25. ASSUME Refresh PROVE Numbered'
  BY <1>25 DEF Refresh, Moves, IInv, TypeOK, Numbered, Entries, NoEntry,
       factory, stores, asking, watching
<1>26. ASSUME Look PROVE Numbered'
  BY <1>26 DEF Look, Moves, IInv, TypeOK, Numbered, Entries, NoEntry,
       factory, stores, asking, watching
<1>27. ASSUME Compare PROVE Numbered'
  BY <1>27 DEF Compare, Moves, IInv, TypeOK, Numbered, Entries, NoEntry,
       factory, stores, asking, watching
<1>28. ASSUME UNCHANGED vars PROVE Numbered'
  BY <1>28 DEF vars, IInv, TypeOK, Numbered, Entries, NoEntry, factory,
       stores, asking, watching
<1> QED
  BY <1>1, <1>2, <1>3, <1>4, <1>5, <1>6, <1>7, <1>8, <1>9, <1>10, <1>11,
       <1>12, <1>13, <1>14, <1>15, <1>16, <1>17, <1>18, <1>19, <1>20, <1>21,
       <1>22, <1>23, <1>24, <1>25, <1>26, <1>27, <1>28 DEF Next, Asks,
       Calls, Answers, Release, Watches, Releasers

(* Every step keeps the discarded clients in hands within a release.         *)
LEMMA HandsArePendingStep == IInv /\ [Next]_vars => HandsArePending'
<1> SUFFICES ASSUME IInv, [Next]_vars PROVE HandsArePending'
  OBVIOUS
<1>1. ASSUME NEW p \in Askers, Lookup(p) PROVE HandsArePending'
  BY <1>1, ClientsAssumption DEF Lookup, Takes, Goes, IInv, TypeOK, Hands,
       HandsArePending, Pending, ToCaches, ToGeneration, Releasers, Stages,
       Releasing, factory, stores, asking, watching
<1>2. ASSUME NEW p \in Askers, Recheck(p) PROVE HandsArePending'
  BY <1>2, ClientsAssumption DEF Recheck, Takes, Goes, IInv, TypeOK, Hands,
       HandsArePending, Pending, ToCaches, ToGeneration, Releasers, Stages,
       Releasing, factory, stores, asking, watching
<1>3. ASSUME NEW p \in Askers, ReadsConfig(p) PROVE HandsArePending'
  BY <1>3, ClientsAssumption DEF ReadsConfig, Goes, IInv, TypeOK, Hands,
       HandsArePending, Pending, ToCaches, ToGeneration, Releasers, Stages,
       Releasing, factory, stores, asking, watching
<1>4. ASSUME NEW p \in Askers, Built(p) PROVE HandsArePending'
  BY <1>4, ClientsAssumption DEF Built, Takes, Goes, IInv, TypeOK, Hands,
       HandsArePending, Pending, ToCaches, ToGeneration, Releasers, Stages,
       Releasing, factory, stores, asking, watching
<1>5. ASSUME NEW p \in Askers, NoClient(p) PROVE HandsArePending'
  <2>1. UNCHANGED <<generation, watch, stage>> /\ p \in Askers
    BY <1>5 DEF NoClient, Askers
  <2>2. \A r \in Askers : over'[r] = "discarded" =>
          /\ over[r] = "discarded"
          /\ job'[r] \in {job[r], "none"} /\ number'[r] \in {number[r], 0}
          /\ job'[r] = "numbered" => number'[r] = number[r]
    BY <1>5, <2>1 DEF NoClient, Returns, Goes, IInv, TypeOK
  <2>3. \A r \in Askers : sweep' = r => sweep = r
    BY <1>5, ClientsAssumption DEF NoClient, LetsGo, Askers
  <2> QED
    BY <2>1, <2>2, <2>3 DEF IInv, TypeOK, HandsArePending, Pending
<1>6. ASSUME NEW p \in Callers, ReadPlain(p) PROVE HandsArePending'
  BY <1>6, ClientsAssumption DEF ReadPlain, Begins, Goes, Free, IInv,
       TypeOK, Hands, HandsArePending, Pending, ToCaches, ToGeneration,
       Releasers, Stages, Releasing, factory, stores, asking, watching
<1>7. ASSUME NEW p \in Callers, ReadNumbered(p) PROVE HandsArePending'
  BY <1>7, ClientsAssumption DEF ReadNumbered, Begins, Goes, Free, IInv,
       TypeOK, Hands, HandsArePending, Pending, ToCaches, ToGeneration,
       Releasers, Stages, Releasing, factory, stores, asking, watching
<1>8. ASSUME NEW p \in Callers, ReadSwept(p) PROVE HandsArePending'
  BY <1>8, ClientsAssumption DEF ReadSwept, Begins, Goes, Free, IInv,
       TypeOK, Hands, HandsArePending, Pending, ToCaches, ToGeneration,
       Releasers, Stages, Releasing, factory, stores, asking, watching
<1>9. ASSUME NEW p \in Callers, List(p) PROVE HandsArePending'
  BY <1>9, ClientsAssumption DEF List, Begins, Goes, Free, IInv, TypeOK,
       Hands, HandsArePending, Pending, ToCaches, ToGeneration, Releasers,
       Stages, Releasing, factory, stores, asking, watching
<1>10. ASSUME NEW p \in Callers, Connect(p) PROVE HandsArePending'
  BY <1>10, ClientsAssumption DEF Connect, Begins, Goes, Free, IInv, TypeOK,
       Hands, HandsArePending, Pending, ToCaches, ToGeneration, Releasers,
       Stages, Releasing, factory, stores, asking, watching
<1>11. ASSUME NEW q \in Callers, Disconnect(q) PROVE HandsArePending'
  BY <1>11, ClientsAssumption DEF Disconnect, Steps, Then, Free, IInv,
       TypeOK, Hands, HandsArePending, Pending, ToCaches, ToGeneration,
       Releasers, Stages, Releasing, factory, stores, asking, watching
<1>12. ASSUME NEW q \in Callers, Retry(q) PROVE HandsArePending'
  BY <1>12, ClientsAssumption DEF Retry, Steps, Then, Free, IInv, TypeOK,
       Hands, HandsArePending, Pending, ToCaches, ToGeneration, Releasers,
       Stages, Releasing, factory, stores, asking, watching
<1>13. ASSUME NEW p \in Callers, Ensure(p) PROVE HandsArePending'
  BY <1>13, ClientsAssumption DEF Ensure, Goes, IInv, TypeOK, Hands,
       HandsArePending, Pending, ToCaches, ToGeneration, Releasers, Stages,
       Releasing, factory, stores, asking, watching
<1>14. ASSUME NEW p \in Callers, Stored(p) PROVE HandsArePending'
  BY <1>14, ClientsAssumption DEF Stored, Keeps, Returns, Goes, IInv,
       TypeOK, Hands, HandsArePending, Pending, ToCaches, ToGeneration,
       Releasers, Stages, Releasing, factory, stores, asking, watching
<1>15. ASSUME NEW p \in Callers, Swept(p) PROVE HandsArePending'
  <2>1. UNCHANGED <<generation, watch, stage>> /\ p \in Askers
    BY <1>15 DEF Swept, Askers
  <2>2. \A r \in Askers : over'[r] = "discarded" =>
          /\ over[r] = "discarded"
          /\ job'[r] \in {job[r], "none"} /\ number'[r] \in {number[r], 0}
          /\ job'[r] = "numbered" => number'[r] = number[r]
    BY <1>15, <2>1 DEF Swept, Returns, Goes, IInv, TypeOK
  <2>3. \A r \in Askers : sweep' = r => sweep = r
    BY <1>15, ClientsAssumption DEF Swept, LetsGo, Askers
  <2> QED
    BY <2>1, <2>2, <2>3 DEF IInv, TypeOK, HandsArePending, Pending
<1>16. ASSUME NEW p \in Callers, Connected(p) PROVE HandsArePending'
  BY <1>16, ClientsAssumption DEF Connected, Returns, Goes, IInv, TypeOK,
       Hands, HandsArePending, Pending, ToCaches, ToGeneration, Releasers,
       Stages, Releasing, factory, stores, asking, watching
<1>17. ASSUME NEW p \in Callers, Fails(p) PROVE HandsArePending'
  <2>1. UNCHANGED <<generation, watch, stage>> /\ p \in Askers
    BY <1>17 DEF Fails, Askers
  <2>2. \A r \in Askers : over'[r] = "discarded" =>
          /\ over[r] = "discarded"
          /\ job'[r] \in {job[r], "none"} /\ number'[r] \in {number[r], 0}
          /\ job'[r] = "numbered" => number'[r] = number[r]
    BY <1>17, <2>1 DEF Fails, Returns, Goes, IInv, TypeOK
  <2>3. \A r \in Askers : sweep' = r => sweep = r
    BY <1>17, ClientsAssumption DEF Fails, LetsGo, Askers
  <2> QED
    BY <2>1, <2>2, <2>3 DEF IInv, TypeOK, HandsArePending, Pending
<1>18. ASSUME NEW w \in Sets, SetEnds(w) PROVE HandsArePending'
  BY <1>18, ClientsAssumption DEF SetEnds, Returns, Goes, IInv, TypeOK,
       Hands, HandsArePending, Pending, ToCaches, ToGeneration, Releasers,
       Stages, Releasing, factory, stores, asking, watching
<1>19. ASSUME NEW q \in Releasers, Invalidate(q) PROVE HandsArePending'
  BY <1>19, ClientsAssumption DEF Invalidate, Steps, Then, Discarded, IInv,
       TypeOK, Hands, HandsArePending, Pending, ToCaches, ToGeneration,
       Releasers, Stages, Releasing, factory, stores, asking, watching
<1>20. ASSUME NEW q \in Releasers, ForgetAll(q) PROVE HandsArePending'
  <2>1. sweep' = None /\ watch' = None /\ UNCHANGED <<generation, over, job, number>>
    BY <1>20 DEF ForgetAll, asking
  <2>2. stage'[q] = "generation"
    BY <1>20 DEF ForgetAll, Steps, Then, IInv, TypeOK
  <2>3. None \notin Askers
    BY ClientsAssumption DEF Askers
  <2> QED
    BY <2>1, <2>2, <2>3 DEF HandsArePending, Pending, ToGeneration
<1>21. ASSUME NEW q \in Releasers, Bump(q) PROVE HandsArePending'
  <2>1. generation' = generation + 1 /\ UNCHANGED <<over, job, number, sweep, watch>>
    BY <1>21 DEF Bump, asking
  <2>2. \A r \in Askers : number'[r] # generation'
    BY <2>1 DEF IInv, TypeOK, Numbered
  <2>3. Pending(ToCaches) => Pending(ToCaches)'
    BY <1>21 DEF Bump, Steps, IInv, TypeOK, Pending, ToCaches
  <2> QED
    BY <2>1, <2>2, <2>3 DEF IInv, HandsArePending
<1>22. ASSUME Rewrite PROVE HandsArePending'
  BY <1>22, ClientsAssumption DEF Rewrite, IInv, TypeOK, Hands,
       HandsArePending, Pending, ToCaches, ToGeneration, Releasers, Stages,
       Releasing, factory, stores, asking, watching
<1>23. ASSUME Complete PROVE HandsArePending'
  BY <1>23, ClientsAssumption DEF Complete, IInv, TypeOK, Hands,
       HandsArePending, Pending, ToCaches, ToGeneration, Releasers, Stages,
       Releasing, factory, stores, asking, watching
<1>24. ASSUME Check PROVE HandsArePending'
  BY <1>24, ClientsAssumption DEF Check, Moves, IInv, TypeOK, Hands,
       HandsArePending, Pending, ToCaches, ToGeneration, Releasers, Stages,
       Releasing, factory, stores, asking, watching
<1>25. ASSUME Refresh PROVE HandsArePending'
  BY <1>25, ClientsAssumption DEF Refresh, Moves, IInv, TypeOK, Hands,
       HandsArePending, Pending, ToCaches, ToGeneration, Releasers, Stages,
       Releasing, factory, stores, asking, watching
<1>26. ASSUME Look PROVE HandsArePending'
  BY <1>26, ClientsAssumption DEF Look, Moves, IInv, TypeOK, Hands,
       HandsArePending, Pending, ToCaches, ToGeneration, Releasers, Stages,
       Releasing, factory, stores, asking, watching
<1>27. ASSUME Compare PROVE HandsArePending'
  BY <1>27, ClientsAssumption DEF Compare, Moves, IInv, TypeOK, Hands,
       HandsArePending, Pending, ToCaches, ToGeneration, Releasers, Stages,
       Releasing, factory, stores, asking, watching
<1>28. ASSUME UNCHANGED vars PROVE HandsArePending'
  BY <1>28 DEF vars, IInv, TypeOK, Hands, HandsArePending, Pending,
       ToCaches, ToGeneration, Releasers, Stages, Releasing, factory,
       stores, asking, watching
<1> QED
  BY <1>1, <1>2, <1>3, <1>4, <1>5, <1>6, <1>7, <1>8, <1>9, <1>10, <1>11,
       <1>12, <1>13, <1>14, <1>15, <1>16, <1>17, <1>18, <1>19, <1>20, <1>21,
       <1>22, <1>23, <1>24, <1>25, <1>26, <1>27, <1>28 DEF Next, Asks,
       Calls, Answers, Release, Watches, Releasers

(* Every step keeps what the stores serve within a release, or current.      *)
LEMMA ServedStep == IInv /\ [Next]_vars => (GuardedIsCurrent /\ OnlyLateIsInherited)'
<1> SUFFICES ASSUME IInv, [Next]_vars PROVE (GuardedIsCurrent /\ OnlyLateIsInherited)'
  OBVIOUS
<1>1. ASSUME NEW p \in Askers, Lookup(p) PROVE (GuardedIsCurrent /\ OnlyLateIsInherited)'
  <2>1. UNCHANGED <<kept, generation, followed, stage, watch>>
    BY <1>1 DEF Lookup, stores
  <2>2. \A r \in Askers : over'[r] = over[r] \/ over'[r] = "live"
    BY <1>1 DEF Lookup, Takes, IInv, TypeOK
  <2>3. watch # None => watch \in Askers
    BY DEF IInv, TypeOK, Askers
  <2> QED
    BY <2>1, <2>2, <2>3 DEF IInv, GuardedIsCurrent, OnlyLateIsInherited,
         Pending, Live
<1>2. ASSUME NEW p \in Askers, Recheck(p) PROVE (GuardedIsCurrent /\ OnlyLateIsInherited)'
  BY <1>2, ClientsAssumption DEF Recheck, Takes, Goes, IInv, TypeOK, Hands,
       Numbered, HandsArePending, GuardedIsCurrent, OnlyLateIsInherited,
       Pending, ToCaches, ToGeneration, Live, Entries, NoEntry, Caches,
       Releasers, Stages, Releasing, factory, stores, asking, watching
<1>3. ASSUME NEW p \in Askers, ReadsConfig(p) PROVE (GuardedIsCurrent /\ OnlyLateIsInherited)'
  BY <1>3, ClientsAssumption DEF ReadsConfig, Goes, IInv, TypeOK, Hands,
       Numbered, HandsArePending, GuardedIsCurrent, OnlyLateIsInherited,
       Pending, ToCaches, ToGeneration, Live, Entries, NoEntry, Caches,
       Releasers, Stages, Releasing, factory, stores, asking, watching
<1>4. ASSUME NEW p \in Askers, Built(p) PROVE (GuardedIsCurrent /\ OnlyLateIsInherited)'
  BY <1>4, ClientsAssumption DEF Built, Takes, Goes, IInv, TypeOK, Hands,
       Numbered, HandsArePending, GuardedIsCurrent, OnlyLateIsInherited,
       Pending, ToCaches, ToGeneration, Live, Entries, NoEntry, Caches,
       Releasers, Stages, Releasing, factory, stores, asking, watching
<1>5. ASSUME NEW p \in Askers, NoClient(p) PROVE (GuardedIsCurrent /\ OnlyLateIsInherited)'
  BY <1>5, ClientsAssumption DEF NoClient, Returns, Goes, LetsGo, IInv,
       TypeOK, Hands, Numbered, HandsArePending, GuardedIsCurrent,
       OnlyLateIsInherited, Pending, ToCaches, ToGeneration, Live, Entries,
       NoEntry, Caches, Releasers, Stages, Releasing, factory, stores,
       asking, watching
<1>6. ASSUME NEW p \in Callers, ReadPlain(p) PROVE (GuardedIsCurrent /\ OnlyLateIsInherited)'
  BY <1>6, ClientsAssumption DEF ReadPlain, Begins, Goes, Free, IInv,
       TypeOK, Hands, Numbered, HandsArePending, GuardedIsCurrent,
       OnlyLateIsInherited, Pending, ToCaches, ToGeneration, Live, Entries,
       NoEntry, Caches, Releasers, Stages, Releasing, factory, stores,
       asking, watching
<1>7. ASSUME NEW p \in Callers, ReadNumbered(p) PROVE (GuardedIsCurrent /\ OnlyLateIsInherited)'
  BY <1>7, ClientsAssumption DEF ReadNumbered, Begins, Goes, Free, IInv,
       TypeOK, Hands, Numbered, HandsArePending, GuardedIsCurrent,
       OnlyLateIsInherited, Pending, ToCaches, ToGeneration, Live, Entries,
       NoEntry, Caches, Releasers, Stages, Releasing, factory, stores,
       asking, watching
<1>8. ASSUME NEW p \in Callers, ReadSwept(p) PROVE (GuardedIsCurrent /\ OnlyLateIsInherited)'
  BY <1>8, ClientsAssumption DEF ReadSwept, Begins, Goes, Free, IInv,
       TypeOK, Hands, Numbered, HandsArePending, GuardedIsCurrent,
       OnlyLateIsInherited, Pending, ToCaches, ToGeneration, Live, Entries,
       NoEntry, Caches, Releasers, Stages, Releasing, factory, stores,
       asking, watching
<1>9. ASSUME NEW p \in Callers, List(p) PROVE (GuardedIsCurrent /\ OnlyLateIsInherited)'
  BY <1>9, ClientsAssumption DEF List, Begins, Goes, Free, IInv, TypeOK,
       Hands, Numbered, HandsArePending, GuardedIsCurrent,
       OnlyLateIsInherited, Pending, ToCaches, ToGeneration, Live, Entries,
       NoEntry, Caches, Releasers, Stages, Releasing, factory, stores,
       asking, watching
<1>10. ASSUME NEW p \in Callers, Connect(p) PROVE (GuardedIsCurrent /\ OnlyLateIsInherited)'
  BY <1>10, ClientsAssumption DEF Connect, Begins, Goes, Free, IInv, TypeOK,
       Hands, Numbered, HandsArePending, GuardedIsCurrent,
       OnlyLateIsInherited, Pending, ToCaches, ToGeneration, Live, Entries,
       NoEntry, Caches, Releasers, Stages, Releasing, factory, stores,
       asking, watching
<1>11. ASSUME NEW q \in Callers, Disconnect(q) PROVE (GuardedIsCurrent /\ OnlyLateIsInherited)'
  BY <1>11, ClientsAssumption DEF Disconnect, Steps, Then, Free, IInv,
       TypeOK, Hands, Numbered, HandsArePending, GuardedIsCurrent,
       OnlyLateIsInherited, Pending, ToCaches, ToGeneration, Live, Entries,
       NoEntry, Caches, Releasers, Stages, Releasing, factory, stores,
       asking, watching
<1>12. ASSUME NEW q \in Callers, Retry(q) PROVE (GuardedIsCurrent /\ OnlyLateIsInherited)'
  BY <1>12, ClientsAssumption DEF Retry, Steps, Then, Free, IInv, TypeOK,
       Hands, Numbered, HandsArePending, GuardedIsCurrent,
       OnlyLateIsInherited, Pending, ToCaches, ToGeneration, Live, Entries,
       NoEntry, Caches, Releasers, Stages, Releasing, factory, stores,
       asking, watching
<1>13. ASSUME NEW p \in Callers, Ensure(p) PROVE (GuardedIsCurrent /\ OnlyLateIsInherited)'
  <2>1. UNCHANGED <<kept, generation, followed, stage, over>>
    BY <1>13 DEF Ensure
  <2>2. watch' # watch => watch' \in Sets /\ pc[watch'] = "idle"
    BY <1>13 DEF Ensure
  <2>3. watch' # watch => Live(over'[watch'])
    BY <2>1, <2>2 DEF IInv, Hands, TypeOK, Askers, Live
  <2> QED
    BY <2>1, <2>3 DEF IInv, GuardedIsCurrent, OnlyLateIsInherited, Pending
<1>14. ASSUME NEW p \in Callers, Stored(p) PROVE (GuardedIsCurrent /\ OnlyLateIsInherited)'
  <2>1. UNCHANGED <<generation, followed, watch, stage>> /\ p \in Askers
    BY <1>14 DEF Stored, Askers
  <2>2. over[p] \in {"live", "discarded"}
    BY <1>14, <2>1 DEF Stored, IInv, TypeOK, Hands
  <2>3. watch # None => over'[watch] = over[watch] \/ over'[watch] = "nobody"
    BY <1>14 DEF Stored, Returns, IInv, TypeOK, Askers
  <2>4. \/ kept' = kept
        \/ over[p] = "live" /\ kept'.by = "live"
        \/ /\ kept'.by = "late" /\ over[p] = "discarded"
           /\ kept'.number = number[p] /\ followed = job[p] /\ followed # "swept"
    BY <1>14, <2>1, <2>2 DEF Stored, Keeps, IInv, Hands, Caches
  <2>5. CASE kept' = kept
    BY <2>1, <2>3, <2>5 DEF IInv, GuardedIsCurrent, OnlyLateIsInherited,
         Pending, Live
  <2>6. CASE over[p] = "live" /\ kept'.by = "live"
    BY <2>1, <2>3, <2>6 DEF IInv, GuardedIsCurrent, OnlyLateIsInherited,
         Pending, Live
  <2>7. CASE /\ kept'.by = "late" /\ over[p] = "discarded"
             /\ kept'.number = number[p] /\ followed = job[p] /\ followed # "swept"
    BY <2>1, <2>3, <2>7 DEF IInv, HandsArePending, GuardedIsCurrent,
         OnlyLateIsInherited, Pending, Live
  <2> QED
    BY <2>4, <2>5, <2>6, <2>7
<1>15. ASSUME NEW p \in Callers, Swept(p) PROVE (GuardedIsCurrent /\ OnlyLateIsInherited)'
  <2>1. UNCHANGED <<generation, followed, watch, stage>> /\ p \in Askers
    BY <1>15 DEF Swept, Askers
  <2>2. over[p] \in {"live", "discarded"}
    BY <1>15, <2>1 DEF Swept, IInv, TypeOK, Hands
  <2>3. watch # None => over'[watch] = over[watch] \/ over'[watch] = "nobody"
    BY <1>15 DEF Swept, Returns, IInv, TypeOK, Askers
  <2>4. \/ kept' = kept
        \/ over[p] = "live" /\ kept'.by = "live"
        \/ /\ kept'.by = "late" /\ over[p] = "discarded"
           /\ kept'.number = number[p] /\ followed = "swept" /\ sweep = p
    BY <1>15, <2>1, <2>2 DEF Swept, Keeps, IInv, Hands, Caches
  <2>5. CASE kept' = kept
    BY <2>1, <2>3, <2>5 DEF IInv, GuardedIsCurrent, OnlyLateIsInherited,
         Pending, Live
  <2>6. CASE over[p] = "live" /\ kept'.by = "live"
    BY <2>1, <2>3, <2>6 DEF IInv, GuardedIsCurrent, OnlyLateIsInherited,
         Pending, Live
  <2>7. CASE /\ kept'.by = "late" /\ over[p] = "discarded"
             /\ kept'.number = number[p] /\ followed = "swept" /\ sweep = p
    BY <2>1, <2>3, <2>7 DEF IInv, HandsArePending, GuardedIsCurrent,
         OnlyLateIsInherited, Pending, Live
  <2> QED
    BY <2>4, <2>5, <2>6, <2>7
<1>16. ASSUME NEW p \in Callers, Connected(p) PROVE (GuardedIsCurrent /\ OnlyLateIsInherited)'
  BY <1>16, ClientsAssumption DEF Connected, Returns, Goes, IInv, TypeOK,
       Hands, Numbered, HandsArePending, GuardedIsCurrent,
       OnlyLateIsInherited, Pending, ToCaches, ToGeneration, Live, Entries,
       NoEntry, Caches, Releasers, Stages, Releasing, factory, stores,
       asking, watching
<1>17. ASSUME NEW p \in Callers, Fails(p) PROVE (GuardedIsCurrent /\ OnlyLateIsInherited)'
  BY <1>17, ClientsAssumption DEF Fails, Returns, Goes, LetsGo, IInv,
       TypeOK, Hands, Numbered, HandsArePending, GuardedIsCurrent,
       OnlyLateIsInherited, Pending, ToCaches, ToGeneration, Live, Entries,
       NoEntry, Caches, Releasers, Stages, Releasing, factory, stores,
       asking, watching
<1>18. ASSUME NEW w \in Sets, SetEnds(w) PROVE (GuardedIsCurrent /\ OnlyLateIsInherited)'
  BY <1>18, ClientsAssumption DEF SetEnds, Returns, Goes, IInv, TypeOK,
       Hands, Numbered, HandsArePending, GuardedIsCurrent,
       OnlyLateIsInherited, Pending, ToCaches, ToGeneration, Live, Entries,
       NoEntry, Caches, Releasers, Stages, Releasing, factory, stores,
       asking, watching
<1>19. ASSUME NEW q \in Releasers, Invalidate(q) PROVE (GuardedIsCurrent /\ OnlyLateIsInherited)'
  BY <1>19, ClientsAssumption DEF Invalidate, Steps, Then, Discarded, IInv,
       TypeOK, Hands, Numbered, HandsArePending, GuardedIsCurrent,
       OnlyLateIsInherited, Pending, ToCaches, ToGeneration, Live, Entries,
       NoEntry, Caches, Releasers, Stages, Releasing, factory, stores,
       asking, watching
<1>20. ASSUME NEW q \in Releasers, ForgetAll(q) PROVE (GuardedIsCurrent /\ OnlyLateIsInherited)'
  BY <1>20, ClientsAssumption DEF ForgetAll, Steps, Then, IInv, TypeOK,
       Hands, Numbered, HandsArePending, GuardedIsCurrent,
       OnlyLateIsInherited, Pending, ToCaches, ToGeneration, Live, Entries,
       NoEntry, Caches, Releasers, Stages, Releasing, factory, stores,
       asking, watching
<1>21. ASSUME NEW q \in Releasers, Bump(q) PROVE (GuardedIsCurrent /\ OnlyLateIsInherited)'
  BY <1>21, ClientsAssumption DEF Bump, Steps, Then, IInv, TypeOK, Hands,
       Numbered, HandsArePending, GuardedIsCurrent, OnlyLateIsInherited,
       Pending, ToCaches, ToGeneration, Live, Entries, NoEntry, Caches,
       Releasers, Stages, Releasing, factory, stores, asking, watching
<1>22. ASSUME Rewrite PROVE (GuardedIsCurrent /\ OnlyLateIsInherited)'
  BY <1>22, ClientsAssumption DEF Rewrite, IInv, TypeOK, Hands, Numbered,
       HandsArePending, GuardedIsCurrent, OnlyLateIsInherited, Pending,
       ToCaches, ToGeneration, Live, Entries, NoEntry, Caches, Releasers,
       Stages, Releasing, factory, stores, asking, watching
<1>23. ASSUME Complete PROVE (GuardedIsCurrent /\ OnlyLateIsInherited)'
  BY <1>23, ClientsAssumption DEF Complete, IInv, TypeOK, Hands, Numbered,
       HandsArePending, GuardedIsCurrent, OnlyLateIsInherited, Pending,
       ToCaches, ToGeneration, Live, Entries, NoEntry, Caches, Releasers,
       Stages, Releasing, factory, stores, asking, watching
<1>24. ASSUME Check PROVE (GuardedIsCurrent /\ OnlyLateIsInherited)'
  BY <1>24, ClientsAssumption DEF Check, Moves, IInv, TypeOK, Hands,
       Numbered, HandsArePending, GuardedIsCurrent, OnlyLateIsInherited,
       Pending, ToCaches, ToGeneration, Live, Entries, NoEntry, Caches,
       Releasers, Stages, Releasing, factory, stores, asking, watching
<1>25. ASSUME Refresh PROVE (GuardedIsCurrent /\ OnlyLateIsInherited)'
  BY <1>25, ClientsAssumption DEF Refresh, Moves, IInv, TypeOK, Hands,
       Numbered, HandsArePending, GuardedIsCurrent, OnlyLateIsInherited,
       Pending, ToCaches, ToGeneration, Live, Entries, NoEntry, Caches,
       Releasers, Stages, Releasing, factory, stores, asking, watching
<1>26. ASSUME Look PROVE (GuardedIsCurrent /\ OnlyLateIsInherited)'
  BY <1>26, ClientsAssumption DEF Look, Moves, IInv, TypeOK, Hands,
       Numbered, HandsArePending, GuardedIsCurrent, OnlyLateIsInherited,
       Pending, ToCaches, ToGeneration, Live, Entries, NoEntry, Caches,
       Releasers, Stages, Releasing, factory, stores, asking, watching
<1>27. ASSUME Compare PROVE (GuardedIsCurrent /\ OnlyLateIsInherited)'
  BY <1>27, ClientsAssumption DEF Compare, Moves, IInv, TypeOK, Hands,
       Numbered, HandsArePending, GuardedIsCurrent, OnlyLateIsInherited,
       Pending, ToCaches, ToGeneration, Live, Entries, NoEntry, Caches,
       Releasers, Stages, Releasing, factory, stores, asking, watching
<1>28. ASSUME UNCHANGED vars PROVE (GuardedIsCurrent /\ OnlyLateIsInherited)'
  BY <1>28 DEF vars, IInv, TypeOK, Hands, Numbered, HandsArePending,
       GuardedIsCurrent, OnlyLateIsInherited, Pending, ToCaches,
       ToGeneration, Live, Entries, NoEntry, Caches, Releasers, Stages,
       Releasing, factory, stores, asking, watching
<1> QED
  BY <1>1, <1>2, <1>3, <1>4, <1>5, <1>6, <1>7, <1>8, <1>9, <1>10, <1>11,
       <1>12, <1>13, <1>14, <1>15, <1>16, <1>17, <1>18, <1>19, <1>20, <1>21,
       <1>22, <1>23, <1>24, <1>25, <1>26, <1>27, <1>28 DEF Next, Asks,
       Calls, Answers, Release, Watches, Releasers

(* What the steps do to the file, the client and the watcher. All but a few  *)
(* leave them alone, and build nothing; an invalidation drops the client.    *)
Quiet ==
    /\ UNCHANGED <<file, open, last, looked, witnessed>>
    /\ stage'[Watcher] = stage[Watcher]
    /\ client' \in {client, None}
    /\ \A p \in Askers : /\ pc'[p] = "building" => pc[p] = "building" /\ config'[p] = config[p]
                         /\ config'[p] \in {config[p], 0}
Steered ==
    \/ \E p \in Askers : ReadsConfig(p) \/ Built(p)
    \/ \E p \in Callers : Connected(p) \/ Disconnect(p)
    \/ Rewrite \/ Complete \/ Watches

LEMMA QuietSteps == IInv /\ [Next]_vars => Quiet \/ Steered
<1> SUFFICES ASSUME IInv, [Next]_vars PROVE Quiet \/ Steered
  OBVIOUS
<1> USE ClientsAssumption DEF IInv, TypeOK, factory, stores, asking, watching
<1>1. ASSUME NEW p \in Askers, Lookup(p) \/ Recheck(p) \/ NoClient(p) PROVE Quiet
  BY <1>1 DEF Lookup, Recheck, NoClient, Takes, Goes, Returns, Quiet
<1>2. ASSUME NEW p \in Callers, Calls(p), ~Disconnect(p) PROVE Quiet
  <2>1. CASE Retry(p)
    BY <2>1 DEF Retry, Steps, Releasers, Quiet
  <2>2. CASE ~Retry(p)
    BY <1>2, <2>2 DEF Calls, ReadPlain, ReadNumbered, ReadSwept, List, Connect, Begins, Goes,
         Askers, Quiet
  <2> QED
    BY <2>1, <2>2
<1>3. ASSUME NEW p \in Callers, Ensure(p) PROVE Quiet
  BY <1>3 DEF Ensure, Goes, Askers, Quiet
<1>4. ASSUME NEW p \in Callers, Answers(p), ~Connected(p) PROVE Quiet
  BY <1>4 DEF Answers, Stored, Swept, Fails, Returns, Goes, Askers, Quiet
<1>5. ASSUME NEW w \in Sets, SetEnds(w) PROVE Quiet
  BY <1>5 DEF SetEnds, Returns, Goes, Askers, Quiet
<1>6. ASSUME NEW q \in Callers, Release(q) PROVE Quiet
  BY <1>6 DEF Release, Invalidate, ForgetAll, Bump, Steps, Releasers, Quiet
<1>7. ASSUME UNCHANGED vars PROVE Quiet
  BY <1>7 DEF vars, Quiet
<1> QED
  BY <1>1, <1>2, <1>3, <1>4, <1>5, <1>6, <1>7 DEF Next, Asks, Steered, Calls, Answers

(* A step of the watcher, by the stage it leaves.                            *)
LEMMA WatcherSteps ==
  ASSUME IInv, Watches
  PROVE  /\ UNCHANGED <<file, open, witnessed, pc, config>>
         /\ \/ Check /\ stage[Watcher] = "none" /\ stage'[Watcher] = "refresh"
            \/ Refresh /\ stage[Watcher] = "refresh"
            \/ Look /\ stage[Watcher] = "look"
            \/ Compare /\ stage[Watcher] = "compare"
            \/ /\ stage[Watcher] = "client" /\ stage'[Watcher] = "caches"
               /\ client' = None /\ UNCHANGED watching
            \/ /\ stage[Watcher] = "caches" /\ stage'[Watcher] = "generation"
               /\ UNCHANGED <<client, watching>>
            \/ /\ stage[Watcher] = "generation" /\ stage'[Watcher] = "none"
               /\ UNCHANGED <<client, watching>>
<1> USE DEF IInv, TypeOK, Releasers, factory, stores, asking, Then
<1>1. CASE Check \/ Refresh \/ Look \/ Compare
  BY <1>1 DEF Check, Refresh, Look, Compare, Moves
<1>2. CASE Release(Watcher)
  BY <1>2 DEF Release, Invalidate, ForgetAll, Bump, Steps
<1> QED
  BY <1>1, <1>2 DEF Watches

(* Every step keeps the order of the file and what was made of it.           *)
LEMMA OfThePastStep == IInv /\ [Next]_vars => OfThePast'
<1> SUFFICES ASSUME IInv, [Next]_vars PROVE OfThePast'
  OBVIOUS
<1> USE ClientsAssumption DEF IInv, TypeOK, OfThePast, Files, Credentials
<1>1. CASE Quiet
  BY <1>1 DEF Quiet
<1>2. ASSUME NEW p \in Askers, ReadsConfig(p) \/ Built(p) PROVE OfThePast'
  BY <1>2 DEF ReadsConfig, Built, Takes, Goes, factory, watching
<1>3. ASSUME NEW p \in Callers, Connected(p) \/ Disconnect(p) PROVE OfThePast'
  BY <1>3 DEF Connected, Disconnect, Returns, Goes, factory, asking, watching, Askers
<1>4. CASE Rewrite \/ Complete
  BY <1>4 DEF Rewrite, Complete, factory, asking, watching
<1>5. CASE Watches
  BY <1>5, WatcherSteps DEF Check, Refresh, Look, Compare, Moves, factory, watching
<1> QED
  BY <1>1, <1>2, <1>3, <1>4, <1>5, QuietSteps DEF Steered

(* Every step keeps a rewrite ahead of the watcher.                          *)
LEMMA RewriteIsAheadStep == IInv /\ [Next]_vars => RewriteIsAhead'
<1> SUFFICES ASSUME IInv, [Next]_vars PROVE RewriteIsAhead'
  OBVIOUS
<1> USE ClientsAssumption DEF IInv, TypeOK, RewriteIsAhead, Stale
<1>1. CASE Quiet
  BY <1>1 DEF Quiet
<1>2. ASSUME NEW p \in Askers, ReadsConfig(p) PROVE RewriteIsAhead'
  BY <1>2 DEF ReadsConfig, Goes, watching
<1>3. ASSUME NEW p \in Askers, Built(p) PROVE RewriteIsAhead'
  BY <1>3 DEF Built, Takes, Goes, watching
<1>4. ASSUME NEW p \in Callers, Connected(p) PROVE RewriteIsAhead'
  BY <1>4 DEF Connected, Returns, Goes, factory, watching, Askers
<1>5. ASSUME NEW p \in Callers, Disconnect(p) PROVE RewriteIsAhead'
  BY <1>5 DEF Disconnect
<1>6. CASE Rewrite \/ Complete
  <2>1. file' # last'
    BY <1>6 DEF Rewrite, Complete, watching, OfThePast, Files, Credentials
  <2> QED
    BY <1>6, <2>1 DEF Rewrite, Complete
<1>7. CASE Check
  BY <1>7 DEF Check, Moves, Releasers, factory, asking
<1>8. CASE Refresh
  BY <1>8 DEF Refresh, Moves, Releasers, factory, asking, watching
<1>9. CASE Look
  BY <1>9 DEF Look, Moves, Askers, Releasers, factory, asking, Locked
<1>10. CASE Compare
  BY <1>10 DEF Compare, Moves, Releasers, factory, asking
<1>11. CASE Release(Watcher)
  BY <1>11, WatcherSteps DEF Watches, Release, Invalidate, ForgetAll, Bump, Steps, factory,
       asking, watching
<1> QED
  BY <1>1, <1>2, <1>3, <1>4, <1>5, <1>6, <1>7, <1>8, <1>9, <1>10, <1>11, QuietSteps
     DEF Steered, Watches

(* The invariant holds in every reachable state.                             *)
LEMMA Invariance == Spec => []IInv
<1>1. Init => IInv
  <2>1. SUFFICES ASSUME Init PROVE IInv
    OBVIOUS
  <2>2. TypeOK
    <3>1. file \in Files /\ last = file
      BY <2>1, ClientsAssumption DEF Init, Files, Credentials
    <3>2. open \in BOOLEAN /\ witnessed \in BOOLEAN
      BY <2>1 DEF Init
    <3>3. /\ client = None /\ looked = None /\ lock = None /\ generation \in Nat
          /\ kept = NoEntry /\ sweep = None /\ watch = None /\ releases \in Nat
          /\ followed \in Caches \cup {"watch"}
      BY <2>1 DEF Init
    <3>4. /\ pc \in [Askers -> {"idle", "ensure", "lookup", "build", "building", "asked", "watching"}]
          /\ job \in [Askers -> Jobs] /\ stage \in [Releasers -> Stages]
          /\ over \in [Askers -> {"nobody", "live", "discarded"}]
      BY <2>1 DEF Init, Jobs, Stages
    <3>5. config \in [Askers -> Credentials] /\ number \in [Askers -> Nat]
      BY <2>1, ClientsAssumption DEF Init, Credentials
    <3> QED
      BY <3>1, <3>2, <3>3, <3>4, <3>5 DEF TypeOK
  <2>3. Locked /\ Hands /\ Numbered
    BY <2>1, ClientsAssumption DEF Init, Locked, Hands, Numbered, NoEntry, Caches
  <2>4. HandsArePending /\ GuardedIsCurrent /\ OnlyLateIsInherited
    BY <2>1 DEF Init, HandsArePending, GuardedIsCurrent,
         OnlyLateIsInherited, NoEntry, Live
  <2>5. OfThePast /\ RewriteIsAhead
    BY <2>1, ClientsAssumption DEF Init, OfThePast, RewriteIsAhead
  <2> QED
    BY <2>2, <2>3, <2>4, <2>5 DEF IInv
<1>2. IInv /\ [Next]_vars => IInv'
  BY TypeStep, LockedStep, HandsStep, NumberedStep, HandsArePendingStep,
       ServedStep, OfThePastStep, RewriteIsAheadStep DEF IInv
<1> QED
  BY <1>1, <1>2, PTL DEF Spec

(* Every variable keeps its type.                                            *)
THEOREM TypeCorrect == Spec => []TypeOK
<1>1. IInv => TypeOK
  BY DEF IInv
<1> QED
  BY <1>1, Invariance, PTL

(* Whatever calls race a release, and however many releases race each other, *)
(* the caches that guard their writes and the watch serve nothing a client   *)
(* answered that a finished release discarded.                               *)
THEOREM GuardsHold == Spec => []GuardedIsCurrent
<1>1. IInv => GuardedIsCurrent
  BY DEF IInv
<1> QED
  BY <1>1, Invariance, PTL

(* A release takes every entry away that was there before it: what a cache   *)
(* has of a discarded client afterwards was written late.                    *)
THEOREM ReleaseForgets == Spec => []OnlyLateIsInherited
<1>1. IInv => OnlyLateIsInherited
  BY DEF IInv
<1> QED
  BY <1>1, Invariance, PTL

(* However many first calls race, one of them builds, and its client stays   *)
(* until a release drops it.                                                 *)
THEOREM OneClient == Spec => NoClientReplaced
<1>1. IInv /\ [Next]_vars => [client' # None => client' = client \/ client = None]_client
  <2> SUFFICES ASSUME IInv, [Next]_vars, client' # client, client' # None PROVE client = None
    OBVIOUS
  <2>1. \A p \in Askers : Built(p) => client = None
    BY DEF Built, IInv, Locked
  <2>2. \A q \in Releasers : Invalidate(q) => client' = None
    BY DEF Invalidate
  <2>3. (\E p \in Askers : Built(p)) \/ (\E q \in Releasers : Invalidate(q))
    <3>1. \A p \in Askers : Asks(p) => Built(p)
      BY DEF Asks, Lookup, Recheck, ReadsConfig, NoClient, factory
    <3>2. \A p \in Callers : ~Calls(p) /\ ~Ensure(p) /\ ~Answers(p)
      BY DEF Calls, ReadPlain, ReadNumbered, ReadSwept, List, Connect,
           Disconnect, Retry,
         Ensure, Answers, Stored, Swept, Connected, Fails, factory
    <3>3. \A w \in Sets : ~SetEnds(w)
      BY DEF SetEnds, factory
    <3>4. \A q \in Releasers : Release(q) => Invalidate(q)
      BY DEF Release, ForgetAll, Bump, factory
    <3>5. ~Rewrite /\ ~Complete /\ ~Check /\ ~Refresh /\ ~Look /\ ~Compare
      BY DEF Rewrite, Complete, Check, Refresh, Look, Compare, Moves, factory
    <3>6. ~UNCHANGED vars
      BY DEF vars, factory
    <3> QED
      BY <3>1, <3>2, <3>3, <3>4, <3>5, <3>6 DEF Next, Watches, Releasers
  <2> QED
    BY <2>1, <2>2, <2>3
<1> QED
  BY <1>1, Invariance, PTL DEF Spec, NoClientReplaced

-----------------------------------------------------------------------------
(* Liveness. ENABLED is beyond the provers, so what fairness promises the    *)
(* watcher is taken at the states where it has a step to take; that it can   *)
(* take it there is NobodyBlocked.                                           *)
Fair == FairSpec /\ []NobodyBlocked

LEMMA Scheduled == Fair => <>[]~WatchDue \/ []<><<Watches>>_vars
<1>1. NobodyBlocked => (WatchDue => ENABLED <<Watches>>_vars)
  BY DEF NobodyBlocked
<1> QED
  BY <1>1, PTL DEF Fair, FairSpec, Fairness

(* A stale client of a connected cluster, whose rewrite was witnessed.       *)
Overlooked == open /\ witnessed /\ Stale

(* While it is there nobody builds, so that the watcher has its way: each of *)
(* its steps leads to the next, and only its own steps move it. A client it  *)
(* looked at when the file was older is found changed by every later file.   *)
LEMMA OverlookedStep ==
  ASSUME IInv, Overlooked, [Next]_vars
  PROVE  \/ (~open \/ ~Stale)'
         \/ /\ Overlooked' /\ stage'[Watcher] = stage[Watcher] /\ ~Watches
            /\ looked # file.credentials => (looked # file.credentials)'
         \/ /\ Overlooked' /\ Watches
            /\ \/ stage[Watcher] = "caches" /\ stage'[Watcher] = "generation"
               \/ stage[Watcher] = "generation" /\ stage'[Watcher] = "none"
               \/ stage[Watcher] = "none" /\ stage'[Watcher] = "refresh"
               \/ stage[Watcher] = "refresh" /\ stage'[Watcher] = "look"
               \/ /\ stage[Watcher] = "look" /\ stage'[Watcher] = "compare"
                  /\ (looked # file.credentials)'
               \/ /\ stage[Watcher] = "compare" /\ looked = file.credentials
                  /\ stage'[Watcher] = "none"
               \/ /\ stage[Watcher] = "compare" /\ looked # file.credentials
                  /\ stage'[Watcher] = "client"
<1> USE ClientsAssumption DEF IInv, TypeOK, Overlooked, Stale
<1>1. CASE Watches
  <2>1. CASE Check \/ Refresh \/ Look \/ Compare
    BY <1>1, <2>1, WatcherSteps DEF Check, Refresh, Look, Compare, Moves, Releasers, factory
  <2>2. CASE ~(Check \/ Refresh \/ Look \/ Compare)
    BY <1>1, <2>2, WatcherSteps
  <2> QED
    BY <2>1, <2>2
<1>2. CASE ~Watches /\ Quiet
  BY <1>2 DEF Quiet
<1>3. ASSUME NEW p \in Askers, ReadsConfig(p) \/ Built(p), ~Watches PROVE FALSE
  BY <1>3 DEF ReadsConfig, Built, Locked
<1>4. ASSUME NEW p \in Callers, Connected(p), ~Watches
      PROVE  /\ Overlooked' /\ stage'[Watcher] = stage[Watcher]
             /\ looked' = looked /\ file' = file
  BY <1>4 DEF Connected, factory, watching
<1>5. ASSUME NEW p \in Callers, Disconnect(p) PROVE ~open'
  BY <1>5 DEF Disconnect
<1>6. CASE ~Watches /\ (Rewrite \/ Complete)
  BY <1>6 DEF Rewrite, Complete, OfThePast, Files, Credentials, factory, watching
<1> QED
  BY <1>1, <1>2, <1>3, <1>4, <1>5, <1>6, QuietSteps DEF Steered

(* Whatever is built, asked, released and rewritten meanwhile, the watcher   *)
(* drops a client that was built from credentials rewritten while its        *)
(* cluster was connected (kubeconfigwatch.go, check; adapter.go, release).   *)
THEOREM RewritesAreNoticed == Fair => RewriteReaches
<1> DEFINE Bad == Overlooked
           Noticed == ~open \/ ~Stale
           At(s) == Overlooked /\ stage[Watcher] = s
           Forgetting == At("caches")
           Numbering == At("generation")
           Idle == At("none")
           Refreshing == At("refresh")
           Looking == At("look")
           Missing == At("compare") /\ looked = file.credentials
           Finding == At("compare") /\ looked # file.credentials
           Dropping == At("client")
           Moving == Watches
<1>1. IInv /\ Bad => \/ Forgetting \/ Numbering \/ Idle \/ Refreshing \/ Looking \/ Missing
                     \/ Finding \/ Dropping
  BY DEF IInv, TypeOK, Stages, Releasing, Releasers
<1>2. IInv /\ (\/ Forgetting \/ Numbering \/ Idle \/ Refreshing \/ Looking \/ Missing
               \/ Finding \/ Dropping) => WatchDue
  <2>1. IInv /\ Bad => lock = None
    BY DEF Overlooked, Stale, IInv, TypeOK, Locked
  <2>2. IInv /\ Idle => file # last
    BY DEF IInv, RewriteIsAhead, Overlooked
  <2> QED
    BY <2>1, <2>2 DEF WatchDue
<1>3. IInv /\ Forgetting /\ [Next]_vars => Forgetting' \/ Numbering' \/ Noticed'
  BY OverlookedStep
<1>4. IInv /\ Numbering /\ [Next]_vars => Numbering' \/ Idle' \/ Noticed'
  BY OverlookedStep
<1>5. IInv /\ Missing /\ [Next]_vars => Missing' \/ Finding' \/ Idle' \/ Noticed'
  BY OverlookedStep
<1>6. IInv /\ Idle /\ [Next]_vars => Idle' \/ Refreshing' \/ Noticed'
  BY OverlookedStep
<1>7. IInv /\ Refreshing /\ [Next]_vars => Refreshing' \/ Looking' \/ Noticed'
  BY OverlookedStep
<1>8. IInv /\ Looking /\ [Next]_vars => Looking' \/ Finding' \/ Noticed'
  BY OverlookedStep
<1>9. IInv /\ Finding /\ [Next]_vars => Finding' \/ Dropping' \/ Noticed'
  BY OverlookedStep
<1>10. IInv /\ Dropping /\ [Next]_vars => Dropping' \/ Noticed'
  BY OverlookedStep
<1>11. /\ IInv /\ Forgetting /\ [Next]_vars /\ <<Moving>>_vars => ~Forgetting'
       /\ IInv /\ Numbering /\ [Next]_vars /\ <<Moving>>_vars => ~Numbering'
       /\ IInv /\ Missing /\ [Next]_vars /\ <<Moving>>_vars => ~Missing'
       /\ IInv /\ Idle /\ [Next]_vars /\ <<Moving>>_vars => ~Idle'
       /\ IInv /\ Refreshing /\ [Next]_vars /\ <<Moving>>_vars => ~Refreshing'
       /\ IInv /\ Looking /\ [Next]_vars /\ <<Moving>>_vars => ~Looking'
       /\ IInv /\ Finding /\ [Next]_vars /\ <<Moving>>_vars => ~Finding'
       /\ IInv /\ Dropping /\ [Next]_vars /\ <<Moving>>_vars => ~Dropping'
  BY OverlookedStep DEF Overlooked
<1>12. Fair => <>[]~WatchDue \/ []<><<Moving>>_vars
  BY Scheduled
<1> HIDE DEF Bad, Noticed, Forgetting, Numbering, Idle, Refreshing, Looking, Missing, Finding,
             Dropping, Moving
<1>13. Fair => (Bad ~> Noticed)
  BY Invariance, <1>1, <1>2, <1>3, <1>4, <1>5, <1>6, <1>7, <1>8, <1>9, <1>10, <1>11, <1>12,
     PTL DEF Fair, FairSpec, Spec
<1> QED
  BY <1>13 DEF Bad, Noticed, Overlooked, RewriteReaches
=============================================================================
