--------------------------- MODULE ReadCacheProofs ---------------------------
(* The theorems of ReadCache, for any number of readers, keys and forgets:   *)
(* its invariant, and that every read is one FreshReads allows.              *)
EXTENDS ReadCache, TLAPS

LEMMA NoEntryIsNone ==
    /\ NoEntry \notin Entries
    /\ NoEntry.how = "none" /\ NoEntry.born = 0 /\ NoEntry.lead = None
    /\ \A e \in Entries \cup {NoEntry} :
         (e.how = "none" <=> e = NoEntry) /\ (e.how # "none" <=> e \in Entries)
    /\ \A e \in Entries : /\ e.born \in Epochs /\ e.how \in {"running", "ok", "failed"}
                          /\ e.lead \in Readers \cup {None}
  BY DEF NoEntry, Entries

LEMMA IInvInit == Init => IInv
  <1> SUFFICES ASSUME Init PROVE IInv
    OBVIOUS
  <1> USE ReadCacheAssumption DEF Init
  <1>1. TypeOK
    BY DEF TypeOK, Keys, Epochs, Outcomes
  <1>2. CachedIsCurrent /\ NoFailureIsKept
    BY DEF CachedIsCurrent, NoFailureIsKept, NoEntry
  <1>3. Attached /\ Led /\ Coalesced
    BY DEF Attached, Led, Waiting, Coalesced, InFlight, NoEntry
  <1> QED
    BY <1>1, <1>2, <1>3 DEF IInv

(* Steps that touch neither the cache nor what a leader holds.               *)
LEMMA ReaderStep ==
  ASSUME IInv, NEW r \in Readers,
         (\E k \in Keys : Begin(r, k)) \/ Borrow(r) \/ Join(r) \/ Waits(r) \/ Cancel(r)
  PROVE  IInv'
  <1> USE ReadCacheAssumption, NoEntryIsNone DEF IInv
  <1>1. ASSUME NEW k \in Keys, Begin(r, k) PROVE IInv'
    <2> USE <1>1 DEF Begin, Moves
    <2>1. TypeOK'
      BY DEF TypeOK, Outcomes
    <2>2. CachedIsCurrent' /\ NoFailureIsKept'
      BY DEF CachedIsCurrent, NoFailureIsKept
    <2>3. Attached'
      BY DEF Attached, TypeOK, Epochs
    <2>4. Led' /\ Coalesced'
      BY DEF Led, Waiting, Coalesced, TypeOK
    <2> QED
      BY <2>1, <2>2, <2>3, <2>4
  <1>2. CASE Borrow(r) \/ Join(r)
    <2>1. PICK k \in Keys, to \in {"borrowing", "wait", "look"} :
            /\ pc[r] \in {"borrow", "look"}
            /\ pc' = [pc EXCEPT ![r] = to]
            /\ to = "look" => UNCHANGED on
            /\ to # "look" => Usable(k) /\ on' = [on EXCEPT ![r] = cache[k]]
            /\ UNCHANGED <<cache, aged, key, cancelled, epoch, since, outcome, got>>
      BY <1>2 DEF Borrow, Join, Moves, asked, told, TypeOK, Keys
    <2> USE <2>1
    <2>1a. to # "look" => cache[k].how # "none"
      BY DEF Usable, InFlight
    <2>2. TypeOK'
      BY DEF TypeOK
    <2>3. CachedIsCurrent' /\ NoFailureIsKept'
      BY DEF CachedIsCurrent, NoFailureIsKept
    <2>4. Attached'
      BY <2>1a DEF Attached, CachedIsCurrent, TypeOK, Epochs
    <2>5. Led' /\ Coalesced'
      BY DEF Led, Waiting, Coalesced, TypeOK
    <2> QED
      BY <2>2, <2>3, <2>4, <2>5
  <1>3. CASE Waits(r)
    <2>1. PICK to \in {"idle", "look"}, how \in Outcomes :
            /\ pc[r] \in {"wait", "borrowing"}
            /\ pc' = [pc EXCEPT ![r] = to]
            /\ on' = [on EXCEPT ![r] = NoEntry]
            /\ outcome' = [outcome EXCEPT ![r] = how]
            /\ to = "idle" <=> how # "reading"
            /\ got' = IF how = "ok" THEN [got EXCEPT ![r] = on[r].born] ELSE got
            /\ UNCHANGED <<cache, aged, key, cancelled, epoch, since>>
      <3>1. CASE BorrowMissed(r)
        BY <3>1 DEF BorrowMissed, Moves, asked, told, Attached, TypeOK, Outcomes
      <3>2. CASE GiveUp(r) \/ Borrowed(r)
        BY <3>2 DEF GiveUp, Borrowed, Leaves, Returned, Moves, asked, Outcomes
      <3>3. CASE Waited(r)
        <4>1. on[r].how \in {"ok", "failed"}
          BY <3>3 DEF Waited, InFlight, Attached, TypeOK
        <4> QED
          BY <3>3, <4>1 DEF Waited, Leaves, Returned, Moves, asked, Outcomes
      <3> QED
        BY <1>3, <3>1, <3>2, <3>3 DEF Waits
    <2>2. on[r].born \in Epochs
      BY <2>1 DEF Attached, TypeOK
    <2> USE <2>1
    <2>3. TypeOK'
      BY <2>2 DEF TypeOK
    <2>4. CachedIsCurrent' /\ NoFailureIsKept'
      BY DEF CachedIsCurrent, NoFailureIsKept
    <2>5. Attached'
      BY DEF Attached, TypeOK
    <2>6. Led' /\ Coalesced'
      BY DEF Led, Waiting, Coalesced, TypeOK
    <2> QED
      BY <2>3, <2>4, <2>5, <2>6
  <1>4. CASE Cancel(r)
    BY <1>4 DEF Cancel, asked, told, TypeOK, CachedIsCurrent, Attached, Led, Waiting, Coalesced,
                NoFailureIsKept, InFlight
  <1> QED
    BY <1>1, <1>2, <1>3, <1>4

(* A new leader finds no fetch of its key in flight in this epoch.           *)
LEMMA LeadStep == ASSUME IInv, NEW r \in Readers, Lead(r) PROVE IInv'
  <1> USE ReadCacheAssumption, NoEntryIsNone DEF IInv
  <1> DEFINE entry == [lead |-> r, born |-> epoch, how |-> "running"]
  <1>1. /\ entry \in Entries
        /\ entry.lead = r /\ entry.born = epoch /\ entry.how = "running"
    BY DEF Entries, TypeOK
  <1>2. /\ pc[r] = "look" /\ ~Usable(key[r]) /\ key[r] \in Keys
        /\ pc' = [pc EXCEPT ![r] = "lead"]
        /\ on' = [on EXCEPT ![r] = entry]
        /\ cache' = [cache EXCEPT ![key[r]] = entry]
        /\ aged' = aged \ {key[r]}
        /\ UNCHANGED <<key, cancelled, epoch, since, outcome, got>>
    BY DEF Lead, Fetches, Moves, asked, told, TypeOK
  <1> HIDE DEF entry
  <1> USE <1>1, <1>2
  <1>3. TypeOK'
    BY DEF TypeOK
  <1>4. CachedIsCurrent' /\ NoFailureIsKept'
    BY DEF CachedIsCurrent, NoFailureIsKept, TypeOK
  <1>5. Attached'
    BY DEF Attached, TypeOK, Epochs
  <1>6. \A q \in Readers : pc[q] = "lead" /\ key[q] = key[r] => on[q].born # epoch
    BY DEF Led, Waiting, Usable, InFlight
  <1>7. Led'
    BY <1>6 DEF Led, Waiting, InFlight, TypeOK
  <1>8. Coalesced'
    BY <1>6 DEF Coalesced, TypeOK
  <1> QED
    BY <1>3, <1>4, <1>5, <1>7, <1>8

(* A fetch that ends turns every copy of its entry into the finished one.    *)
LEMMA FinishStep == ASSUME IInv, NEW r \in Readers, Finish(r) PROVE IInv'
  <1> USE ReadCacheAssumption, NoEntryIsNone DEF IInv
  <1>1. PICK how \in {"ok", "failed"} :
          /\ pc[r] = "lead"
          /\ Settles(r, how)
          /\ InCache(r, IF how = "ok" THEN Ended(r, how) ELSE NoEntry)
          /\ Returned(r, how, on[r])
          /\ UNCHANGED aged
    BY DEF Finish
  <1> DEFINE done == Ended(r, how)
  <1>2. /\ done \in Entries
        /\ done.born = on[r].born /\ done.how = how /\ done.lead = None
    <2>1. on[r] \in Entries
      BY <1>1 DEF Attached, TypeOK
    <2> QED
      BY <2>1 DEF Ended, Entries
  <1>3. /\ on' = [q \in Readers |->
                    IF q = r THEN NoEntry ELSE IF on[q] = on[r] THEN done ELSE on[q]]
        /\ cache' = [k \in Keys |->
                       IF cache[k] = on[r] THEN IF how = "ok" THEN done ELSE NoEntry
                       ELSE cache[k]]
        /\ pc' = [pc EXCEPT ![r] = "idle"]
        /\ outcome' = [outcome EXCEPT ![r] = how]
        /\ got' = IF how = "ok" THEN [got EXCEPT ![r] = on[r].born] ELSE got
        /\ UNCHANGED <<aged, key, cancelled, epoch, since>>
    BY <1>1 DEF Settles, InCache, Returned, Moves, asked
  <1>4. /\ on[r].born \in Epochs /\ on[r].lead = r /\ on[r].how = "running"
        /\ \A q \in Readers : pc[q] = "lead" /\ q # r => on[q] # on[r]
    BY <1>1 DEF Attached, Led, Waiting, InFlight, TypeOK
  <1> HIDE DEF done
  <1>5. TypeOK'
    BY <1>1, <1>2, <1>3, <1>4 DEF TypeOK, Outcomes
  <1>6. CachedIsCurrent' /\ NoFailureIsKept'
    BY <1>1, <1>2, <1>3, <1>4 DEF CachedIsCurrent, NoFailureIsKept, TypeOK
  <1>7. Attached'
    BY <1>1, <1>2, <1>3, <1>4 DEF Attached, TypeOK
  <1>8. Led'
    BY <1>1, <1>2, <1>3, <1>4 DEF Led, Waiting, InFlight, TypeOK
  <1>9. Coalesced'
    BY <1>1, <1>2, <1>3, <1>4 DEF Coalesced, TypeOK
  <1> QED
    BY <1>5, <1>6, <1>7, <1>8, <1>9

LEMMA TimeStep == ASSUME IInv, Forget \/ \E k \in Keys : Age(k) PROVE IInv'
  <1> USE ReadCacheAssumption, NoEntryIsNone DEF IInv
  <1>1. CASE Forget
    <2> USE <1>1 DEF Forget, told
    <2>1. TypeOK'
      BY DEF TypeOK, Epochs
    <2>2. CachedIsCurrent' /\ NoFailureIsKept' /\ Led' /\ Coalesced'
      BY DEF CachedIsCurrent, NoFailureIsKept, Led, Waiting, InFlight, Coalesced, Attached,
             TypeOK, Epochs
    <2>3. Attached'
      BY DEF Attached, TypeOK, Epochs
    <2> QED
      BY <2>1, <2>2, <2>3
  <1>2. ASSUME NEW k \in Keys, Age(k) PROVE IInv'
    BY <1>2 DEF Age, asked, told, TypeOK, CachedIsCurrent, Attached, Led, Waiting, Coalesced,
                NoFailureIsKept, InFlight
  <1> QED
    BY <1>1, <1>2

LEMMA IInvStep == IInv /\ [Next]_vars => IInv'
  <1> SUFFICES ASSUME IInv, [Next]_vars PROVE IInv'
    OBVIOUS
  <1>1. CASE Next
    BY <1>1, ReaderStep, LeadStep, FinishStep, TimeStep DEF Next, Reads
  <1>2. CASE UNCHANGED vars
    BY <1>2 DEF vars, asked, told, IInv, TypeOK, CachedIsCurrent, Attached, Led, Waiting,
                Coalesced, NoFailureIsKept, InFlight
  <1> QED
    BY <1>1, <1>2
-----------------------------------------------------------------------------
(* The invariant holds of every reachable state.                             *)
THEOREM Invariance == Spec => []IInv
  BY IInvInit, IInvStep, PTL DEF Spec

(* Every variable keeps its type.                                            *)
THEOREM TypeCorrect == Spec => []TypeOK
  <1>1. IInv => TypeOK
    BY DEF IInv
  <1> QED
    BY <1>1, Invariance, PTL

(* Identical reads in flight share one fetch, unless a forget came between.  *)
THEOREM SharedFetch == Spec => []Coalesced
  <1>1. IInv => Coalesced
    BY DEF IInv
  <1> QED
    BY <1>1, Invariance, PTL

(* finish leaves no failure in the cache.                                    *)
THEOREM FailuresDropped == Spec => []NoFailureIsKept
  <1>1. IInv => NoFailureIsKept
    BY DEF IInv
  <1> QED
    BY <1>1, Invariance, PTL

(* A return that is not a cancellation, and a cancellation of its own reader,*)
(* are the only ways out of a read.                                          *)
LEMMA CancelStep == IInv /\ OwnCancellationOnly /\ [Next]_vars => OwnCancellationOnly'
  <1> SUFFICES ASSUME IInv, OwnCancellationOnly, [Next]_vars PROVE OwnCancellationOnly'
    OBVIOUS
  <1> USE DEF OwnCancellationOnly
  <1>0. outcome \in [Readers -> Outcomes] /\ \A r \in Readers : pc[r] = "idle" <=> outcome[r] # "reading"
    BY DEF IInv, TypeOK, Attached
  <1>1. ASSUME NEW r \in Readers, NEW k \in Keys, Begin(r, k) PROVE OwnCancellationOnly'
    BY <1>0, <1>1 DEF Begin
  <1>2. ASSUME NEW r \in Readers, NEW how \in Outcomes, NEW e, Returned(r, how, e),
               how = "gaveUp" => r \in cancelled
        PROVE  OwnCancellationOnly'
    BY <1>0, <1>2 DEF Returned
  <1>3. ASSUME NEW r \in Readers, Waits(r) \/ Finish(r), ~BorrowMissed(r) PROVE OwnCancellationOnly'
    <2>1. CASE Waited(r)
      <3>1. on[r].how \in {"ok", "failed"}
        BY <2>1, NoEntryIsNone DEF Waited, InFlight, IInv, Attached, TypeOK
      <3> QED
        BY <1>2, <2>1, <3>1 DEF Waited, Leaves, Outcomes
    <2>2. CASE GiveUp(r) \/ Borrowed(r)
      BY <1>2, <2>2 DEF GiveUp, Borrowed, Leaves, Outcomes
    <2>3. CASE Finish(r)
      BY <1>2, <2>3 DEF Finish, Outcomes
    <2> QED
      BY <1>3, <2>1, <2>2, <2>3 DEF Waits
  <1>4. ASSUME NEW r \in Readers, Borrow(r) \/ Join(r) \/ Lead(r) \/ Cancel(r) \/ BorrowMissed(r)
        PROVE  OwnCancellationOnly'
    BY <1>4 DEF Borrow, Join, Lead, Fetches, Cancel, BorrowMissed, told
  <1>5. ASSUME Forget \/ (\E k \in Keys : Age(k)) \/ UNCHANGED vars PROVE OwnCancellationOnly'
    BY <1>5 DEF Forget, Age, told, vars
  <1> QED
    BY <1>1, <1>3, <1>4, <1>5 DEF Next, Reads, Waits

(* No reader gives up for another's sake.                                    *)
THEOREM OwnCancellation == Spec => []OwnCancellationOnly
  <1>1. Init => OwnCancellationOnly
    BY DEF Init, OwnCancellationOnly
  <1> QED
    BY <1>1, CancelStep, Invariance, PTL DEF Spec

-----------------------------------------------------------------------------
(* The refinement: a return is an answer, or none, of the abstract reads; a  *)
(* begin and a forget are themselves; every other step stutters.             *)
LEMMA AbstractInit == Init => Abstract!Init
  BY DEF Init, Abstract!Init

LEMMA AbstractReturn ==
  ASSUME IInv, NEW r \in Readers, pc[r] \in {"wait", "borrowing", "lead"},
         NEW how \in {"ok", "failed", "gaveUp"}, Returned(r, how, on[r]),
         how = "gaveUp" => r \in cancelled
  PROVE  Abstract!Answer(r) \/ Abstract!NoAnswer(r)
  <1>1. /\ outcome[r] = "reading"
        /\ since[r] <= on[r].born /\ on[r].born <= epoch
    BY DEF IInv, Attached
  <1>2. on[r].born \in since[r] .. epoch
    BY <1>1, NoEntryIsNone, ReadCacheAssumption DEF IInv, TypeOK, Attached, Epochs
  <1>3. CASE how = "ok"
    BY <1>1, <1>2, <1>3 DEF Returned, asked, Abstract!Answer
  <1>4. CASE how # "ok"
    BY <1>1, <1>4 DEF Returned, asked, Abstract!NoAnswer
  <1> QED
    BY <1>3, <1>4

LEMMA AbstractStep == IInv /\ [Next]_vars => [Abstract!Next]_(Abstract!vars)
  <1> SUFFICES ASSUME IInv, [Next]_vars
               PROVE  Abstract!Next \/ UNCHANGED <<epoch, since, outcome, got, cancelled>>
    BY DEF Abstract!vars
  <1>1. ASSUME NEW r \in Readers, NEW k \in Keys, Begin(r, k) PROVE Abstract!Begin(r)
    BY <1>1 DEF Begin, Abstract!Begin, IInv, Attached
  <1>2. ASSUME NEW r \in Readers, Borrow(r) \/ Join(r) \/ Lead(r) \/ BorrowMissed(r)
        PROVE  UNCHANGED <<epoch, since, outcome, got, cancelled>>
    BY <1>2 DEF Borrow, Join, Lead, Fetches, BorrowMissed, asked, told
  <1>7. ASSUME NEW r \in Readers, Cancel(r) PROVE Abstract!Cancel(r)
    BY <1>7 DEF Cancel, asked, told, IInv, Attached, Abstract!Cancel
  <1>3. ASSUME NEW r \in Readers, Waited(r) \/ GiveUp(r) \/ Borrowed(r) \/ Finish(r)
        PROVE  Abstract!Answer(r) \/ Abstract!NoAnswer(r)
    <2>1. CASE Waited(r)
      <3>1. on[r].how \in {"ok", "failed"}
        BY <2>1, NoEntryIsNone DEF Waited, InFlight, IInv, Attached, TypeOK
      <3> QED
        BY <2>1, <3>1, AbstractReturn DEF Waited, Leaves
    <2>2. CASE GiveUp(r) \/ Borrowed(r)
      BY <2>2, AbstractReturn DEF GiveUp, Borrowed, Leaves
    <2>3. CASE Finish(r)
      BY <2>3, AbstractReturn DEF Finish
    <2> QED
      BY <1>3, <2>1, <2>2, <2>3
  <1>4. CASE Forget
    BY <1>4 DEF Forget, told, Abstract!Next, Abstract!Forget
  <1>5. ASSUME NEW k \in Keys, Age(k) PROVE UNCHANGED <<epoch, since, outcome, got, cancelled>>
    BY <1>5 DEF Age, asked, told
  <1>6. CASE UNCHANGED vars
    BY <1>6 DEF vars, asked, told
  <1> QED
    BY <1>1, <1>2, <1>3, <1>4, <1>5, <1>6, <1>7 DEF Next, Reads, Waits, Abstract!Next

(* The cache implements FreshReads: no read is answered by a fetch that      *)
(* began before the last forget that precedes the read.                      *)
THEOREM Refinement == Spec => ReadsAreFresh
  <1>1. Init => Abstract!Init
    BY AbstractInit
  <1>2. IInv /\ [Next]_vars => [Abstract!Next]_(Abstract!vars)
    BY AbstractStep
  <1> QED
    BY <1>1, <1>2, Invariance, PTL DEF Spec, ReadsAreFresh, Abstract!Spec
-----------------------------------------------------------------------------
(* Liveness. tlapm cannot expand ENABLED, so Fair is FairSpec with the guard *)
(* of a reader's steps written where weak fairness has ENABLED of them.      *)
Due(r) ==
    \/ pc[r] \in {"borrow", "look"}
    \/ Waiting(r) /\ (r \in cancelled \/ ~InFlight(on[r]))
ReaderRuns(r) == []<>~Due(r) \/ []<><<Reads(r)>>_vars
Fair == Spec /\ \A r \in Readers : ReaderRuns(r)

(* Who has a reason to leave keeps it until it leaves.                       *)
LEMMA ReasonStays ==
  ASSUME IInv, [Next]_vars, NEW r \in Readers, Waiting(r), r \in cancelled \/ ~InFlight(on[r])
  PROVE  \/ ~Waiting(r)'
         \/ Waiting(r)' /\ (r \in cancelled \/ ~InFlight(on[r]))' /\ ~Reads(r)
  <1> USE NoEntryIsNone DEF Waiting, InFlight
  <1>1. ASSUME NEW q \in Readers, NEW k \in Keys, Begin(q, k)
        PROVE  q # r /\ pc'[r] = pc[r] /\ on' = on /\ (r \in cancelled => r \in cancelled')
    BY <1>1 DEF Begin, Moves, IInv, TypeOK
  <1>2. ASSUME NEW q \in Readers, q # r, Reads(q)
        PROVE  pc'[r] = pc[r] /\ on'[r] = on[r] /\ cancelled' = cancelled
    BY <1>2 DEF Reads, Borrow, Join, Lead, Fetches, Waits, Waited, GiveUp, Borrowed, BorrowMissed,
                Leaves, Returned, Moves, asked, told, IInv, TypeOK
  <1>3. ASSUME Reads(r) PROVE ~Waiting(r)'
    BY <1>3 DEF Reads, Borrow, Join, Lead, Waits, Waited, GiveUp, Borrowed, BorrowMissed, Leaves,
                Returned, Moves, IInv, TypeOK
  <1>4. ASSUME NEW q \in Readers, Finish(q)
        PROVE  /\ q # r /\ pc'[r] = pc[r] /\ cancelled' = cancelled
               /\ ~InFlight(on[r]) => on'[r] = on[r]
    BY <1>4 DEF Finish, Settles, Returned, Moves, asked, IInv, TypeOK, Led
  <1>5. ASSUME NEW q \in Readers, Cancel(q)
        PROVE  pc' = pc /\ on' = on /\ (r \in cancelled => r \in cancelled')
    BY <1>5 DEF Cancel
  <1>6. ASSUME (\E k \in Keys : Age(k)) \/ Forget \/ UNCHANGED vars
        PROVE  pc' = pc /\ on' = on /\ cancelled' = cancelled
    BY <1>6 DEF Age, Forget, vars
  <1>7. CASE Reads(r)
    BY <1>3, <1>7
  <1>8. CASE ~Reads(r)
    BY <1>1, <1>2, <1>4, <1>5, <1>6, <1>8 DEF Next
  <1> QED
    BY <1>7, <1>8

(* A caller that gave up returns although the fetch it joined hangs, and one *)
(* whose fetch ended, by a panic too, is not left parked (readcache.go,      *)
(* wait, finish).                                                            *)
THEOREM NobodyIsPinned == Fair => WaitersLeave
  <1> SUFFICES ASSUME NEW r \in Readers PROVE Fair => (Abandoned(r) ~> ~Waiting(r))
    BY DEF WaitersLeave
  <1> DEFINE Parked == Waiting(r) /\ (r \in cancelled \/ ~InFlight(on[r]))
             Left == ~Waiting(r)
             Goes == Reads(r)
  <1>1. IInv /\ Abandoned(r) => Parked
    BY DEF IInv, Led, Abandoned
  <1>2. Parked => Due(r)
    BY DEF Due
  <1>3. IInv /\ Parked /\ [Next]_vars => Parked' \/ Left'
    BY ReasonStays
  <1>4. IInv /\ Parked /\ [Next]_vars /\ <<Goes>>_vars => Left'
    BY ReasonStays
  <1>5. Fair => []<>~Due(r) \/ []<><<Goes>>_vars
    BY DEF Fair, ReaderRuns
  <1> HIDE DEF Parked, Left, Goes
  <1>6. Fair => (Abandoned(r) ~> Left)
    BY Invariance, <1>1, <1>2, <1>3, <1>4, <1>5, PTL DEF Fair, Spec
  <1> QED
    BY <1>6 DEF Left
=============================================================================
