------------------------------ MODULE ReadCache ------------------------------
(* The coalescing read cache of src/app/adapters/k8s/readcache.go and the    *)
(* reads made through it, for the keys of one cluster: cachedRead, borrow,   *)
(* finish, forget. The narrow reads first try to borrow the broad one, as    *)
(* ListPods and PodMetrics do.                                               *)
(*                                                                          *)
(* A data value is the epoch its fetch began in. An entry in flight is told  *)
(* from the others by the reader that leads it; whoever holds it sees it end.*)
(* A fetch that panics fails (guardedFetch), so that is one way to fail.     *)
(* finish stamps the entry and closes its channel in one step here: nobody   *)
(* sees the moment between.                                                  *)
EXTENDS Integers

CONSTANTS
    Readers, MaxEpoch,
    Narrow,     \* the keys whose readers may borrow
    Broad,      \* the key they borrow from
    None

ASSUME ReadCacheAssumption ==
    /\ MaxEpoch \in Nat
    /\ None \notin Readers

Keys == Narrow \cup {Broad}
Epochs == 0 .. MaxEpoch

(* readEntry: in flight under its leader, then finished.                     *)
Entries == [lead : Readers \cup {None}, born : Epochs, how : {"running", "ok", "failed"}]
NoEntry == [lead |-> None, born |-> 0, how |-> "none"]

VARIABLES
    cache,      \* entries: the entry of each key, or NoEntry
    aged,       \* the keys whose entry finished readTTL ago
    pc,         \* where each reader is
    key,        \* the key it reads
    on,         \* the entry it fetches or waits for, or NoEntry
    epoch, since, outcome, got, cancelled   \* as in FreshReads

asked == <<epoch, since>>
told == <<outcome, got>>
vars == <<cache, aged, pc, key, on, cancelled, asked, told>>

Outcomes == {"none", "reading", "ok", "failed", "gaveUp"}

TypeOK ==
    /\ cache \in [Keys -> Entries \cup {NoEntry}]
    /\ aged \in SUBSET Keys
    /\ pc \in [Readers -> {"idle", "borrow", "borrowing", "look", "wait", "lead"}]
    /\ key \in [Readers -> Keys]
    /\ on \in [Readers -> Entries \cup {NoEntry}]
    /\ cancelled \in SUBSET Readers
    /\ epoch \in Epochs
    /\ since \in [Readers -> Epochs]
    /\ outcome \in [Readers -> Outcomes]
    /\ got \in [Readers -> Epochs]

Init ==
    /\ cache = [k \in Keys |-> NoEntry]
    /\ aged = {}
    /\ pc = [r \in Readers |-> "idle"]
    /\ key = [r \in Readers |-> Broad]
    /\ on = [r \in Readers |-> NoEntry]
    /\ cancelled = {}
    /\ epoch = 0
    /\ since = [r \in Readers |-> 0]
    /\ outcome = [r \in Readers |-> "none"]
    /\ got = [r \in Readers |-> 0]

InFlight(e) == e.how = "running"

(* In flight, or finished recently enough to reuse.                          *)
Usable(k) == InFlight(cache[k]) \/ (cache[k].how # "none" /\ k \notin aged)

-----------------------------------------------------------------------------
(* The steps of a read.                                                      *)

Moves(r, to) == pc' = [pc EXCEPT ![r] = to]

Begin(r, k) ==
    /\ pc[r] = "idle"
    /\ Moves(r, IF k = Broad THEN "look" ELSE "borrow")
    /\ key' = [key EXCEPT ![r] = k]
    /\ cancelled' = cancelled \ {r}
    /\ outcome' = [outcome EXCEPT ![r] = "reading"]
    /\ since' = [since EXCEPT ![r] = epoch]
    /\ UNCHANGED <<cache, aged, on, epoch, got>>

(* borrow never starts anything: with nothing usable the caller reads.       *)
Borrow(r) ==
    /\ pc[r] = "borrow"
    /\ IF Usable(Broad)
       THEN Moves(r, "borrowing") /\ on' = [on EXCEPT ![r] = cache[Broad]]
       ELSE Moves(r, "look") /\ UNCHANGED on
    /\ UNCHANGED <<cache, aged, key, cancelled, asked, told>>

Join(r) ==
    /\ pc[r] = "look" /\ Usable(key[r])
    /\ Moves(r, "wait")
    /\ on' = [on EXCEPT ![r] = cache[key[r]]]
    /\ UNCHANGED <<cache, aged, key, cancelled, asked, told>>

Fetches(r) ==
    LET entry == [lead |-> r, born |-> epoch, how |-> "running"]
    IN  /\ Moves(r, "lead")
        /\ on' = [on EXCEPT ![r] = entry]
        /\ cache' = [cache EXCEPT ![key[r]] = entry]
        /\ aged' = aged \ {key[r]}
        /\ UNCHANGED <<key, cancelled, asked, told>>

(* Mutant: joins nobody.                                                     *)
LeadAlways(r) == pc[r] = "look" /\ Fetches(r)

(* Nothing usable under the key: this reader fetches for whoever comes.      *)
Lead(r) == pc[r] = "look" /\ ~Usable(key[r]) /\ Fetches(r)

(* The read of r returns, with what entry e came to or without it.           *)
Returned(r, how, e) ==
    /\ Moves(r, "idle")
    /\ outcome' = [outcome EXCEPT ![r] = how]
    /\ got' = IF how = "ok" THEN [got EXCEPT ![r] = e.born] ELSE got
    /\ UNCHANGED <<key, cancelled, asked>>

(* Whoever waits for the entry r leads sees how it ended.                    *)
Ended(r, how) == [lead |-> None, born |-> on[r].born, how |-> how]
Settles(r, how) ==
    on' = [q \in Readers |->
             IF q = r THEN NoEntry
             ELSE IF on[q] = on[r] THEN Ended(r, how) ELSE on[q]]
InCache(r, entry) ==
    cache' = [k \in Keys |-> IF cache[k] = on[r] THEN entry ELSE cache[k]]

(* Mutant: the fetch runs on its leader's context.                           *)
FinishTied(r) ==
    /\ pc[r] = "lead"
    /\ \E how \in {"ok", "failed"} \cup IF r \in cancelled THEN {"gaveUp"} ELSE {} :
         /\ Settles(r, how)
         /\ InCache(r, IF how = "ok" THEN Ended(r, how) ELSE NoEntry)
         /\ Returned(r, how, on[r])
    /\ UNCHANGED aged

(* Mutant: a panic ends the fetch and leaves its entry in flight.            *)
FinishUnguarded(r) ==
    /\ pc[r] = "lead"
    /\ \/ /\ Settles(r, "ok") /\ InCache(r, Ended(r, "ok"))
          /\ Returned(r, "ok", on[r])
       \/ /\ on' = [on EXCEPT ![r] = NoEntry] /\ UNCHANGED cache
          /\ Returned(r, "failed", on[r])
    /\ UNCHANGED aged

(* The fetch ends, on a context no reader's cancellation reaches; finish     *)
(* drops a failure, if its key still has it.                                 *)
Finish(r) ==
    /\ pc[r] = "lead"
    /\ \E how \in {"ok", "failed"} :
         /\ Settles(r, how)
         /\ InCache(r, IF how = "ok" THEN Ended(r, how) ELSE NoEntry)
         /\ Returned(r, how, on[r])
    /\ UNCHANGED aged

Leaves(r, how) ==
    /\ Returned(r, how, on[r])
    /\ on' = [on EXCEPT ![r] = NoEntry]
    /\ UNCHANGED <<cache, aged>>

(* The entry's channel is closed.                                            *)
Waited(r) == pc[r] = "wait" /\ ~InFlight(on[r]) /\ Leaves(r, on[r].how)

(* Mutant: waits for the fetch whatever becomes of the caller.               *)
GiveUpLate(r) ==
    pc[r] = "wait" /\ r \in cancelled /\ ~InFlight(on[r]) /\ Leaves(r, "gaveUp")

GiveUp(r) == pc[r] = "wait" /\ r \in cancelled /\ Leaves(r, "gaveUp")

Borrowed(r) == pc[r] = "borrowing" /\ on[r].how = "ok" /\ Leaves(r, "ok")

(* A failure of the broad read, or the caller's cancellation, is a miss.     *)
BorrowMissed(r) ==
    /\ pc[r] = "borrowing" /\ (on[r].how = "failed" \/ r \in cancelled)
    /\ Moves(r, "look")
    /\ on' = [on EXCEPT ![r] = NoEntry]
    /\ UNCHANGED <<cache, aged, key, cancelled, asked, told>>

Cancel(r) ==
    /\ pc[r] # "idle" /\ r \notin cancelled
    /\ cancelled' = cancelled \cup {r}
    /\ UNCHANGED <<cache, aged, pc, key, on, asked, told>>

-----------------------------------------------------------------------------
(* readTTL passes.                                                           *)
Age(k) ==
    /\ k \notin aged /\ cache[k].how = "ok"
    /\ aged' = aged \cup {k}
    /\ UNCHANGED <<cache, pc, key, on, cancelled, asked, told>>

(* Mutant: keeps what is still in flight.                                    *)
ForgetFinished ==
    /\ epoch < MaxEpoch
    /\ epoch' = epoch + 1
    /\ cache' = [k \in Keys |-> IF InFlight(cache[k]) THEN cache[k] ELSE NoEntry]
    /\ aged' = {}
    /\ UNCHANGED <<pc, key, on, cancelled, since, told>>

(* forget, after a write or on a disconnect: drops every entry, the ones in  *)
(* flight included; their readers keep them.                                 *)
Forget ==
    /\ epoch < MaxEpoch
    /\ epoch' = epoch + 1
    /\ cache' = [k \in Keys |-> NoEntry]
    /\ aged' = {}
    /\ UNCHANGED <<pc, key, on, cancelled, since, told>>

Waits(r) == Waited(r) \/ GiveUp(r) \/ Borrowed(r) \/ BorrowMissed(r)
Reads(r) == Borrow(r) \/ Join(r) \/ Lead(r) \/ Waits(r)

Next ==
    \/ \E r \in Readers : (\E k \in Keys : Begin(r, k)) \/ Reads(r) \/ Finish(r) \/ Cancel(r)
    \/ \E k \in Keys : Age(k)
    \/ Forget

(* Readers run. That a fetch ends is not assumed: an API server may hang.    *)
Spec == Init /\ [][Next]_vars
Runs(r) == WF_vars(Reads(r))
FairSpec == Spec /\ \A r \in Readers : Runs(r)

-----------------------------------------------------------------------------
(* Every read through the cache is a read FreshReads allows: "deleting a pod *)
(* and then being handed the list that still contains it, because it was     *)
(* read a second ago" cannot happen, not by joining a fetch under way either, *)
(* and no read is given up for the caller whose fetch it joined.             *)
Abstract == INSTANCE FreshReads WITH
    Readers <- Readers, MaxEpoch <- MaxEpoch, epoch <- epoch,
    since <- since, outcome <- outcome, got <- got, cancelled <- cancelled
ReadsAreFresh == Abstract!Spec

(* "Identical reads in flight share one answer": two fetches of one key run  *)
(* side by side only when a forget came between their beginnings.            *)
Coalesced ==
    \A r, q \in Readers :
      r # q /\ pc[r] = "lead" /\ pc[q] = "lead" /\ key[r] = key[q]
        => on[r].born # on[q].born

(* A read is given up for its own caller's sake only, never for the sake of  *)
(* the caller whose fetch it joined.                                         *)
OwnCancellationOnly ==
    \A r \in Readers : outcome[r] = "gaveUp" => r \in cancelled

(* A fetch that hangs pins nobody who gives up, and one that ended, by a     *)
(* panic too, nobody at all.                                                 *)
Waiting(r) == pc[r] \in {"borrowing", "wait"}
Abandoned(r) ==
    /\ Waiting(r)
    /\ r \in cancelled \/ ~ \E q \in Readers : pc[q] = "lead" /\ on[q] = on[r]
WaitersLeave == \A r \in Readers : Abandoned(r) ~> ~Waiting(r)

-----------------------------------------------------------------------------
(* The inductive invariant: a forget leaves nothing of its past in the cache,*)
(* so what a read finds there was fetched in the epoch of the look, or later *)
(* than the read began.                                                      *)
CachedIsCurrent == \A k \in Keys : cache[k].how # "none" => cache[k].born = epoch

Attached ==
    \A r \in Readers :
      /\ since[r] <= epoch
      /\ pc[r] \in {"borrowing", "wait", "lead"} =>
           /\ on[r].how # "none"
           /\ since[r] <= on[r].born /\ on[r].born <= epoch
      /\ pc[r] \in {"idle", "borrow", "look"} => on[r] = NoEntry
      /\ pc[r] = "idle" <=> outcome[r] # "reading"

(* An entry in flight is its leader's; the one of this epoch is in the cache.*)
(* One without a leader, in the cache or waited for, would never end.        *)
Led ==
    /\ \A r \in Readers : pc[r] = "lead" =>
         /\ on[r].lead = r /\ InFlight(on[r])
         /\ on[r].born = epoch => cache[key[r]] = on[r]
    /\ \A k \in Keys : InFlight(cache[k]) =>
         \E r \in Readers : pc[r] = "lead" /\ on[r] = cache[k] /\ key[r] = k
    /\ \A r \in Readers : Waiting(r) /\ InFlight(on[r]) =>
         \E q \in Readers : pc[q] = "lead" /\ on[q] = on[r]

(* "A failure is not worth reusing": no read that begins now is handed a     *)
(* failure that happened before.                                             *)
NoFailureIsKept == \A k \in Keys : cache[k].how # "failed"

IInv ==
    /\ TypeOK /\ CachedIsCurrent /\ Attached /\ Led
    /\ Coalesced /\ NoFailureIsKept
=============================================================================
