------------------------------ MODULE FreshReads ------------------------------
(* What the read cache of src/app/adapters/k8s/readcache.go promises whoever *)
(* reads through it, with no cache in sight: a read is answered by a fetch   *)
(* that began no earlier than the last forget before the read did, and given *)
(* up for nobody's cancellation but its own. An epoch is the time between    *)
(* two forgets.                                                              *)
EXTENDS Integers

CONSTANTS
    Readers,    \* goroutines that read
    MaxEpoch    \* bound on the forgets of a behaviour

Epochs == 0 .. MaxEpoch

VARIABLES
    epoch,      \* forgets so far
    since,      \* the epoch each reader's read began in
    outcome,    \* how its read stands
    got,        \* the epoch the answer of its latest successful read is from
    cancelled   \* the readers whose own context is cancelled

vars == <<epoch, since, outcome, got, cancelled>>

Outcomes == {"none", "reading", "ok", "failed", "gaveUp"}

Init ==
    /\ epoch = 0
    /\ since = [r \in Readers |-> 0]
    /\ outcome = [r \in Readers |-> "none"]
    /\ got = [r \in Readers |-> 0]
    /\ cancelled = {}

Begin(r) ==
    /\ outcome[r] # "reading"
    /\ outcome' = [outcome EXCEPT ![r] = "reading"]
    /\ since' = [since EXCEPT ![r] = epoch]
    /\ cancelled' = cancelled \ {r}
    /\ UNCHANGED <<epoch, got>>

Answer(r) ==
    /\ outcome[r] = "reading"
    /\ outcome' = [outcome EXCEPT ![r] = "ok"]
    /\ \E n \in since[r] .. epoch : got' = [got EXCEPT ![r] = n]
    /\ UNCHANGED <<epoch, since, cancelled>>

(* The fetch failed, or the reader's own caller went.                        *)
NoAnswer(r) ==
    /\ outcome[r] = "reading"
    /\ \/ outcome' = [outcome EXCEPT ![r] = "failed"]
       \/ r \in cancelled /\ outcome' = [outcome EXCEPT ![r] = "gaveUp"]
    /\ UNCHANGED <<epoch, since, got, cancelled>>

Cancel(r) ==
    /\ outcome[r] = "reading"
    /\ cancelled' = cancelled \cup {r}
    /\ UNCHANGED <<epoch, since, outcome, got>>

Forget ==
    /\ epoch < MaxEpoch
    /\ epoch' = epoch + 1
    /\ UNCHANGED <<since, outcome, got, cancelled>>

Next == Forget \/ \E r \in Readers : Begin(r) \/ Answer(r) \/ NoAnswer(r) \/ Cancel(r)

Spec == Init /\ [][Next]_vars
=============================================================================
