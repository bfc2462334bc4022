------------------------------- MODULE Custody -------------------------------
(* What a registry of long-lived goroutines promises in                      *)
(* src/app/adapters/k8s, whatever the goroutines do: watchManager.sets in    *)
(* watch.go and portForwards.byID in portforward.go are two of its kind.     *)
(*                                                                          *)
(* Whoever ends a goroutine takes it out of the registry first, so that it   *)
(* is asked to end by one holder and once (a channel closed twice ends the   *)
(* process), and lets go of it only after it ended.                          *)

CONSTANTS
    Things,     \* the goroutines of a behaviour, none of them used twice
    Holders     \* those who take them out to end them

VARIABLES
    life,       \* of each thing: new, alive, ended
    listed,     \* the things the registry holds
    held,       \* what each holder took and has not let go of
    asked,      \* the things that were told to end
    closed      \* the registry takes nothing any more

vars == <<life, listed, held, asked, closed>>

Init ==
    /\ life = [x \in Things |-> "new"]
    /\ listed = {} /\ asked = {}
    /\ held = [h \in Holders |-> {}]
    /\ closed = FALSE

(* A goroutine and its record begin together.                                *)
Begin(x) ==
    /\ ~closed /\ life[x] = "new"
    /\ life' = [life EXCEPT ![x] = "alive"]
    /\ listed' = listed \cup {x}
    /\ UNCHANGED <<held, asked, closed>>

(* One critical section: what is taken is in nobody else's hands. The last   *)
(* one takes all there is and closes the registry.                           *)
Take(h, things) ==
    /\ held[h] = {} /\ things \subseteq listed
    /\ listed' = listed \ things
    /\ held' = [held EXCEPT ![h] = things]
    /\ closed' = closed \/ (closed' = TRUE /\ things = listed)
    /\ UNCHANGED <<life, asked>>

(* One after the other: the next is asked when the last was let go.          *)
Ask(h, x) ==
    /\ x \in held[h] /\ held[h] \cap asked = {}
    /\ asked' = asked \cup {x}
    /\ UNCHANGED <<life, listed, held, closed>>

(* It ends: because it was asked, or by itself, and then its record goes     *)
(* with it or stays for the next taker.                                      *)
End(x) ==
    /\ life[x] = "alive"
    /\ life' = [life EXCEPT ![x] = "ended"]
    /\ listed' \in {listed, listed \ {x}}
    /\ UNCHANGED <<held, asked, closed>>

LetGo(h, x) ==
    /\ x \in held[h] \cap asked /\ life[x] = "ended"
    /\ held' = [held EXCEPT ![h] = @ \ {x}]
    /\ UNCHANGED <<life, listed, asked, closed>>

Next ==
    \/ \E x \in Things : Begin(x) \/ End(x)
    \/ \E h \in Holders :
         \/ \E things \in SUBSET listed : Take(h, things)
         \/ \E x \in Things : Ask(h, x) \/ LetGo(h, x)

Spec == Init /\ [][Next]_vars
=============================================================================
