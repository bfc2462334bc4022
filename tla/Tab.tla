-------------------------------- MODULE Tab --------------------------------
(* What a tab promises about the kept forwards that a restore starts for it  *)
(* (src/app/application/cluster.go and forwardkeeper.go): one is started for *)
(* an open tab, or before the sweep of a disconnect that is still to come,   *)
(* so that none is left when the tab is closed, and none after the shutdown. *)
(* Connects and disconnects of the tab may overlap.                          *)

CONSTANTS
    Ports,      \* the local ports of the kept forwards
    Closers,    \* the disconnects of a behaviour
    Restorers   \* the restores of a behaviour

VARIABLES
    open,       \* the tab is open
    leaving,    \* the disconnects that wait for the restore to be over
    sweeping,   \* those that stop what it started next
    reaching,   \* the restores at the cluster: resolving a target, dialling
    restored,   \* the ports of the forwards restores started
    gone        \* the shutdown's sweep is over

vars == <<open, leaving, sweeping, reaching, restored, gone>>

Init ==
    /\ ~open /\ ~gone
    /\ leaving = {} /\ sweeping = {} /\ reaching = {} /\ restored = {}

Connect ==
    /\ open' = TRUE
    /\ UNCHANGED <<leaving, sweeping, reaching, restored, gone>>

Disconnect(c) ==
    /\ open /\ open' = FALSE
    /\ leaving' = leaving \cup {c}
    /\ UNCHANGED <<sweeping, reaching, restored, gone>>

(* A restore goes to the cluster for an open tab,                            *)
Reach(r) ==
    /\ open /\ ~gone
    /\ reaching' = reaching \cup {r}
    /\ UNCHANGED <<open, leaving, sweeping, restored, gone>>

(* comes back with a forward or without one,                                 *)
Restore(r, p) ==
    /\ r \in reaching /\ p \notin restored
    /\ reaching' = reaching \ {r}
    /\ restored' = restored \cup {p}
    /\ UNCHANGED <<open, leaving, sweeping, gone>>

GiveUp(r) ==
    /\ reaching' = reaching \ {r}
    /\ UNCHANGED <<open, leaving, sweeping, restored, gone>>

(* and is back before the last disconnect of a closed tab turns to sweep.    *)
Turn(c) ==
    /\ c \in leaving
    /\ open \/ leaving # {c} \/ reaching = {}
    /\ leaving' = leaving \ {c}
    /\ sweeping' = sweeping \cup {c}
    /\ UNCHANGED <<open, reaching, restored, gone>>

Sweep(c) ==
    /\ c \in sweeping
    /\ sweeping' = sweeping \ {c}
    /\ restored' = {}
    /\ UNCHANGED <<open, leaving, reaching, gone>>

(* A forward is stopped for itself, or all with the client they dialled by.  *)
Release ==
    /\ restored' \subseteq restored
    /\ UNCHANGED <<open, leaving, sweeping, reaching, gone>>

Leave ==
    /\ reaching = {}
    /\ gone' = TRUE /\ restored' = {}
    /\ UNCHANGED <<open, leaving, sweeping, reaching>>

Next ==
    \/ Connect \/ Release \/ Leave
    \/ \E c \in Closers : Disconnect(c) \/ Turn(c) \/ Sweep(c)
    \/ \E r \in Restorers : Reach(r) \/ GiveUp(r) \/ \E p \in Ports : Restore(r, p)

Spec == Init /\ [][Next]_vars
=============================================================================
