------------------------------ MODULE Settings ------------------------------
(***************************************************************************)
(* The settings file of src/app/adapters/settings/store.go: how it is read *)
(* at a launch, how the file of an older release is adopted, and how a     *)
(* change replaces it, over disk operations that fail and a process that   *)
(* ends between any two of them.                                           *)
(*                                                                         *)
(* A document's value is the recording policy, the part of it the          *)
(* HistoryService acts on; a change of any other field takes the same      *)
(* steps.  A failed operation is named in "failed" until the next launch,  *)
(* and MaxFaults bounds them.  Edits by hand are made while the window is  *)
(* closed: the file is read at a launch only.                              *)
(***************************************************************************)
EXTENDS FiniteSets, Naturals

CONSTANTS
    Calls,              \* the window's calls that change a setting
    Intervals,          \* sampling cadences
    DefaultInterval,    \* domain.DefaultSamplingInterval
    NoCall,             \* nobody holds the store's mutex
    MaxFaults           \* bound on the disk operations that fail in one run

ASSUME SettingsAssumption ==
    /\ DefaultInterval \in Intervals
    /\ NoCall \notin Calls
    /\ MaxFaults \in Nat

(* A retention of no days is "off"; how many days the others are is left to  *)
(* the prune.                                                                *)
Retentions == {"off", "on"}
Values == [retention : Retentions, interval : Intervals]
Defaults == [retention |-> "on", interval |-> DefaultInterval]

VARIABLES
    file,       \* settings.json
    legacy,     \* the history.json of the release before it
    phase,      \* how far the process has come
    mem,        \* Store.value
    unreadable, \* Store.state.Unreadable
    future,     \* Store.state.FromFuture
    sidelined,  \* Store.sidelined
    holder,     \* the call in the middle of Update, which holds Store.mu
    failed      \* the operations that failed since the launch

onDisk == <<file, legacy>>
store == <<mem, unreadable, future, sidelined, holder>>

Operations == {"read", "aside", "write", "remove", "append", "prune"}
Fault(operation) ==
    /\ Cardinality(failed) < MaxFaults
    /\ failed' = failed \cup {operation}

(* A file that holds no settings of ours reads as the defaults.              *)
Empty(how) == [how |-> how, value |-> Defaults]
Missing == Empty("missing")
Doc(v) == [how |-> "doc", value |-> v]
Files == {Missing, Empty("bad")} \cup [how : {"doc", "future"}, value : Values]
Legacies == {Missing, Empty("bad")} \cup {Doc(v) : v \in Values}

InitSettings ==
    /\ file \in Files /\ legacy \in Legacies
    /\ phase = "down"
    /\ mem = Defaults
    /\ unreadable = FALSE /\ future = FALSE /\ sidelined = FALSE
    /\ holder = NoCall
    /\ failed = {}

(* What load makes of the two files.                                         *)
Loads == IF file.how = "missing" THEN legacy.value ELSE file.value

(* Open: a store, whatever the disk holds.  A missing settings file is the   *)
(* one case in which the older file is adopted.                              *)
Open ==
    /\ phase = "down"
    /\ mem' = Loads
    /\ unreadable' = (file.how = "bad")
    /\ future' = (file.how = "future")
    /\ phase' = IF file.how = "missing" /\ legacy.how = "doc" THEN "adopt" ELSE "up"
    /\ UNCHANGED <<onDisk, sidelined, holder, failed>>

(* The read of the settings file fails, or that of the file to adopt.        *)
OpenMisread ==
    /\ phase = "down"
    /\ Missing # file \/ Missing # legacy
    /\ Fault("read")
    /\ mem' = Defaults
    /\ unreadable' = (file.how # "missing")
    /\ phase' = "up"
    /\ UNCHANGED <<onDisk, future, sidelined, holder>>

(* Mutant: the old file goes before the new one is written.                  *)
AdoptRemoving ==
    /\ phase = "adopt"
    /\ legacy' = Missing
    /\ \/ file' = Doc(mem) /\ phase' = "tidy" /\ UNCHANGED failed
       \/ Fault("write") /\ phase' = "up" /\ UNCHANGED file
    /\ UNCHANGED store

(* adopt: write the new file, and only then remove the old one.              *)
Adopt ==
    /\ phase = "adopt"
    /\ \/ file' = Doc(mem) /\ phase' = "tidy" /\ UNCHANGED failed
       \/ Fault("write") /\ phase' = "up" /\ UNCHANGED file
    /\ UNCHANGED <<legacy, store>>

RemoveLegacy ==
    /\ phase = "tidy"
    /\ \/ legacy' = Missing /\ UNCHANGED failed
       \/ Fault("remove") /\ UNCHANGED legacy
    /\ phase' = "up"
    /\ UNCHANGED <<file, store>>

(* The unreadable file is moved out of the way before the first write, by a  *)
(* rename that may fail and is not tried again.                              *)
MustSideline == unreadable /\ ~sidelined

Sideline(c) ==
    /\ holder = NoCall /\ MustSideline /\ ~future
    /\ holder' = c
    /\ sidelined' = TRUE
    /\ \/ file' = Missing /\ UNCHANGED failed
       \/ file.how # "missing" /\ Fault("aside") /\ UNCHANGED file
    /\ UNCHANGED <<legacy, phase, mem, unreadable, future>>

(* The rest of Update: write the whole document by a temporary file and a    *)
(* rename, and swap the value in memory only then.                           *)
(* Mutant: an unreadable file is written over.                               *)
SavesOver(c) == ~future /\ holder \in {c, NoCall}

Saves(c) ==
    /\ ~future
    /\ holder \in {c, NoCall}
    /\ MustSideline => holder = c

Replace(c, v) ==
    /\ Saves(c)
    /\ file' = Doc(v)
    /\ mem' = v
    /\ unreadable' = FALSE
    /\ holder' = NoCall
    /\ UNCHANGED <<legacy, phase, future, sidelined, failed>>

ReplaceFails(c) ==
    /\ Saves(c)
    /\ Fault("write")
    /\ holder' = NoCall
    /\ UNCHANGED <<onDisk, phase, mem, unreadable, future, sidelined>>

(* A file from a newer release is never written over.                        *)
Refused(c) == future /\ holder = NoCall /\ UNCHANGED <<onDisk, phase, store, failed>>

(* The process ends: at its own pace, or wherever it happens to be.          *)
Ended ==
    /\ phase # "down"
    /\ phase' = "down"
    /\ mem' = Defaults
    /\ unreadable' = FALSE /\ future' = FALSE /\ sidelined' = FALSE
    /\ holder' = NoCall
    /\ failed' = {}
    /\ UNCHANGED onDisk

(* Somebody edits, replaces or deletes the file.                             *)
EditedByHand ==
    /\ phase = "down"
    /\ file' \in Files \ {file}
    /\ UNCHANGED <<legacy, phase, store, failed>>

TypeOKSettings ==
    /\ file \in Files /\ legacy \in Legacies
    /\ phase \in {"down", "adopt", "tidy", "up"}
    /\ mem \in Values
    /\ unreadable \in BOOLEAN /\ future \in BOOLEAN /\ sidelined \in BOOLEAN
    /\ holder \in Calls \cup {NoCall}
    /\ failed \subseteq Operations
=============================================================================
