------------------------------- MODULE History -------------------------------
(***************************************************************************)
(* The recording of one cluster (src/app/application/history.go) into its  *)
(* file of samples (src/app/adapters/history/store.go), under the policy   *)
(* of the settings file: the sampler's goroutine, the window's calls that  *)
(* change the retention and the cadence, appends that are torn and prunes  *)
(* that fail, and a process that ends at any moment.                       *)
(*                                                                         *)
(* The file is its readable samples and whether its last line is torn.     *)
(* Ages are left out: a prune under a retention drops the samples before   *)
(* some instant, under none all of them.  The other open clusters are the  *)
(* time a pass takes to come to this one.                                  *)
(***************************************************************************)
EXTENDS Settings

CONSTANT MaxStored      \* bound on the readable samples of the file

ASSUME HistoryAssumption == MaxStored \in Nat

VARIABLES
    stored,     \* the readable samples of the file
    torn,       \* its last line has no end
    retention,  \* HistoryService.retention
    interval,   \* HistoryService.interval
    ticker,     \* the cadence of the sampler's tick source
    reconfigure,\* the buffered "the cadence changed"
    sampler,    \* where the sampler's goroutine is
    closing,    \* Close cancelled its context
    pc,         \* per call, what it does next
    arg,        \* per call, the policy it saves
    crossed,    \* the last change of the policy was made while another was
                \* being saved (a history variable)
    off         \* the operator turned recording off, or did before an
                \* upgrade, and it was saved (a history variable)

samples == <<stored, torn>>
service == <<retention, interval, ticker, reconfigure>>
calls == <<pc, arg, crossed>>
settings == <<onDisk, store, phase, failed>>
vars == <<settings, samples, service, sampler, closing, calls, off>>

Init ==
    /\ InitSettings
    /\ stored = 0 /\ torn = FALSE
    /\ retention = "on" /\ interval = DefaultInterval /\ ticker = DefaultInterval
    /\ reconfigure = FALSE
    /\ sampler = "down" /\ closing = FALSE
    /\ pc = [c \in Calls |-> "idle"]
    /\ arg = [c \in Calls |-> Defaults] /\ crossed = FALSE
    /\ off = (Loads.retention = "off")

-----------------------------------------------------------------------------
(* The file of samples.  An append writes one line and its end; onto a torn  *)
(* line it makes one line of both, which no read accepts.                    *)
Appended ==
    /\ stored' = (IF torn THEN stored ELSE stored + 1)
    /\ torn' = FALSE

Torn == torn' = TRUE /\ UNCHANGED stored

(* A prune rewrites the file from what can be read of it, through a          *)
(* temporary file and a rename, or removes a file with nothing left.         *)
Pruned(r) ==
    /\ IF r = "off" THEN stored' = 0 ELSE stored' \in 0 .. stored
    /\ torn' = FALSE

Prune(r) ==
    \/ Pruned(r) /\ UNCHANGED failed
    \/ Fault("prune") /\ UNCHANGED samples

-----------------------------------------------------------------------------
(* The process.  The policy is loaded when the service is made, so that no   *)
(* sample is taken before it is known.                                       *)
Launch ==
    /\ Open \/ OpenMisread
    /\ off' = (mem'.retention = "off" \/ (off /\ "read" \notin failed'))
    /\ UNCHANGED <<samples, service, sampler, closing, calls>>

AdoptOld ==
    /\ Adopt \/ RemoveLegacy
    /\ UNCHANGED <<samples, service, sampler, closing, calls, off>>

(* Mutant: the policy is left to the sampler to load.                        *)
StartUnloaded ==
    /\ phase = "up" /\ sampler = "down"
    /\ sampler' = "start"
    /\ UNCHANGED <<settings, samples, service, closing, calls, off>>

Start ==
    /\ phase = "up" /\ sampler = "down"
    /\ sampler' = "start"
    /\ retention' = mem.retention
    /\ interval' = mem.interval /\ ticker' = mem.interval
    /\ reconfigure' = FALSE
    /\ UNCHANGED <<settings, samples, closing, calls, off>>

(* The end of the process, wherever it is: an append under way may be done,  *)
(* or leave a torn line.                                                     *)
Crash ==
    /\ Ended
    /\ IF sampler = "append" THEN Appended \/ Torn \/ UNCHANGED samples
                             ELSE UNCHANGED samples
    /\ sampler' = "down" /\ closing' = FALSE
    /\ pc' = [c \in Calls |-> "idle"]
    /\ arg' = [c \in Calls |-> Defaults] /\ crossed' = FALSE
    /\ retention' = "on" /\ interval' = DefaultInterval /\ ticker' = DefaultInterval
    /\ reconfigure' = FALSE
    /\ UNCHANGED off

Edit ==
    /\ EditedByHand
    /\ off' = FALSE
    /\ UNCHANGED <<samples, service, sampler, closing, calls>>

-----------------------------------------------------------------------------
(* The sampler: a prune of what an earlier run left, a first pass over the   *)
(* open clusters, then whatever its select finds ready.  A pass looks at the *)
(* retention once and then goes from cluster to cluster, each for as long as *)
(* its assessment takes; neither the turn of a cluster nor its append looks  *)
(* again.                                                                    *)
At(step) == sampler = step

(* Mutant: the first pass does not wait for the prune.                       *)
PruneSkippedAtStart ==
    /\ At("start") /\ sampler' = "pass"
    /\ UNCHANGED <<settings, samples, service, closing, calls, off>>

PruneAtStart ==
    /\ At("start") /\ sampler' = "pass"
    /\ IF closing THEN UNCHANGED <<samples, failed>> ELSE Prune(retention)
    /\ UNCHANGED <<onDisk, store, phase, service, closing, calls, off>>

PassBegins ==
    /\ At("pass") /\ retention = "on" /\ sampler' = "turn"
    /\ UNCHANGED <<settings, samples, service, closing, calls, off>>

PassRefused ==
    /\ At("pass") /\ retention = "off" /\ sampler' = "select"
    /\ UNCHANGED <<settings, samples, service, closing, calls, off>>

TurnComes ==
    /\ At("turn") /\ ~closing /\ stored < MaxStored
    /\ sampler' = "assess"
    /\ UNCHANGED <<settings, samples, service, closing, calls, off>>

(* The cluster is not open, or its sample is not due yet, or Close came.     *)
PassedOver ==
    /\ At("turn") /\ sampler' = "select"
    /\ UNCHANGED <<settings, samples, service, closing, calls, off>>

Assessed ==
    /\ At("assess") /\ sampler' = "append"
    /\ UNCHANGED <<settings, samples, service, closing, calls, off>>

(* It failed, took longer than sampleTimeout, panicked, or was cancelled by  *)
(* Close.                                                                    *)
NotAssessed ==
    /\ At("assess") /\ sampler' = "select"
    /\ UNCHANGED <<settings, samples, service, closing, calls, off>>

AppendSample ==
    /\ At("append") /\ sampler' = "select"
    /\ Appended
    /\ UNCHANGED <<settings, service, closing, calls, off>>

(* A full disk: nothing of the line, or a part of it.                        *)
AppendFails ==
    /\ At("append") /\ sampler' = "select"
    /\ Fault("append")
    /\ Torn \/ UNCHANGED samples
    /\ UNCHANGED <<onDisk, store, phase, service, closing, calls, off>>

SampleTick ==
    /\ At("select") /\ sampler' = "pass"
    /\ UNCHANGED <<settings, samples, service, closing, calls, off>>

(* Mutant: nothing is pruned while nothing is recorded.                      *)
PruneTickWhenOn ==
    /\ At("select") /\ ~closing /\ retention = "on"
    /\ Prune(retention)
    /\ UNCHANGED <<onDisk, store, phase, service, sampler, closing, calls, off>>

PruneTick ==
    /\ At("select") /\ ~closing
    /\ Prune(retention)
    /\ UNCHANGED <<onDisk, store, phase, service, sampler, closing, calls, off>>

Reconfigured ==
    /\ At("select") /\ reconfigure
    /\ reconfigure' = FALSE
    /\ ticker' = interval
    /\ UNCHANGED <<settings, samples, retention, interval, sampler, closing, calls, off>>

SamplerStops ==
    /\ At("select") /\ closing
    /\ sampler' = "done"
    /\ UNCHANGED <<settings, samples, service, closing, calls, off>>

Close ==
    /\ sampler \notin {"down", "done"} /\ ~closing
    /\ closing' = TRUE
    /\ UNCHANGED <<settings, samples, service, sampler, calls, off>>

-----------------------------------------------------------------------------
(* The window's calls.  Each changes one half of the policy and saves both,  *)
(* the other half as it was when the call changed its own.                   *)
Saving(c) == pc[c] \in {"saveRetention", "saveInterval"}
Policy == [retention |-> retention, interval |-> interval]
Crosses(c) == crossed' = \E d \in Calls \ {c} : Saving(d)

Goes(c, from, to) == pc[c] = from /\ pc' = [pc EXCEPT ![c] = to]

(* Mutant: the retention is saved as it was before the change.               *)
RetentionUnsaved(c, r) ==
    /\ sampler # "down"
    /\ Goes(c, "idle", "saveRetention")
    /\ retention' = r
    /\ arg' = [arg EXCEPT ![c] = Policy]
    /\ Crosses(c)
    /\ off' = (off /\ r = "off")
    /\ UNCHANGED <<settings, samples, interval, ticker, reconfigure, sampler, closing>>

SetRetention(c, r) ==
    /\ sampler # "down"
    /\ Goes(c, "idle", "saveRetention")
    /\ retention' = r
    /\ arg' = [arg EXCEPT ![c] = [retention |-> r, interval |-> interval]]
    /\ Crosses(c)
    /\ off' = (off /\ r = "off")
    /\ UNCHANGED <<settings, samples, interval, ticker, reconfigure, sampler, closing>>

SetSamplingInterval(c, i) ==
    /\ sampler # "down"
    /\ Goes(c, "idle", "saveInterval")
    /\ interval' = i
    /\ arg' = [arg EXCEPT ![c] = [retention |-> retention, interval |-> i]]
    /\ Crosses(c)
    /\ UNCHANGED <<settings, samples, retention, ticker, reconfigure, sampler, closing, off>>

SavedTo(c) == IF pc[c] = "saveRetention" THEN "prune" ELSE "signal"

SidelineFirst(c) ==
    /\ Saving(c) /\ Sideline(c)
    /\ UNCHANGED <<samples, service, sampler, closing, calls, off>>

(* The word that is saved is the operator's only when no other call changes  *)
(* the policy at the same time.                                              *)
Save(c) ==
    /\ Saving(c) /\ Replace(c, arg[c])
    /\ pc' = [pc EXCEPT ![c] = SavedTo(c)]
    /\ off' = (off \/ /\ arg[c].retention = "off" /\ retention = "off"
                       /\ \A d \in Calls \ {c} : pc[d] = "idle")
    /\ UNCHANGED <<samples, service, sampler, closing, arg, crossed>>

(* A refusal or a failure is logged, and the call goes on.                   *)
SaveFails(c) ==
    /\ Saving(c) /\ (ReplaceFails(c) \/ Refused(c))
    /\ pc' = [pc EXCEPT ![c] = SavedTo(c)]
    /\ UNCHANGED <<samples, service, sampler, closing, arg, crossed, off>>

PruneNow(c) ==
    /\ Goes(c, "prune", "idle")
    /\ Prune(arg[c].retention)
    /\ arg' = [arg EXCEPT ![c] = Defaults]
    /\ UNCHANGED <<onDisk, store, phase, service, sampler, closing, crossed, off>>

Signal(c) ==
    /\ Goes(c, "signal", "idle")
    /\ reconfigure' = TRUE
    /\ arg' = [arg EXCEPT ![c] = Defaults]
    /\ UNCHANGED <<settings, samples, retention, interval, ticker, sampler, closing, crossed,
                   off>>

-----------------------------------------------------------------------------
Passing == PruneAtStart \/ PassBegins \/ PassRefused \/ TurnComes \/ PassedOver
Assessing == Assessed \/ NotAssessed
Appending == AppendSample \/ AppendFails
Sampling == Passing \/ Assessing \/ Appending \/ Reconfigured \/ SamplerStops

Calling(c) ==
    \/ \E r \in Retentions : SetRetention(c, r)
    \/ \E i \in Intervals : SetSamplingInterval(c, i)
    \/ SidelineFirst(c) \/ Save(c) \/ SaveFails(c) \/ PruneNow(c) \/ Signal(c)

Next ==
    \/ Launch \/ AdoptOld \/ Start \/ Crash \/ Edit
    \/ Sampling \/ SampleTick \/ PruneTick \/ Close
    \/ \E c \in Calls : Calling(c)

(* The sampler runs and its tickers tick: an assessment has a deadline, and  *)
(* Go's select takes any of the channels that stay ready sooner or later. A  *)
(* prune that fails is repeated at the next tick, and not on a disk that     *)
(* refuses it for ever.                                                      *)
PruneTakes == PruneTick /\ Pruned(retention)

Spec == Init /\ [][Next]_vars
FairSpec ==
    /\ Spec
    /\ WF_vars(Passing) /\ WF_vars(Assessing) /\ WF_vars(Appending)
    /\ SF_vars(PruneTakes)

-----------------------------------------------------------------------------
TypeOK ==
    /\ TypeOKSettings
    /\ stored \in 0 .. MaxStored /\ torn \in BOOLEAN
    /\ retention \in Retentions /\ interval \in Intervals /\ ticker \in Intervals
    /\ reconfigure \in BOOLEAN
    /\ sampler \in {"down", "start", "pass", "turn", "assess", "append", "select", "done"}
    /\ closing \in BOOLEAN
    /\ pc \in [Calls -> {"idle", "saveRetention", "saveInterval", "prune", "signal"}]
    /\ arg \in [Calls -> Values] /\ crossed \in BOOLEAN
    /\ off \in BOOLEAN

(* What the settings store answers is what the next launch reads, wherever   *)
(* this one is killed: an adoption half done, an update half written, a      *)
(* refused or a failed one.  The exceptions are files that could not be      *)
(* read, and an unreadable document beside a file of the older release that  *)
(* was never removed.                                                        *)
StoreAgrees ==
    phase # "down" /\ "read" \notin failed /\ ~(unreadable /\ legacy.how = "doc")
      => mem = Loads

(* What the service acts on, its own retention and cadence, is what its next *)
(* launch reads, wherever it is killed and once no call is on its way to     *)
(* save: unless the file could not be read, a save failed or the file is of  *)
(* a newer release and never written, or the last change crossed another.    *)
NobodySaves == \A c \in Calls : ~Saving(c)
NextLaunchAgrees ==
    sampler # "down" /\ NobodySaves /\ ~crossed /\ ~future
       /\ {"read", "write"} \cap failed = {}
      => Policy = Loads

(* "An unreadable file is somebody's hand edit and replacing it would        *)
(* destroy the evidence": a file this run could not read is replaced only    *)
(* when it could not be set aside either.                                    *)
UnreadableIsSetAside ==
    [][unreadable /\ phase = "up" /\ file.how # "missing" /\ file' # file
         => file' = Missing \/ "aside" \in failed]_vars

(* "An operator who set retention to zero must not find PodSteer recording   *)
(* again after an upgrade", or after any crash: no pass over the clusters    *)
(* begins until the operator says otherwise.  A pass under way when it was   *)
(* said goes on to the clusters it has still to come to.                     *)
OffStaysOff == [][PassBegins => ~off]_vars

(* "Losing one sample must never cost the operator the other twenty          *)
(* thousand": an append that succeeds adds a sample that can be read, unless *)
(* the disk failed an append or a prune of this run.  The torn line a crash  *)
(* leaves is gone before the first append.                                   *)
CrashCostsItsOwnSample ==
    [][AppendSample => stored' = stored + 1 \/ {"append", "prune"} \cap failed # {}]_vars

(* "An operator who turns recording off is telling PodSteer to stop holding  *)
(* data it already has": what an assessment in flight appends after the      *)
(* prune does not stay either.                                               *)
OffEmptiesTheDisk ==
    (retention = "off" /\ sampler # "down")
      ~> (stored = 0 /\ ~torn) \/ retention = "on" \/ closing \/ sampler = "down"

LeftOver == retention = "off" /\ ~closing /\ (stored # 0 \/ torn)

-----------------------------------------------------------------------------
(* A change of the cadence is not lost: while the ticker is behind, a signal *)
(* is in the buffer or a call is on its way to send one, whatever the buffer *)
(* held when it did.                                                         *)
CadenceIsSignalled ==
    sampler # "down" /\ ticker # interval
      => reconfigure \/ \E c \in Calls : pc[c] \in {"saveInterval", "signal"}

(* The inductive invariant.  Nothing in memory outlives the process; an      *)
(* adoption knows which of its files is good; a file that could not be read  *)
(* is still there, or was moved; while the operator's word is off, the disk, *)
(* the store, the service and every save under way say so; and a torn line   *)
(* past the first prune is a fault of this run, or nobody appends to it.     *)
Volatile ==
    /\ phase = "down" =>
         /\ mem = Defaults /\ ~unreadable /\ ~future /\ ~sidelined
         /\ holder = NoCall /\ failed = {}
    /\ sampler # "down" => phase = "up"
    /\ sampler = "down" => \A c \in Calls : pc[c] = "idle"

Adopting ==
    /\ phase = "adopt" => file = Missing /\ legacy = Doc(mem)
    /\ phase = "tidy" => file = Doc(mem)
    /\ phase \in {"adopt", "tidy"} => ~unreadable /\ ~future /\ holder = NoCall

Unread ==
    /\ unreadable /\ "read" \notin failed => mem = Defaults /\ file \in {Missing, Empty("bad")}
    /\ unreadable /\ sidelined /\ file.how # "missing" => "aside" \in failed
    /\ holder # NoCall => sidelined

OffEverywhere ==
    off =>
      /\ Loads.retention = "off"
      /\ phase # "down" => mem.retention = "off" /\ ~unreadable
      /\ sampler # "down" => retention = "off"
      /\ \A c \in Calls : Saving(c) => arg[c].retention = "off"

TornIsKnown ==
    torn /\ sampler \notin {"down", "start"}
      => \/ {"append", "prune"} \cap failed # {}
         \/ closing /\ sampler \notin {"assess", "append"}

(* Only a call on its way to save is in the middle of Update; alone, it      *)
(* saves what the service acts on.                                           *)
SavesPolicy ==
    /\ holder # NoCall => Saving(holder)
    /\ ~crossed => \A c \in Calls : Saving(c) => /\ arg[c] = Policy
                                               /\ \A d \in Calls \ {c} : ~Saving(d)
    /\ unreadable /\ file = Missing /\ {"read", "write"} \cap failed = {} => holder # NoCall

IInv ==
    /\ TypeOK /\ Volatile /\ Adopting /\ Unread
    /\ StoreAgrees /\ NextLaunchAgrees /\ SavesPolicy
    /\ OffEverywhere /\ TornIsKnown /\ CadenceIsSignalled
    /\ sampler \in {"assess", "append"} => stored < MaxStored
=============================================================================
