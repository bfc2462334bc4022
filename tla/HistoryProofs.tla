---------------------------- MODULE HistoryProofs ----------------------------
(* The theorems of History, for any number of calls, cadences, faults and    *)
(* samples: its invariant, one step per action, and what it says of the      *)
(* steps the properties are about.                                           *)
EXTENDS History, TLAPS

LEMMA Documents ==
    /\ Defaults \in Values
    /\ Missing \in Files /\ Empty("bad") \in Files
    /\ Missing.how = "missing" /\ Missing.value = Defaults
    /\ Empty("bad").how = "bad" /\ Empty("bad").value = Defaults
    /\ \A v \in Values : Doc(v) \in Files /\ Doc(v).how = "doc" /\ Doc(v).value = v
    /\ \A f \in Files : /\ f.how \in {"missing", "bad", "doc", "future"}
                        /\ f.value \in Values
                        /\ f.how = "missing" => f = Missing
                        /\ f.how = "bad" => f = Empty("bad")
    /\ \A f \in Legacies : /\ f.how \in {"missing", "bad", "doc"}
                           /\ f.value \in Values
                           /\ f.how = "missing" => f = Missing
                           /\ f.how = "doc" => f = Doc(f.value)
                           /\ f.how # "doc" => f.value = Defaults
    /\ Missing \in Legacies
  BY SettingsAssumption DEF Defaults, Values, Retentions, Files, Legacies, Missing, Empty, Doc

LEMMA Policies ==
    /\ Defaults.retention = "on" /\ Defaults.interval = DefaultInterval
    /\ \A v \in Values : v.retention \in Retentions /\ v.interval \in Intervals
    /\ \A r \in Retentions, i \in Intervals :
         LET v == [retention |-> r, interval |-> i]
         IN  v \in Values /\ v.retention = r /\ v.interval = i
  BY SettingsAssumption DEF Defaults, Values

LEMMA FaultFacts ==
  ASSUME NEW operation, Fault(operation)
  PROVE  /\ failed' = failed \cup {operation} /\ operation \in failed'
         /\ failed \subseteq failed'
         /\ failed \subseteq Operations /\ operation \in Operations => failed' \subseteq Operations
         /\ \A o \in failed' : o \in failed \/ o = operation
  BY DEF Fault

LEMMA AppendFacts ==
  ASSUME stored \in 0 .. MaxStored, torn \in BOOLEAN, stored < MaxStored, Appended
  PROVE  /\ stored' \in 0 .. MaxStored /\ torn' \in BOOLEAN /\ ~torn'
         /\ stored' = stored + 1 \/ torn
  <1>1. torn' \in BOOLEAN /\ ~torn'
    BY DEF Appended
  <1>2. (torn /\ stored' = stored) \/ stored' = stored + 1
    BY DEF Appended
  <1> QED
    BY <1>1, <1>2, HistoryAssumption

LEMMA IInvInit == Init => IInv
  <1> SUFFICES ASSUME Init PROVE IInv
    OBVIOUS
  <1> USE SettingsAssumption, HistoryAssumption, Documents, Policies DEF Init, InitSettings
  <1>1. TypeOK
    <2>1. TypeOKSettings
      BY DEF TypeOKSettings
    <2>2. /\ stored \in 0 .. MaxStored /\ "on" \in Retentions
          /\ off \in BOOLEAN
      BY DEF Retentions
    <2>3. pc \in [Calls -> {"idle", "saveRetention", "saveInterval", "prune", "signal"}]
      OBVIOUS
    <2>4. arg \in [Calls -> Values]
      OBVIOUS
    <2> QED
      BY <2>1, <2>2, <2>3, <2>4 DEF TypeOK
  <1>2. Volatile /\ Adopting /\ Unread /\ StoreAgrees
    BY DEF Volatile, Adopting, Unread, StoreAgrees
  <1>3. OffEverywhere /\ TornIsKnown /\ CadenceIsSignalled
    BY DEF OffEverywhere, TornIsKnown, CadenceIsSignalled, Saving
  <1>4. NextLaunchAgrees /\ SavesPolicy
    BY DEF NextLaunchAgrees, SavesPolicy, Saving
  <1> QED
    BY <1>1, <1>2, <1>3, <1>4 DEF IInv

(* A launch and an adoption: nothing runs yet but the reading of the files.  *)
LEMMA LaunchStep == ASSUME IInv, Launch PROVE IInv'
  <1> USE SettingsAssumption, HistoryAssumption, Documents, Policies
      DEF IInv, samples, service, calls, onDisk, store
  <1>1. CASE Open
    <2> USE <1>1 DEF Launch, Open, OpenMisread
    <2>1. mem' = Loads /\ Loads \in Values
      BY DEF Loads, TypeOK, TypeOKSettings
    <2>2. TypeOK'
      BY <2>1 DEF TypeOK, TypeOKSettings
    <2>3. Volatile' /\ Adopting' /\ Unread' /\ StoreAgrees'
      BY <2>1 DEF Volatile, Adopting, Unread, StoreAgrees, Loads, TypeOK, TypeOKSettings
    <2>4. OffEverywhere' /\ TornIsKnown' /\ CadenceIsSignalled'
      BY <2>1 DEF OffEverywhere, TornIsKnown, CadenceIsSignalled, Saving, Volatile, Loads,
                  TypeOK, TypeOKSettings
    <2>5. NextLaunchAgrees' /\ SavesPolicy'
      BY DEF NextLaunchAgrees, SavesPolicy, Saving, Volatile, TypeOK, TypeOKSettings
    <2> QED
      BY <2>2, <2>3, <2>4, <2>5, <1>1 DEF Launch
  <1>2. CASE OpenMisread
    <2> USE <1>2 DEF Launch, Open, OpenMisread, Fault
    <2>1. TypeOK'
      BY DEF TypeOK, TypeOKSettings, Operations
    <2>2. Volatile' /\ Adopting' /\ Unread' /\ StoreAgrees'
      BY DEF Volatile, Adopting, Unread, StoreAgrees, Loads, TypeOK, TypeOKSettings
    <2>3. OffEverywhere' /\ TornIsKnown' /\ CadenceIsSignalled'
      BY DEF OffEverywhere, TornIsKnown, CadenceIsSignalled, Saving, Volatile, Loads,
             TypeOK, TypeOKSettings
    <2>4. NextLaunchAgrees' /\ SavesPolicy'
      BY DEF NextLaunchAgrees, SavesPolicy, Saving, Volatile, TypeOK, TypeOKSettings
    <2> QED
      BY <2>1, <2>2, <2>3, <2>4
  <1> QED
    BY <1>1, <1>2 DEF Launch

LEMMA AdoptStep == ASSUME IInv, AdoptOld PROVE IInv'
  <1> USE SettingsAssumption, HistoryAssumption, Documents, Policies
      DEF IInv, samples, service, calls, store, AdoptOld, Adopt, RemoveLegacy, Fault
  <1>1. TypeOK'
    <2>1. failed' \subseteq Operations
      BY FaultFacts DEF TypeOK, TypeOKSettings, Fault, Operations
    <2>2. file' \in Files /\ legacy' \in Legacies
      BY DEF TypeOK, TypeOKSettings
    <2>3. phase' \in {"tidy", "up"}
      OBVIOUS
    <2> QED
      BY <2>1, <2>2, <2>3 DEF TypeOK, TypeOKSettings
  <1>2. Volatile' /\ Adopting' /\ Unread'
    BY DEF Volatile, Adopting, Unread, TypeOK, TypeOKSettings
  <1>3. StoreAgrees'
    BY DEF StoreAgrees, Adopting, Loads, TypeOK, TypeOKSettings
  <1>4. OffEverywhere'
    BY DEF OffEverywhere, Saving, Adopting, Volatile, Loads, TypeOK, TypeOKSettings
  <1>5. TornIsKnown' /\ CadenceIsSignalled'
    BY DEF TornIsKnown, CadenceIsSignalled, Volatile
  <1>6. NextLaunchAgrees' /\ SavesPolicy'
    BY DEF NextLaunchAgrees, SavesPolicy, Saving, Volatile, Adopting
  <1> QED
    BY <1>1, <1>2, <1>3, <1>4, <1>5, <1>6 DEF Volatile

(* The service starts from the value the store loaded.                       *)
LEMMA StartStep == ASSUME IInv, Start PROVE IInv'
  <1> USE SettingsAssumption, HistoryAssumption, Documents, Policies
      DEF IInv, samples, settings, onDisk, store, calls, Start
  <1>1. TypeOK'
    BY DEF TypeOK, TypeOKSettings
  <1>2. Volatile' /\ Adopting' /\ Unread' /\ StoreAgrees'
    BY DEF Volatile, Adopting, Unread, StoreAgrees, Loads
  <1>3. OffEverywhere' /\ TornIsKnown' /\ CadenceIsSignalled'
    BY DEF OffEverywhere, TornIsKnown, CadenceIsSignalled, Saving, Loads
  <1>4. NextLaunchAgrees'
    <2>1. mem \in Values /\ Policy' = mem
      BY DEF Policy, Values, TypeOK, TypeOKSettings
    <2>2. ASSUME ~future, "read" \notin failed, "write" \notin failed PROVE mem = Loads
      <3>1. CASE ~unreadable
        BY <2>2, <3>1 DEF StoreAgrees
      <3>2. CASE unreadable
        <4>1. mem = Defaults /\ file \in {Missing, Empty("bad")}
          BY <2>2, <3>2 DEF Unread
        <4>2. file = Missing => holder # NoCall
          BY <2>2, <3>2 DEF SavesPolicy
        <4>3. holder = NoCall
          BY DEF SavesPolicy, Saving, Volatile, TypeOK, TypeOKSettings
        <4> QED
          BY <4>1, <4>2, <4>3 DEF Loads
      <3> QED
        BY <3>1, <3>2
    <2> QED
      BY <2>1, <2>2 DEF NextLaunchAgrees, Loads
  <1>5. SavesPolicy'
    BY DEF SavesPolicy, Saving, Volatile
  <1> QED
    BY <1>1, <1>2, <1>3, <1>4, <1>5

LEMMA CrashStep == ASSUME IInv, Crash PROVE IInv'
  <1> USE SettingsAssumption, HistoryAssumption, Documents, Policies
      DEF IInv, samples, onDisk, Crash, Ended
  <1>1. stored' \in 0 .. MaxStored /\ torn' \in BOOLEAN
    <2>1. stored \in 0 .. MaxStored /\ torn \in BOOLEAN
      BY DEF TypeOK
    <2>2. CASE sampler = "append" /\ Appended
      BY <2>1, <2>2, AppendFacts
    <2>3. CASE UNCHANGED samples \/ Torn
      BY <2>1, <2>3 DEF Torn
    <2> QED
      BY <2>2, <2>3
  <1>2. TypeOK'
    <2>1. TypeOKSettings'
      BY DEF TypeOK, TypeOKSettings
    <2>2. /\ pc' \in [Calls -> {"idle", "saveRetention", "saveInterval", "prune", "signal"}]
          /\ arg' \in [Calls -> Values]
      OBVIOUS
    <2> QED
      BY <1>1, <2>1, <2>2 DEF TypeOK, Retentions
  <1>3. Volatile' /\ Adopting' /\ Unread' /\ StoreAgrees'
    BY DEF Volatile, Adopting, Unread, StoreAgrees
  <1>4. OffEverywhere' /\ TornIsKnown' /\ CadenceIsSignalled'
    BY DEF OffEverywhere, TornIsKnown, CadenceIsSignalled, Saving, Loads
  <1>5. NextLaunchAgrees' /\ SavesPolicy'
    BY DEF NextLaunchAgrees, SavesPolicy, Saving
  <1> QED
    BY <1>2, <1>3, <1>4, <1>5

LEMMA EditStep == ASSUME IInv, Edit PROVE IInv'
  <1> USE SettingsAssumption, HistoryAssumption, Documents, Policies
      DEF IInv, samples, service, calls, store, Edit, EditedByHand
  <1>1. TypeOK'
    BY DEF TypeOK, TypeOKSettings
  <1>2. Volatile' /\ Adopting' /\ Unread' /\ StoreAgrees'
    BY DEF Volatile, Adopting, Unread, StoreAgrees
  <1>3. OffEverywhere' /\ TornIsKnown' /\ CadenceIsSignalled'
    BY DEF OffEverywhere, TornIsKnown, CadenceIsSignalled, Volatile
  <1>4. NextLaunchAgrees' /\ SavesPolicy'
    BY DEF NextLaunchAgrees, SavesPolicy, Saving, Volatile
  <1> QED
    BY <1>1, <1>2, <1>3, <1>4 DEF Volatile

-----------------------------------------------------------------------------
(* A step of the sampler, of the prunes or of Close leaves the settings, the *)
(* service's policy and the calls alone: what it does to the samples and to  *)
(* the faults of the run is all there is to check.                           *)
LEMMA QuietStep ==
  ASSUME IInv, phase = "up",
         UNCHANGED <<onDisk, store, phase, retention, interval, calls, off>>,
         UNCHANGED <<ticker, reconfigure>> \/ (ticker' = interval /\ reconfigure' \in BOOLEAN),
         failed \subseteq failed', failed' \subseteq Operations,
         "read" \in failed' => "read" \in failed,
         sampler # "down",
         sampler' \in {"pass", "turn", "assess", "append", "select", "done"} \/ sampler' = sampler,
         stored' \in 0 .. MaxStored, torn' \in BOOLEAN, closing' \in BOOLEAN,
         sampler' \in {"assess", "append"} => stored' < MaxStored,
         TornIsKnown'
  PROVE  IInv'
  <1> USE DEF IInv, onDisk, store, calls
  <1>1. TypeOK'
    BY DEF TypeOK, TypeOKSettings
  <1>2. Volatile' /\ Adopting' /\ Unread' /\ StoreAgrees'
    BY DEF Volatile, Adopting, Unread, StoreAgrees, Loads, TypeOK
  <1>3. OffEverywhere' /\ CadenceIsSignalled'
    BY DEF OffEverywhere, CadenceIsSignalled, Saving, Loads, Volatile
  <1>4. NextLaunchAgrees' /\ SavesPolicy'
    BY DEF NextLaunchAgrees, NobodySaves, SavesPolicy, Policy, Saving, Loads
  <1> QED
    BY <1>1, <1>2, <1>3, <1>4

LEMMA PruneFacts ==
  ASSUME IInv, NEW r, Prune(r)
  PROVE  /\ stored' \in 0 .. MaxStored /\ stored' <= stored /\ torn' \in BOOLEAN
         /\ failed \subseteq failed' /\ (failed \subseteq Operations => failed' \subseteq Operations)
         /\ "read" \in failed' => "read" \in failed
         /\ torn' => torn /\ "prune" \in failed'
  <1> USE HistoryAssumption DEF Prune, samples
  <1>1. stored \in 0 .. MaxStored /\ torn \in BOOLEAN
    BY DEF IInv, TypeOK
  <1>2. CASE Pruned(r) /\ UNCHANGED failed
    <2>1. stored' \in 0 .. stored
      BY <1>1, <1>2 DEF Pruned
    <2>2. torn' \in BOOLEAN /\ ~torn'
      BY <1>2 DEF Pruned
    <2> QED
      BY <1>1, <1>2, <2>1, <2>2
  <1>3. CASE Fault("prune") /\ UNCHANGED samples
    BY <1>1, <1>3, FaultFacts, "prune" \in Operations DEF Operations
  <1> QED
    BY <1>2, <1>3

LEMMA Started == ASSUME IInv, sampler # "down" PROVE phase = "up"
  BY DEF IInv, Volatile

LEMMA SamplerStep ==
  ASSUME IInv, Sampling \/ SampleTick \/ PruneTick \/ Close
  PROVE  IInv'
  <1> USE DEF At, settings, samples, service, calls
  <1>0. /\ stored \in 0 .. MaxStored /\ torn \in BOOLEAN /\ closing \in BOOLEAN
        /\ reconfigure \in BOOLEAN /\ failed \subseteq Operations
        /\ sampler \in {"assess", "append"} => stored < MaxStored
        /\ TornIsKnown
    BY DEF IInv, TypeOK, TypeOKSettings
  <1>1. CASE PruneAtStart
    <2>1. CASE closing
      BY <1>0, <1>1, <2>1, QuietStep, Started DEF PruneAtStart, TornIsKnown
    <2>2. CASE ~closing
      BY <1>0, <1>1, <2>2, QuietStep, Started, PruneFacts DEF PruneAtStart, TornIsKnown
    <2> QED
      BY <2>1, <2>2
  <1>2. CASE PassBegins \/ PassRefused \/ PassedOver \/ SampleTick
    BY <1>0, <1>2, QuietStep, Started
       DEF PassBegins, PassRefused, PassedOver, SampleTick, TornIsKnown
  <1>10. CASE TurnComes
    BY <1>0, <1>10, QuietStep, Started DEF TurnComes, TornIsKnown
  <1>3. CASE Assessed \/ NotAssessed
    BY <1>0, <1>3, QuietStep, Started DEF Assessed, NotAssessed, TornIsKnown
  <1>4. CASE AppendSample
    BY <1>0, <1>4, QuietStep, Started, AppendFacts DEF AppendSample, TornIsKnown
  <1>5. CASE AppendFails
    <2>1. torn' \in BOOLEAN /\ stored' = stored
      BY <1>0, <1>5 DEF AppendFails, Torn
    <2>2. failed' \subseteq Operations
      BY <1>0, <1>5, FaultFacts DEF AppendFails, Operations
    <2> QED
      BY <1>0, <1>5, <2>1, <2>2, QuietStep, Started, FaultFacts DEF AppendFails, TornIsKnown
  <1>6. CASE PruneTick
    BY <1>0, <1>6, QuietStep, Started, PruneFacts DEF PruneTick, TornIsKnown
  <1>7. CASE SamplerStops
    BY <1>0, <1>7, QuietStep, Started DEF SamplerStops, TornIsKnown
  <1>9. CASE Reconfigured
    <2>1. ticker' = interval /\ reconfigure' \in BOOLEAN
      BY <1>9 DEF Reconfigured
    <2> QED
      BY <1>0, <1>9, <2>1, QuietStep, Started DEF Reconfigured, TornIsKnown
  <1>8. CASE Close
    BY <1>0, <1>8, QuietStep, Started DEF Close, TornIsKnown
  <1> QED
    BY <1>1, <1>2, <1>3, <1>4, <1>5, <1>6, <1>7, <1>8, <1>9, <1>10
       DEF Sampling, Passing, Assessing, Appending

-----------------------------------------------------------------------------
(* A call is started by a running service, and until it is idle again it     *)
(* saves a policy of ours.                                                   *)
LEMMA CallTypes ==
  ASSUME IInv, NEW c \in Calls, NEW to \in {"idle", "saveRetention", "saveInterval", "prune", "signal"},
         pc' = [pc EXCEPT ![c] = to],
         arg' = arg \/ \E v \in Values : arg' = [arg EXCEPT ![c] = v]
  PROVE  /\ pc' \in [Calls -> {"idle", "saveRetention", "saveInterval", "prune", "signal"}]
         /\ arg' \in [Calls -> Values]
         /\ pc'[c] = to /\ \A d \in Calls \ {c} : pc'[d] = pc[d] /\ arg'[d] = arg[d]
  BY DEF IInv, TypeOK

LEMMA ChangeStep ==
  ASSUME IInv, NEW c \in Calls,
         (\E r \in Retentions : SetRetention(c, r)) \/ (\E i \in Intervals : SetSamplingInterval(c, i))
  PROVE  IInv'
  <1> USE Policies DEF settings, samples, onDisk, store, Goes
  <1>1. ASSUME NEW r \in Retentions, SetRetention(c, r) PROVE IInv'
    <2> USE <1>1 DEF SetRetention
    <2> DEFINE v == [retention |-> r, interval |-> interval]
    <2>1. v \in Values /\ v.retention = r
      BY DEF IInv, TypeOK
    <2>2. arg' = [arg EXCEPT ![c] = v]
      OBVIOUS
    <2> HIDE DEF v
    <2>3. /\ pc' \in [Calls -> {"idle", "saveRetention", "saveInterval", "prune", "signal"}]
          /\ arg' \in [Calls -> Values]
          /\ \A d \in Calls \ {c} : pc'[d] = pc[d] /\ arg'[d] = arg[d]
          /\ pc[c] = "idle" /\ pc'[c] = "saveRetention"
      BY <2>1, <2>2, CallTypes
    <2>4. arg'[c] = v
      BY <2>2 DEF IInv, TypeOK
    <2>5. TypeOK'
      BY <2>3 DEF IInv, TypeOK, TypeOKSettings, Crosses
    <2>6. Volatile' /\ Adopting' /\ Unread' /\ StoreAgrees' /\ TornIsKnown'
      BY DEF IInv, Volatile, Adopting, Unread, StoreAgrees, Loads, TornIsKnown
    <2>7. OffEverywhere'
      BY <2>1, <2>3, <2>4 DEF IInv, OffEverywhere, Saving, Loads, TypeOK
    <2>8. CadenceIsSignalled'
      BY <2>3 DEF IInv, CadenceIsSignalled
    <2>9. v = Policy'
      BY DEF v, Policy
    <2>10. NextLaunchAgrees' /\ SavesPolicy'
      <3>1. Saving(c)' /\ ~NobodySaves'
        BY <2>3 DEF Saving, NobodySaves
      <3>2. \A d \in Calls \ {c} : Saving(d)' = Saving(d)
        BY <2>3 DEF Saving
      <3>3. ~crossed' => \A d \in Calls \ {c} : ~Saving(d)'
        BY <3>2 DEF Crosses
      <3>4. (holder # NoCall => Saving(holder))'
        BY <3>1, <3>2 DEF IInv, SavesPolicy, TypeOK, TypeOKSettings
      <3>5. (unreadable /\ file = Missing /\ {"read", "write"} \cap failed = {}
              => holder # NoCall)'
        BY DEF IInv, SavesPolicy
      <3>6. (~crossed => \A d \in Calls : Saving(d) => /\ arg[d] = Policy
                                                    /\ \A e \in Calls \ {d} : ~Saving(e))'
        BY <2>4, <2>9, <3>3
      <3> QED
        BY <3>1, <3>4, <3>5, <3>6 DEF NextLaunchAgrees, SavesPolicy
    <2> QED
      BY <2>5, <2>6, <2>7, <2>8, <2>10 DEF IInv
  <1>2. ASSUME NEW i \in Intervals, SetSamplingInterval(c, i) PROVE IInv'
    <2> USE <1>2 DEF SetSamplingInterval
    <2> DEFINE v == [retention |-> retention, interval |-> i]
    <2>1. v \in Values /\ v.retention = retention
      BY DEF IInv, TypeOK
    <2>2. arg' = [arg EXCEPT ![c] = v]
      OBVIOUS
    <2> HIDE DEF v
    <2>3. /\ pc' \in [Calls -> {"idle", "saveRetention", "saveInterval", "prune", "signal"}]
          /\ arg' \in [Calls -> Values]
          /\ \A d \in Calls \ {c} : pc'[d] = pc[d] /\ arg'[d] = arg[d]
          /\ pc[c] = "idle" /\ pc'[c] = "saveInterval"
      BY <2>1, <2>2, CallTypes
    <2>4. arg'[c] = v
      BY <2>2 DEF IInv, TypeOK
    <2>5. TypeOK'
      BY <2>3 DEF IInv, TypeOK, TypeOKSettings, Crosses
    <2>6. Volatile' /\ Adopting' /\ Unread' /\ StoreAgrees' /\ TornIsKnown'
      BY DEF IInv, Volatile, Adopting, Unread, StoreAgrees, Loads, TornIsKnown
    <2>7. OffEverywhere'
      BY <2>1, <2>3, <2>4 DEF IInv, OffEverywhere, Saving, Loads, TypeOK
    <2>8. CadenceIsSignalled'
      BY <2>3 DEF IInv, CadenceIsSignalled
    <2>9. v = Policy'
      BY DEF v, Policy
    <2>10. NextLaunchAgrees' /\ SavesPolicy'
      <3>1. Saving(c)' /\ ~NobodySaves'
        BY <2>3 DEF Saving, NobodySaves
      <3>2. \A d \in Calls \ {c} : Saving(d)' = Saving(d)
        BY <2>3 DEF Saving
      <3>3. ~crossed' => \A d \in Calls \ {c} : ~Saving(d)'
        BY <3>2 DEF Crosses
      <3>4. (holder # NoCall => Saving(holder))'
        BY <3>1, <3>2 DEF IInv, SavesPolicy, TypeOK, TypeOKSettings
      <3>5. (unreadable /\ file = Missing /\ {"read", "write"} \cap failed = {}
              => holder # NoCall)'
        BY DEF IInv, SavesPolicy
      <3>6. (~crossed => \A d \in Calls : Saving(d) => /\ arg[d] = Policy
                                                    /\ \A e \in Calls \ {d} : ~Saving(e))'
        BY <2>4, <2>9, <3>3
      <3> QED
        BY <3>1, <3>4, <3>5, <3>6 DEF NextLaunchAgrees, SavesPolicy
    <2> QED
      BY <2>5, <2>6, <2>7, <2>8, <2>10 DEF IInv
  <1> QED
    BY <1>1, <1>2

(* The disk under an unreadable file loses it to a name beside it, and       *)
(* nothing of what the process holds.                                        *)
LEMMA SidelineStep == ASSUME IInv, NEW c \in Calls, SidelineFirst(c) PROVE IInv'
  <1> USE SettingsAssumption, Documents
      DEF samples, service, calls, SidelineFirst, Sideline, MustSideline
  <1>1. failed' \subseteq Operations /\ failed \subseteq failed'
        /\ ("read" \in failed' => "read" \in failed)
    <2>1. failed' = failed \/ failed' = failed \cup {"aside"}
      BY DEF Fault
    <2> QED
      BY <2>1 DEF IInv, TypeOK, TypeOKSettings, Operations
  <1>2. phase = "up"
    BY DEF IInv, Volatile, Saving
  <1>3. file' \in Files /\ (file' = Missing \/ (file' = file /\ "aside" \in failed'))
    <2>1. file' = Missing \/ file' = file
      OBVIOUS
    <2>2. file' = Missing \/ "aside" \in failed'
      BY FaultFacts
    <2>3. file \in Files
      BY DEF IInv, TypeOK, TypeOKSettings
    <2> QED
      BY <2>1, <2>2, <2>3
  <1>4. TypeOK'
    BY <1>1, <1>3 DEF IInv, TypeOK, TypeOKSettings
  <1>5. Volatile' /\ Adopting' /\ Unread'
    BY <1>1, <1>2, <1>3 DEF IInv, Volatile, Adopting, Unread
  <1>6. StoreAgrees'
    BY <1>1, <1>2, <1>3 DEF IInv, StoreAgrees, Unread, Loads, TypeOK, TypeOKSettings
  <1>7. OffEverywhere' /\ CadenceIsSignalled'
    BY <1>2 DEF IInv, OffEverywhere, CadenceIsSignalled, Saving
  <1>8. TornIsKnown'
    BY <1>1 DEF IInv, TornIsKnown
  <1>9. NextLaunchAgrees' /\ SavesPolicy'
    BY <1>1, <1>3 DEF IInv, NextLaunchAgrees, NobodySaves, SavesPolicy, Policy, Saving
  <1> QED
    BY <1>4, <1>5, <1>6, <1>7, <1>8, <1>9 DEF IInv

LEMMA SaveStep == ASSUME IInv, NEW c \in Calls, Save(c) PROVE IInv'
  <1> USE SettingsAssumption, Documents, Policies
      DEF samples, service, onDisk, Save, Replace
  <1>1. /\ arg[c] \in Values /\ phase = "up" /\ sampler # "down"
        /\ SavedTo(c) \in {"prune", "signal"}
        /\ pc[c] = "saveInterval" => SavedTo(c) = "signal"
    BY DEF IInv, TypeOK, Volatile, Saving, SavedTo
  <1>2. /\ pc' \in [Calls -> {"idle", "saveRetention", "saveInterval", "prune", "signal"}]
        /\ pc'[c] = SavedTo(c) /\ \A d \in Calls \ {c} : pc'[d] = pc[d]
    BY <1>1, CallTypes
  <1>3. TypeOK'
    <2>1. off' \in BOOLEAN
      BY DEF IInv, TypeOK
    <2> QED
      BY <1>1, <1>2, <2>1 DEF IInv, TypeOK, TypeOKSettings
  <1>4. Volatile' /\ Adopting' /\ Unread' /\ StoreAgrees'
    BY <1>1 DEF IInv, Volatile, Adopting, Unread, StoreAgrees, Loads
  <1>5. OffEverywhere'
    <2> SUFFICES ASSUME off'
                 PROVE  /\ arg[c].retention = "off" /\ retention = "off"
                        /\ \A d \in Calls \ {c} : Saving(d)' => arg[d].retention = "off"
      BY <1>1, <1>2 DEF OffEverywhere, Saving, Loads
    <2>1. CASE off
      BY <1>1, <1>2, <2>1 DEF IInv, OffEverywhere, Saving
    <2>2. CASE ~off
      BY <1>2, <2>2 DEF Saving
    <2> QED
      BY <2>1, <2>2
  <1>6. TornIsKnown' /\ CadenceIsSignalled'
    BY <1>1, <1>2 DEF IInv, TornIsKnown, CadenceIsSignalled, Saving
  <1>7. /\ Loads' = arg[c] /\ holder' = NoCall /\ ~unreadable' /\ arg' = arg
        /\ Policy' = Policy /\ crossed' = crossed
    BY <1>1 DEF Loads, Policy
  <1>8. \A d \in Calls : Saving(d)' <=> d # c /\ Saving(d)
    BY <1>1, <1>2 DEF Saving
  <1>9. NextLaunchAgrees' /\ SavesPolicy'
    <2>1. ~crossed => arg[c] = Policy
      BY DEF IInv, SavesPolicy
    <2>2. SavesPolicy'
      BY <1>7, <1>8 DEF IInv, SavesPolicy
    <2>3. NextLaunchAgrees'
      BY <1>7, <2>1 DEF NextLaunchAgrees
    <2> QED
      BY <2>2, <2>3
  <1> QED
    BY <1>3, <1>4, <1>5, <1>6, <1>9 DEF IInv

LEMMA SaveFailsStep == ASSUME IInv, NEW c \in Calls, SaveFails(c) PROVE IInv'
  <1> USE SettingsAssumption, Documents, Policies
      DEF samples, service, onDisk, store, SaveFails, ReplaceFails, Refused
  <1>1. /\ phase = "up" /\ sampler # "down"
        /\ SavedTo(c) \in {"prune", "signal"}
        /\ pc[c] = "saveInterval" => SavedTo(c) = "signal"
    BY DEF IInv, TypeOK, Volatile, Saving, SavedTo
  <1>2. /\ pc' \in [Calls -> {"idle", "saveRetention", "saveInterval", "prune", "signal"}]
        /\ pc'[c] = SavedTo(c) /\ \A d \in Calls \ {c} : pc'[d] = pc[d]
    BY <1>1, CallTypes
  <1>3. failed' \subseteq Operations /\ failed \subseteq failed'
        /\ ("read" \in failed' => "read" \in failed)
    <2>1. failed' = failed \/ failed' = failed \cup {"write"}
      BY DEF Fault
    <2> QED
      BY <2>1 DEF IInv, TypeOK, TypeOKSettings, Operations
  <1>4. /\ UNCHANGED <<file, legacy, phase, mem, unreadable, future, sidelined>>
        /\ holder' \in {NoCall, holder}
    OBVIOUS
  <1>5. TypeOK'
    BY <1>2, <1>3, <1>4 DEF IInv, TypeOK, TypeOKSettings
  <1>6. Volatile' /\ Adopting' /\ Unread' /\ StoreAgrees'
    BY <1>1, <1>3, <1>4 DEF IInv, Volatile, Adopting, Unread, StoreAgrees, Loads
  <1>7. OffEverywhere' /\ CadenceIsSignalled'
    BY <1>1, <1>2, <1>4 DEF IInv, OffEverywhere, CadenceIsSignalled, Saving, Loads
  <1>8. TornIsKnown'
    BY <1>3 DEF IInv, TornIsKnown
  <1>9. \A d \in Calls : Saving(d)' <=> d # c /\ Saving(d)
    BY <1>1, <1>2 DEF Saving
  <1>10. "write" \in failed' \/ (future /\ holder = NoCall /\ UNCHANGED <<holder, failed>>)
    BY FaultFacts
  <1>11. NextLaunchAgrees'
    BY <1>4, <1>10 DEF NextLaunchAgrees
  <1>12. SavesPolicy'
    <2>1. holder' = NoCall
      BY <1>10
    <2>2. unreadable' /\ file' = Missing /\ {"read", "write"} \cap failed' = {} => holder' # NoCall
      BY <1>4, <1>10 DEF IInv, SavesPolicy
    <2>3. ASSUME ~crossed' PROVE \A d \in Calls : Saving(d)' => arg'[d] = Policy' /\ ~Saving(c)
      BY <2>3, <1>9 DEF IInv, SavesPolicy, Policy
    <2> QED
      BY <1>9, <2>1, <2>2, <2>3 DEF SavesPolicy, IInv, Policy
  <1> QED
    BY <1>5, <1>6, <1>7, <1>8, <1>11, <1>12 DEF IInv

(* The end of a call: the prune that makes the change of the retention true  *)
(* of the disk, or the signal that makes the cadence the ticker's.           *)
LEMMA CallEndStep == ASSUME IInv, NEW c \in Calls, PruneNow(c) \/ Signal(c) PROVE IInv'
  <1> USE DEF settings, samples, service, onDisk, store, Goes, PruneNow, Signal
  <1>1. Defaults \in Values /\ phase = "up" /\ sampler # "down"
    BY Documents DEF IInv, Volatile
  <1>2. /\ pc' \in [Calls -> {"idle", "saveRetention", "saveInterval", "prune", "signal"}]
        /\ arg' \in [Calls -> Values]
        /\ pc'[c] = "idle"
        /\ \A d \in Calls \ {c} : pc'[d] = pc[d] /\ arg'[d] = arg[d]
    BY <1>1, CallTypes
  <1>5. \A d \in Calls : /\ Saving(d)' <=> Saving(d)
                         /\ Saving(d) => arg'[d] = arg[d]
    BY <1>2 DEF Saving
  <1>6. ASSUME {"read", "write"} \cap failed' = {} => {"read", "write"} \cap failed = {}
        PROVE  NextLaunchAgrees' /\ SavesPolicy'
    <2>1. /\ UNCHANGED <<sampler, future, file, legacy, unreadable, holder, crossed>>
          /\ Policy' = Policy /\ Loads' = Loads
      BY DEF Policy, Loads
    <2>2. NobodySaves' <=> NobodySaves
      BY <1>5 DEF NobodySaves
    <2>3. NextLaunchAgrees'
      BY <1>6, <2>1, <2>2 DEF IInv, NextLaunchAgrees
    <2>4. (holder # NoCall => Saving(holder))'
      BY <1>5, <2>1 DEF IInv, SavesPolicy, TypeOK, TypeOKSettings
    <2>5. (unreadable /\ file = Missing /\ {"read", "write"} \cap failed = {}
             => holder # NoCall)'
      BY <1>6, <2>1 DEF IInv, SavesPolicy
    <2>6. (~crossed => \A d \in Calls : Saving(d) => /\ arg[d] = Policy
                                                  /\ \A e \in Calls \ {d} : ~Saving(e))'
      <3> SUFFICES ASSUME ~crossed', NEW d \in Calls, Saving(d)'
                   PROVE  arg'[d] = Policy' /\ \A e \in Calls \ {d} : ~Saving(e)'
        OBVIOUS
      <3>1. Saving(d) /\ ~crossed
        BY <1>5, <2>1
      <3>2. arg[d] = Policy /\ \A e \in Calls \ {d} : ~Saving(e)
        BY <3>1 DEF IInv, SavesPolicy
      <3> QED
        BY <1>5, <2>1, <3>1, <3>2
    <2> QED
      BY <2>3, <2>4, <2>5, <2>6 DEF SavesPolicy
  <1>3. CASE PruneNow(c)
    <2> USE <1>3
    <2>1. Prune(arg[c].retention)
      OBVIOUS
    <2>2. /\ stored' \in 0 .. MaxStored /\ stored' <= stored /\ torn' \in BOOLEAN
          /\ failed \subseteq failed' /\ failed' \subseteq Operations
          /\ "read" \in failed' => "read" \in failed
          /\ torn' => torn /\ "prune" \in failed'
      BY <2>1, PruneFacts DEF IInv, TypeOK, TypeOKSettings
    <2>3. TypeOK'
      BY <1>2, <2>2 DEF IInv, TypeOK, TypeOKSettings
    <2>4. Volatile' /\ Adopting' /\ Unread' /\ StoreAgrees'
      BY <1>1, <2>2 DEF IInv, Volatile, Adopting, Unread, StoreAgrees, Loads
    <2>5. OffEverywhere' /\ CadenceIsSignalled'
      BY <1>1, <1>2 DEF IInv, OffEverywhere, CadenceIsSignalled, Saving, Loads
    <2>6. TornIsKnown'
      BY <2>2 DEF TornIsKnown
    <2>7. (sampler \in {"assess", "append"} => stored < MaxStored)'
      BY <2>2, HistoryAssumption DEF IInv, TypeOK
    <2>8. {"read", "write"} \cap failed' = {} => {"read", "write"} \cap failed = {}
      BY <2>2
    <2>9. NextLaunchAgrees' /\ SavesPolicy'
      BY <1>6, <2>8 DEF calls
    <2> QED
      BY <2>3, <2>4, <2>5, <2>6, <2>7, <2>9 DEF IInv
  <1>4. CASE Signal(c)
    <2> USE <1>4
    <2>1. TypeOK'
      BY <1>2 DEF IInv, TypeOK, TypeOKSettings
    <2>2. Volatile' /\ Adopting' /\ Unread' /\ StoreAgrees' /\ TornIsKnown'
      BY <1>1 DEF IInv, Volatile, Adopting, Unread, StoreAgrees, Loads, TornIsKnown
    <2>3. OffEverywhere' /\ CadenceIsSignalled'
      BY <1>1, <1>2 DEF IInv, OffEverywhere, CadenceIsSignalled, Saving, Loads
    <2>4. NextLaunchAgrees' /\ SavesPolicy'
      BY <1>6
    <2> QED
      BY <2>1, <2>2, <2>3, <2>4 DEF IInv
  <1> QED
    BY <1>3, <1>4

LEMMA StutterStep == ASSUME IInv, UNCHANGED vars PROVE IInv'
  <1> USE DEF IInv, vars, settings, samples, service, calls, onDisk, store
  <1>1. TypeOK' /\ Volatile' /\ Adopting' /\ Unread'
    BY DEF TypeOK, TypeOKSettings, Volatile, Adopting, Unread
  <1>2. StoreAgrees' /\ OffEverywhere' /\ TornIsKnown' /\ CadenceIsSignalled'
    BY DEF StoreAgrees, OffEverywhere, TornIsKnown, CadenceIsSignalled, Saving, Loads
  <1>3. NextLaunchAgrees' /\ SavesPolicy'
    BY DEF NextLaunchAgrees, NobodySaves, SavesPolicy, Policy, Saving, Loads
  <1> QED
    BY <1>1, <1>2, <1>3

LEMMA IInvNext == IInv /\ [Next]_vars => IInv'
  <1> SUFFICES ASSUME IInv, [Next]_vars PROVE IInv'
    OBVIOUS
  <1>1. ASSUME NEW c \in Calls, Calling(c) PROVE IInv'
    BY <1>1, ChangeStep, SidelineStep, SaveStep, SaveFailsStep, CallEndStep DEF Calling
  <1> QED
    BY <1>1, LaunchStep, AdoptStep, StartStep, CrashStep, EditStep, SamplerStep, StutterStep
       DEF Next

THEOREM Invariance == Spec => []IInv
  BY IInvInit, IInvNext, PTL DEF Spec

(* The variables of History keep their types.                                *)
THEOREM TypeCorrect == Spec => []TypeOK
  <1>1. IInv => TypeOK
    BY DEF IInv
  <1> QED
    BY Invariance, <1>1, PTL

(* What the settings store answers is what the next launch reads, wherever   *)
(* this one ends and whatever fails but a read (settings/store.go, adopt,    *)
(* Update).                                                                  *)
THEOREM StoresAgree == Spec => []StoreAgrees
  <1>1. IInv => StoreAgrees
    BY DEF IInv
  <1> QED
    BY Invariance, <1>1, PTL

(* The retention and the cadence the service acts on are those its next      *)
(* launch reads, once nobody is saving, if what was saved could be and no    *)
(* two changes crossed (history.go, SetRetention and SetSamplingInterval).   *)
THEOREM LaunchesAgree == Spec => []NextLaunchAgrees
  <1>1. IInv => NextLaunchAgrees
    BY DEF IInv
  <1> QED
    BY Invariance, <1>1, PTL

(* A change of the cadence is never lost between the window and the ticker.  *)
THEOREM CadenceIsKept == Spec => []CadenceIsSignalled
  <1>1. IInv => CadenceIsSignalled
    BY DEF IInv
  <1> QED
    BY Invariance, <1>1, PTL

-----------------------------------------------------------------------------
(* A file this run could not read is replaced only by way of the rename that *)
(* sets it aside, or after that rename failed.                               *)
LEMMA UnreadableStep ==
  ASSUME IInv, [Next]_vars, unreadable, phase = "up", file.how # "missing", file' # file
  PROVE  file' = Missing \/ "aside" \in failed
  <1> USE DEF settings, onDisk, store, vars
  <1>1. CASE Launch \/ AdoptOld \/ Start \/ Crash \/ Edit
    BY <1>1 DEF Launch, Open, OpenMisread, AdoptOld, Adopt, RemoveLegacy, Start, Crash, Ended,
                Edit, EditedByHand
  <1>2. CASE Sampling \/ SampleTick \/ PruneTick \/ Close
    BY <1>2 DEF Sampling, Passing, Assessing, Appending, PruneAtStart, PassBegins, PassRefused,
                TurnComes, PassedOver, Assessed, NotAssessed, AppendSample, AppendFails, Reconfigured, SamplerStops,
                SampleTick, PruneTick, Close
  <1>3. ASSUME NEW c \in Calls, Calling(c) PROVE file' = Missing \/ "aside" \in failed
    <2>1. CASE SidelineFirst(c)
      BY <2>1 DEF SidelineFirst, Sideline
    <2>2. CASE Save(c)
      <3>1. unreadable /\ ~sidelined => holder = c
        BY <2>2 DEF Save, Replace, Saves, MustSideline
      <3>2. holder = c => sidelined
        BY SettingsAssumption DEF IInv, Unread
      <3>3. sidelined => "aside" \in failed
        BY DEF IInv, Unread
      <3> QED
        BY <3>1, <3>2, <3>3
    <2>3. ~(SidelineFirst(c) \/ Save(c)) => UNCHANGED file
      BY <1>3 DEF Calling, SetRetention, SetSamplingInterval, SaveFails, ReplaceFails, Refused,
                  PruneNow, Signal
    <2> QED
      BY <2>1, <2>2, <2>3
  <1> QED
    BY <1>1, <1>2, <1>3 DEF Next

THEOREM EvidenceIsKept == Spec => UnreadableIsSetAside
  <1>1. IInv /\ [Next]_vars => [unreadable /\ phase = "up" /\ file.how # "missing" /\ file' # file
                                 => file' = Missing \/ "aside" \in failed]_vars
    BY UnreadableStep
  <1> QED
    BY Invariance, <1>1, PTL DEF Spec, UnreadableIsSetAside

(* Recording that was turned off begins nowhere: not after a crash, an       *)
(* upgrade, a failed save or a change of the other half of the policy.       *)
THEOREM OffIsObeyed == Spec => OffStaysOff
  <1>1. IInv /\ [Next]_vars => [PassBegins => ~off]_vars
    BY DEF IInv, OffEverywhere, PassBegins, At
  <1> QED
    BY Invariance, <1>1, PTL DEF Spec, OffStaysOff

(* No append joins a torn line, but for a fault of this very run.            *)
THEOREM SamplesAreWhole == Spec => CrashCostsItsOwnSample
  <1>1. IInv /\ [Next]_vars
          => [AppendSample => stored' = stored + 1 \/ {"append", "prune"} \cap failed # {}]_vars
    <2> SUFFICES ASSUME IInv, AppendSample
                 PROVE  stored' = stored + 1 \/ {"append", "prune"} \cap failed # {}
      OBVIOUS
    <2>1. TornIsKnown /\ sampler = "append"
      BY DEF IInv, AppendSample, At
    <2>2. torn \/ stored' = stored + 1
      BY DEF AppendSample, Appended, IInv, TypeOK
    <2> QED
      BY <2>1, <2>2 DEF TornIsKnown
  <1> QED
    BY Invariance, <1>1, PTL DEF Spec, CrashCostsItsOwnSample

-----------------------------------------------------------------------------
(* Liveness. tlapm cannot expand ENABLED, so Fair is FairSpec with the guard *)
(* of each step written where weak and strong fairness have ENABLED of it:   *)
(* the sampler's goroutine leaves every place but its select, and there a    *)
(* prune that has something to take is, if it goes on having that, made at   *)
(* some tick.                                                                *)
PassDue == sampler \in {"start", "pass", "turn"}
AssessDue == sampler = "assess"
AppendDue == sampler = "append"
PruneDue == sampler = "select" /\ LeftOver

Fair ==
    /\ Spec
    /\ []<>~PassDue \/ []<><<Passing>>_vars
    /\ []<>~AssessDue \/ []<><<Assessing>>_vars
    /\ []<>~AppendDue \/ []<><<Appending>>_vars
    /\ <>[]~PruneDue \/ []<><<PruneTakes>>_vars

(* The sampler is done only when it was told to stop.                        *)
LEMMA DoneIsClosing == Spec => [](sampler = "done" => closing)
  <1> DEFINE Told == sampler = "done" => closing
  <1>1. Init => Told
    BY DEF Init
  <1>2. Told /\ [Next]_vars => Told'
    BY DEF Next, vars, service, calls, samples, settings, onDisk, store, Launch, Open,
       OpenMisread, AdoptOld, Adopt, RemoveLegacy, Start, Crash, Edit, Sampling, Passing,
       Assessing, Appending, At, PruneAtStart, PassBegins, PassRefused, TurnComes,
       PassedOver, Assessed, NotAssessed,
       AppendSample, AppendFails, SampleTick, PruneTick, Reconfigured, SamplerStops, Close,
       Calling, SetRetention, SetSamplingInterval, SidelineFirst, Save, SaveFails, PruneNow,
       Signal
  <1> QED
    BY <1>1, <1>2, PTL DEF Spec

(* What is left over while recording is off waits for the sampler's prune:   *)
(* nothing else moves the sampler from its select but a pass, and a pass     *)
(* comes back to it.                                                         *)
LEMMA LeftOverStep ==
  ASSUME IInv, LeftOver, sampler # "down", [Next]_vars
  PROVE  \/ ~LeftOver' \/ sampler' = "down"
         \/ /\ LeftOver' /\ sampler' = sampler /\ ~PruneTakes
            /\ ~Passing /\ ~Assessing /\ ~Appending
         \/ LeftOver' /\ sampler \in {"start", "select"} /\ sampler' = "pass" /\ ~PruneTakes
         \/ LeftOver' /\ sampler = "pass" /\ sampler' \in {"turn", "select"}
         \/ LeftOver' /\ sampler = "turn" /\ sampler' \in {"assess", "select"}
         \/ LeftOver' /\ sampler = "assess" /\ sampler' \in {"append", "select"}
         \/ LeftOver' /\ sampler = "append" /\ sampler' = "select"
  <1>1. CASE Sampling \/ SampleTick
    BY <1>1 DEF Sampling, SampleTick, At, PruneAtStart, PassBegins, PassRefused, TurnComes,
       PassedOver, Assessed,
                NotAssessed, AppendSample, AppendFails, Reconfigured, SamplerStops, LeftOver,
                PruneTakes, PruneTick, Passing, Assessing, Appending, service
  <1>2. CASE PruneTick
    <2>1. CASE PruneTakes
      BY <2>1 DEF PruneTakes, PruneTick, Pruned, LeftOver, service
    <2>2. CASE ~PruneTakes
      BY <1>2, <2>2 DEF PruneTick, At, LeftOver, Passing, Assessing, Appending, PruneAtStart,
                        PassBegins, PassRefused, TurnComes, PassedOver, Assessed, NotAssessed,
                        AppendSample, AppendFails
    <2> QED
      BY <2>1, <2>2
  <1>3. ASSUME sampler' = sampler, ~Sampling, ~PruneTick
        PROVE  ~LeftOver' \/ (LeftOver' /\ ~PruneTakes /\ ~Passing /\ ~Assessing /\ ~Appending)
    BY <1>3 DEF Sampling, PruneTakes, Passing, Assessing, Appending
  <1>4. ASSUME Launch \/ AdoptOld \/ Edit PROVE sampler' = sampler
    BY <1>4 DEF Launch, AdoptOld, Edit
  <1>5. CASE Start \/ Crash \/ Close
    BY <1>5 DEF Start, Crash, Close, LeftOver
  <1>6. ASSUME NEW c \in Calls, Calling(c) PROVE sampler' = sampler
    BY <1>6 DEF Calling, SetRetention, SetSamplingInterval, SidelineFirst, Save, SaveFails,
                PruneNow, Signal
  <1>7. ASSUME UNCHANGED vars PROVE sampler' = sampler
    BY <1>7 DEF vars
  <1> QED
    BY <1>1, <1>2, <1>3, <1>4, <1>5, <1>6, <1>7 DEF Next

(* Recording turned off empties the disk (history.go, SetRetention and run): *)
(* what a sample in flight appended after the prune, what a fault left, a    *)
(* torn line too, is taken by a later tick, unless recording is turned on,   *)
(* or the process ends.                                                      *)
THEOREM OffEmpties == Fair => OffEmptiesTheDisk
  <1> DEFINE Over == ~LeftOver \/ sampler = "down"
             Starting == LeftOver /\ At("start")
             Passes == LeftOver /\ At("pass")
             Turns == LeftOver /\ At("turn")
             Assesses == LeftOver /\ At("assess")
             Appends == LeftOver /\ At("append")
             Selecting == LeftOver /\ At("select")
             Stops == sampler = "done" => closing
  <1>1. /\ Starting \/ Passes \/ Turns => PassDue
        /\ Assesses => AssessDue
        /\ Appends => AppendDue
        /\ Selecting => PruneDue
    BY DEF PassDue, AssessDue, AppendDue, PruneDue, At
  <1>2. IInv /\ Stops => Over \/ Starting \/ Passes \/ Turns \/ Assesses \/ Appends \/ Selecting
    BY DEF IInv, TypeOK, At, LeftOver
  <1>3. /\ IInv /\ Starting /\ [Next]_vars => Starting' \/ Passes' \/ Over'
        /\ IInv /\ Passes /\ [Next]_vars => Passes' \/ Turns' \/ Selecting' \/ Over'
        /\ IInv /\ Turns /\ [Next]_vars => Turns' \/ Assesses' \/ Selecting' \/ Over'
        /\ IInv /\ Assesses /\ [Next]_vars => Assesses' \/ Appends' \/ Selecting' \/ Over'
        /\ IInv /\ Appends /\ [Next]_vars => Appends' \/ Selecting' \/ Over'
        /\ IInv /\ Selecting /\ [Next]_vars => Selecting' \/ Passes' \/ Over'
    BY LeftOverStep DEF At
  <1>4. /\ IInv /\ Starting /\ [Next]_vars /\ <<Passing>>_vars => ~Starting'
        /\ IInv /\ Passes /\ [Next]_vars /\ <<Passing>>_vars => ~Passes'
        /\ IInv /\ Turns /\ [Next]_vars /\ <<Passing>>_vars => ~Turns'
        /\ IInv /\ Assesses /\ [Next]_vars /\ <<Assessing>>_vars => ~Assesses'
        /\ IInv /\ Appends /\ [Next]_vars /\ <<Appending>>_vars => ~Appends'
        /\ IInv /\ (Starting \/ Passes \/ Turns \/ Assesses \/ Appends \/ Selecting) /\ [Next]_vars
             /\ <<PruneTakes>>_vars => Over'
    BY LeftOverStep DEF At, PruneTakes, PruneTick
  <1> HIDE DEF Over, Starting, Passes, Turns, Assesses, Appends, Selecting, Stops
  <1>5. Spec => []Stops
    BY DoneIsClosing DEF Stops
  <1>6. Fair => (TRUE ~> Over)
    BY Invariance, <1>1, <1>2, <1>3, <1>4, <1>5, PTL DEF Fair, Spec
  <1>7. IInv /\ Over => (stored = 0 /\ ~torn) \/ retention = "on" \/ closing \/ sampler = "down"
    BY DEF Over, LeftOver, IInv, TypeOK, Retentions
  <1> QED
    BY <1>6, <1>7, Invariance, PTL DEF Fair, OffEmptiesTheDisk
=============================================================================
