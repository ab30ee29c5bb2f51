-------------------------- MODULE AgentStateProofs --------------------------
(***************************************************************************)
(* What the agent keeps: the key and the endpoint host it is registered    *)
(* with, the state file a restart loads, and the position in the ring that *)
(* prima.cpp is started with and the kind of readiness report depends on.  *)
(***************************************************************************)
EXTENDS AgentProofs

USE DEF WorkerIds, NoWorker, NoKey, MaybeCluster

-----------------------------------------------------------------------------
(* Worker records *)

\* A record is created under an id no state can name yet.
LEMMA RecordsAreKept ==
  ASSUME TypeInv, NEW key, CreateRecord(key), NEW w \in 0..lastWorker
  PROVE  w \in 0..lastWorker' /\ (w \in WorkerIds => registry'[w] = registry[w])
<1>1. lastWorker \in Nat /\ w # NewWorker /\ NewWorker = lastWorker + 1
  BY DEF TypeInv, TypeOK, ServerTypeOK, NewWorker
<1> QED
  BY <1>1 DEF CreateRecord, TypeInv, TypeOK, ServerTypeOK

\* What the control plane does on its own changes neither key nor host.
LEMMA ServerKeepsIdentities ==
  ASSUME TypeInv, ServerStep, NEW v \in WorkerIds, registry'[v] # NoRecord
  PROVE  /\ registry[v] # NoRecord
         /\ registry'[v].key = registry[v].key /\ registry'[v].host = registry[v].host
<1>1. registry \in [WorkerIds -> Records \cup {NoRecord}]
  BY DEF TypeInv, TypeOK, ServerTypeOK
<1>2. ASSUME NEW w \in WorkerIds, NEW c, Known(w),
             registry' = [registry EXCEPT ![w].cluster = c]
      PROVE  /\ registry[v] # NoRecord
             /\ registry'[v].key = registry[v].key /\ registry'[v].host = registry[v].host
  BY <1>1, <1>2 DEF Known, Records
<1>3. ASSUME NEW w \in WorkerIds, RevokeWorker(w)
      PROVE  registry[v] # NoRecord /\ registry'[v] = registry[v]
  BY <1>1, <1>3 DEF RevokeWorker
<1>4. ASSUME NEW w \in WorkerIds, DissolveCluster(w) PROVE Known(w)
  BY <1>4 DEF DissolveCluster, ClusterOf
<1> QED
  BY <1>2, <1>3, <1>4 DEF ServerStep, FormCluster, DissolveCluster

-----------------------------------------------------------------------------
(* The key *)

\* A remembered worker id was handed out before, so a new record is not its own.
HasKey(s) ==
    /\ s.worker \in 0..lastWorker
    /\ Known(s.worker) => registry[s.worker].key = s.key
KeyInv == HasKey(mem) /\ HasKey(disk)

\* What a step does to the identity a state names, when it creates no record.
SameIdentity(s, t) == s.worker = NoWorker \/ (s.worker = t.worker /\ s.key = t.key)
IdentityKept ==
    /\ UNCHANGED <<registry, lastWorker>>
    /\ SameIdentity(mem', mem) \/ SameIdentity(mem', disk)
    /\ SameIdentity(disk', mem) \/ SameIdentity(disk', disk)

LEMMA KeptIdentityHasKey ==
  ASSUME TypeInv, KeyInv, IdentityKept PROVE KeyInv'
<1>1. NoWorker \notin WorkerIds /\ NoWorker \in 0..lastWorker
  BY BoundsAssumption DEF TypeInv, TypeOK, ServerTypeOK
<1>2. HasKey(mem)'
  BY <1>1 DEF IdentityKept, SameIdentity, KeyInv, HasKey, Known
<1>3. HasKey(disk)'
  BY <1>1 DEF IdentityKept, SameIdentity, KeyInv, HasKey, Known
<1> QED
  BY <1>2, <1>3 DEF KeyInv

LEMMA NewRecordKeepsKeys ==
  ASSUME TypeInv, KeyInv, NEW key, CreateRecord(key), UNCHANGED disk
  PROVE  HasKey(disk)'
  BY RecordsAreKept DEF KeyInv, HasKey, Known

LEMMA KeyInvStep == ASSUME TypeInv, KeyInv, Next PROVE KeyInv'
<1> USE DEF serverVars, chanVars, taskVars, osVars
<1>0. mem \in AgentState /\ disk \in AgentState
  BY DEF TypeInv, TypeOK, StateTypeOK
<1>1. CASE ServerStep
  <2>1. UNCHANGED <<mem, disk, lastWorker>>
    BY <1>1 DEF ServerStep, FormCluster, DissolveCluster, RevokeWorker
  <2>2. \A v \in WorkerIds : registry'[v] # NoRecord =>
            registry[v] # NoRecord /\ registry'[v].key = registry[v].key
    BY <1>1, ServerKeepsIdentities
  <2> QED
    BY <2>1, <2>2 DEF KeyInv, HasKey, Known
<1>2. CASE MachineStep
  <2>1. IdentityKept
    BY <1>2 DEF IdentityKept, SameIdentity, MachineStep, MoveHost, PrimaExits, Crash, CrashWhileSaving,
                Killed, ProcessEnds, Fresh
  <2> QED
    BY <2>1, KeptIdentityHasKey
<1>3. CASE Register
  <2> USE <1>3 DEF Register
  <2>1. HasKey(disk)'
    BY UNCHANGED disk, NewRecordKeepsKeys
  <2>2. NewWorker \in WorkerIds /\ lastWorker' = NewWorker /\ lastWorker \in Nat
    BY BoundsAssumption DEF CreateRecord, NewWorker, TypeInv, TypeOK, ServerTypeOK
  <2>3. registry'[NewWorker].key = RegistrationKey
    BY <2>2 DEF CreateRecord, TypeInv, TypeOK, ServerTypeOK
  <2>4. mem'.worker = NewWorker /\ mem'.key = RegistrationKey
    BY <1>0 DEF AgentState
  <2>5. HasKey(mem)'
    BY <2>2, <2>3, <2>4 DEF HasKey
  <2> QED
    BY <2>1, <2>5 DEF KeyInv
<1>4. CASE RegisterFails
  <2>1. mem' = mem /\ disk' = disk
    BY <1>4 DEF RegisterFails, StopAgent
  <2>2. CASE UNCHANGED serverVars
    BY <2>1, <2>2, KeptIdentityHasKey DEF IdentityKept, SameIdentity
  <2>3. CASE CreateRecord(RegistrationKey)
    BY <2>1, <2>3, RecordsAreKept DEF KeyInv, HasKey, Known
  <2> QED
    BY <1>4, <2>2, <2>3 DEF RegisterFails
<1>5. CASE StartupStep /\ ~Register /\ ~RegisterFails
  <2>1. IdentityKept
    BY <1>0, <1>5
       DEF IdentityKept, SameIdentity, StartupStep, Start, EndpointChanged, WorkerStillValid,
           WorkerNotConfirmed, Deregistered, StampAndSave, RecoverAssigned,
           RecoverUnassigned, RecoverFails, AgentState
  <2> QED
    BY <2>1, KeptIdentityHasKey
<1>6. CASE HandlerStep
  <2>1. UNCHANGED <<registry, lastWorker>> /\ disk' \in {disk, mem}
    BY <1>6
       DEF HandlerStep, FetchConfig, FetchConfigFails, WgUp, WgUpFails, StopAgent, Launch,
           LaunchFails, UndoTunnel, WorkerReports, SaveAssigned, WgDown, StopPrima,
           StopPrimaFails, Save, StopDown, StopKill
  <2>2. SameIdentity(mem', mem)
    <3>1. CASE FetchConfig \/ UndoTunnel \/ StopPrima
      BY <1>0, <3>1 DEF FetchConfig, UndoTunnel, StopPrima, Waitlisted, SameIdentity, AgentState
    <3>2. CASE StopKill
      BY <3>2 DEF StopKill, ProcessEnds, Fresh, SameIdentity
    <3>3. CASE UNCHANGED mem
      BY <3>3 DEF SameIdentity
    <3> QED
      BY <1>6, <3>1, <3>2, <3>3
         DEF HandlerStep, FetchConfigFails, WgUp, WgUpFails, StopAgent, Launch, LaunchFails,
             WorkerReports, SaveAssigned, WgDown, StopPrimaFails, Save, StopDown
  <2>3. IdentityKept
    BY <2>1, <2>2 DEF IdentityKept, SameIdentity
  <2> QED
    BY <2>3, KeptIdentityHasKey
<1>7. CASE RestingStep
  <2>1. UNCHANGED <<registry, lastWorker, disk>>
    BY <1>7
       DEF RestingStep, HandleFrame, HandleAssigned, HandleDissolved, MonitorStep,
           MonitorSends, MonitorReports, BeatStep, Heartbeat, HeartbeatFails, Stop, StopAgent,
           Connect, Disconnect, RelayMonitorEnds
  <2>2. SameIdentity(mem', mem)
    <3>1. CASE HandleFrame \/ Heartbeat
      BY <1>0, <3>1 DEF HandleFrame, HandleAssigned, HandleDissolved, Heartbeat, SameIdentity,
                        AgentState
    <3>2. CASE UNCHANGED mem
      BY <3>2 DEF SameIdentity
    <3> QED
      BY <1>7, <3>1, <3>2
         DEF RestingStep, MonitorStep, MonitorSends, MonitorReports, BeatStep, HeartbeatFails,
             Stop, StopAgent, Connect, Disconnect, RelayMonitorEnds
  <2>3. IdentityKept
    BY <2>1, <2>2 DEF IdentityKept, SameIdentity
  <2> QED
    BY <2>3, KeptIdentityHasKey
<1> QED
  BY <1>1, <1>2, <1>3, <1>4, <1>5, <1>6, <1>7 DEF Next, AgentStep, RestingStep

LEMMA KeyInvariant == Spec => []KeyInv
<1>1. Init => KeyInv
  BY BoundsAssumption DEF Init, KeyInv, HasKey, Known, Fresh
<1>2. TypeInv /\ KeyInv /\ [Next]_vars => KeyInv'
  BY KeyInvStep DEF vars, serverVars, KeyInv, HasKey, Known
<1> QED
  BY <1>1, <1>2, TypeInvariant, PTL DEF Spec

\* The agent never renders an interface with a key other than the one the
\* control plane hands to its peers, and never persists one, however it is
\* killed or re-registered (agent.py:157).
THEOREM RegisteredKeyIsUsed == Spec => []KeyIsRegistered
<1>1. KeyInv => KeyIsRegistered
  BY DEF KeyInv, HasKey, KeyIsRegistered
<1> QED
  BY <1>1, KeyInvariant, PTL

-----------------------------------------------------------------------------
(* The state file *)

\* A restart would load what the agent believes, or derive what is missing: the
\* position in the ring of its cluster.
SameState ==
    \/ disk = mem
    \/ /\ disk.pos = NoRank /\ disk.cluster \in Clusters
       /\ mem = [disk EXCEPT !.pos = Rank[disk.cluster]]

\* Calls in which the agent has changed nothing else since its last load or save.
\* A bring-up during startup is not one of them: its save comes after it.
PersistInv ==
    /\ pc \in {"ensure", "recover", "beat", "idle", "tearDown", "kill"} => SameState
    /\ pc \in BringingUp /\ ~booting => SameState

\* Deriving a position is deriving the one the state file lacks.
LEMMA DerivingKeepsState ==
  ASSUME TypeInv, FetchConfig, SameState PROVE SameState'
<1>0. mem \in AgentState /\ disk \in AgentState /\ disk' = disk
  BY DEF TypeInv, TypeOK, StateTypeOK, FetchConfig
<1>1. mem' = [mem EXCEPT !.pos = RingPosition] /\ mem.cluster \in Clusters
  BY <1>0 DEF FetchConfig, MemberOf, AgentState
<1>2. CASE mem.pos # NoRank
  <2>1. mem' = [mem EXCEPT !.pos = mem.pos]
    BY <1>1, <1>2 DEF RingPosition
  <2>2. mem' = mem
    BY <1>0, <2>1 DEF AgentState
  <2> QED
    BY <1>0, <2>2 DEF SameState
<1>3. CASE mem.pos = NoRank
  <2>1. disk = mem
    <3>1. ASSUME disk.cluster \in Clusters, mem = [disk EXCEPT !.pos = Rank[disk.cluster]]
          PROVE  FALSE
      <4>1. mem.pos = Rank[disk.cluster]
        BY <1>0, <3>1 DEF AgentState
      <4> QED
        BY <1>3, <3>1, <4>1, RankAssumption
    <3> QED
      BY <3>1 DEF SameState
  <2>2. mem' = [disk EXCEPT !.pos = Rank[disk.cluster]]
    BY <1>1, <1>3, <2>1 DEF RingPosition
  <2> QED
    BY <1>0, <1>1, <1>3, <2>1, <2>2 DEF SameState
<1> QED
  BY <1>2, <1>3

LEMMA PersistInvStep == ASSUME TypeInv, LoopInv, PersistInv, Next PROVE PersistInv'
<1> USE DEF PersistInv, LoopInv, Starting, BringingUp, Ended,
            serverVars, chanVars, taskVars, osVars
<1>a. disk' = mem' => SameState'
  BY DEF SameState
<1>b. UNCHANGED <<mem, disk>> /\ SameState => SameState'
  BY DEF SameState
<1>1. CASE ServerStep \/ MachineStep
  <2>1. pc' = "off" \/ UNCHANGED <<pc, booting, mem, disk>>
    BY <1>1 DEF ServerStep, FormCluster, DissolveCluster, RevokeWorker,
                MachineStep, MoveHost, PrimaExits, Crash, CrashWhileSaving, Killed, ProcessEnds
  <2> QED
    BY <1>b, <2>1
<1>2. CASE Start \/ StampAndSave
  <2>1. disk' = mem'
    BY <1>2 DEF Start, StampAndSave
  <2> QED
    BY <1>2, <1>a, <2>1 DEF Start, StampAndSave
<1>3. CASE StartupStep /\ ~Start /\ ~StampAndSave
  <2>1. /\ pc' \notin {"ensure", "idle", "tearDown", "kill"}
        /\ pc' \in BringingUp => booting'
        /\ pc' \in {"recover", "beat"} =>
               pc \in {"ensure", "recover"} /\ UNCHANGED <<mem, disk>>
    BY <1>3 DEF StartupStep, EndpointChanged, WorkerStillValid, WorkerNotConfirmed,
                Register, RegisterFails, StopAgent, RecoverAssigned, RecoverUnassigned,
                RecoverFails
  <2> QED
    BY <1>b, <2>1
<1>4. CASE FetchConfig
  BY <1>4, DerivingKeepsState DEF FetchConfig
<1>5. CASE WgUpFails
  <2>1. pc' = "stopDown" \/ (pc = "up" /\ ~booting /\ UNCHANGED <<mem, disk>>)
    BY <1>5 DEF WgUpFails, StopAgent
  <2>2. pc' \in {"stopDown", "idle"}
    BY <1>5 DEF WgUpFails, StopAgent
  <2> QED
    BY <1>b, <2>1, <2>2
<1>6. CASE FetchConfigFails \/ WorkerReports \/ Launch
  <2>1. UNCHANGED <<booting, mem, disk>> /\ pc \in BringingUp
    BY <1>6 DEF FetchConfigFails, WorkerReports, Launch
  <2>2. pc' \in {Returned, "report"}
    BY <1>6 DEF FetchConfigFails, WorkerReports, Launch
  <2> QED
    BY <1>b, <2>1, <2>2 DEF Returned
<1>7. CASE SaveAssigned \/ Save
  <2>1. disk' = mem'
    BY <1>7 DEF SaveAssigned, Save
  <2> QED
    BY <1>a, <2>1
<1>8. CASE WgUp \/ LaunchFails \/ WgDown \/ StopPrimaFails
  <2>1. UNCHANGED <<booting, mem, disk>>
    BY <1>8 DEF WgUp, LaunchFails, WgDown, StopPrimaFails
  <2>2. \/ pc \in BringingUp /\ pc' \in BringingUp
        \/ pc \in {"tearDown", "kill"} /\ pc' \in {"kill", "idle"}
    BY <1>8 DEF WgUp, LaunchFails, WgDown, StopPrimaFails
  <2> QED
    BY <1>b, <2>1, <2>2
<1>9. CASE UndoTunnel \/ StopPrima \/ StopDown \/ StopKill
  BY <1>9 DEF UndoTunnel, StopPrima, StopDown, StopKill, ProcessEnds
<1>10. CASE RestingStep
  <2>1. CASE Heartbeat \/ Stop
    BY <2>1 DEF Heartbeat, Stop, StopAgent
  <2>2. CASE \E c \in Clusters : HandleAssigned(c)
    BY <2>2 DEF HandleAssigned
  <2>3. CASE (\E c \in Clusters : HandleDissolved(c)) \/ HeartbeatFails
    <3>1. /\ pc \in {"idle", "beat"} /\ pc' \in {"idle", "tearDown"}
          /\ UNCHANGED <<mem, disk>>
      BY <2>3 DEF HandleDissolved, TakeFrame, HeartbeatFails
    <3> QED
      BY <1>b, <3>1
  <2>4. CASE MonitorStep \/ Connect \/ Disconnect \/ RelayMonitorEnds
    <3>1. UNCHANGED <<pc, booting, mem, disk>>
      BY <2>4 DEF MonitorStep, MonitorSends, MonitorReports, Connect, Disconnect,
                  RelayMonitorEnds
    <3> QED
      BY <1>b, <3>1
  <2> QED
    BY <1>10, <2>1, <2>2, <2>3, <2>4 DEF RestingStep, HandleFrame, BeatStep
<1> QED
  BY <1>1, <1>2, <1>3, <1>4, <1>5, <1>6, <1>7, <1>8, <1>9, <1>10
     DEF Next, AgentStep, HandlerStep, RestingStep

LEMMA PersistInvariant == Spec => []PersistInv
<1>1. Init => PersistInv
  BY DEF Init, PersistInv, Starting, BringingUp
<1>2. TypeInv /\ LoopInv /\ PersistInv /\ [Next]_vars => PersistInv'
  BY PersistInvStep DEF vars, PersistInv, SameState
<1> QED
  BY <1>1, <1>2, TypeInvariant, LoopInvariant, PTL DEF Spec

\* Whenever the agent rests, and whichever handler ran before or failed, its state
\* file holds the whole of AgentState as the agent has it, except that a position
\* it derived may be missing there, which is then the one that the cluster in the
\* file gives it again (agent.py:73, 257).
THEOREM RestingStateIsOnDisk == Spec => []RestStateIsPersisted
<1>1. PersistInv => RestStateIsPersisted
  BY DEF PersistInv, SameState, RestStateIsPersisted
<1> QED
  BY <1>1, PersistInvariant, PTL

-----------------------------------------------------------------------------
(* The endpoint *)

HasHost(s) == Known(s.worker) => registry[s.worker].host = s.host

Registered == pc \notin Ended \cup {"ensure", "register", "stamp"}

\* Until the host is stamped, a new record has the host of the request; after
\* that, memory, disk and record agree, and with the machine once it is known.
HostInv ==
    /\ HasHost(disk)
    /\ pc = "stamp" /\ Known(mem.worker) => registry[mem.worker].host = host
    /\ pc \notin Ended \cup {"register", "stamp"} => HasHost(mem)
    /\ Registered => mem.host = host

LEMMA RegisteredStays ==
  ASSUME HostInv, Registered, Registered',
         UNCHANGED <<registry, host>>, disk' \in {disk, mem},
         mem'.worker = mem.worker, mem'.host = mem.host
  PROVE  HostInv'
  BY DEF HostInv, HasHost, Known, Registered, Ended

LEMMA LeavingKeepsHost ==
  ASSUME HostInv, UNCHANGED registry, disk' \in {disk, Fresh}, pc' \in Ended
  PROVE  HostInv'
<1>1. NoWorker \notin WorkerIds
  BY BoundsAssumption
<1> QED
  BY <1>1 DEF HostInv, HasHost, Known, Fresh, Registered, Ended

LEMMA HostInvStep ==
  ASSUME "drift" \notin Events, TypeInv, KeyInv, HostInv, Next PROVE HostInv'
<1> USE DEF serverVars, chanVars, taskVars, osVars, Ended, Registered
<1>0. mem \in AgentState /\ disk \in AgentState
  BY DEF TypeInv, TypeOK, StateTypeOK
<1>1. CASE ServerStep
  <2>1. UNCHANGED <<mem, disk, pc, host>>
    BY <1>1 DEF ServerStep, FormCluster, DissolveCluster, RevokeWorker
  <2>2. \A v \in WorkerIds : registry'[v] # NoRecord =>
            registry[v] # NoRecord /\ registry'[v].host = registry[v].host
    BY <1>1, ServerKeepsIdentities
  <2> QED
    BY <2>1, <2>2 DEF HostInv, HasHost, Known
<1>2. CASE MachineStep
  <2>1. ASSUME NEW h \in Hosts, MoveHost(h) PROVE HostInv'
    <3>1. pc = "off" /\ UNCHANGED <<registry, disk, pc>>
      BY <2>1 DEF MoveHost, Disturbed
    <3> QED
      BY <3>1, LeavingKeepsHost
  <2>2. ASSUME NEW p \in prima, PrimaExits(p) PROVE HostInv'
    BY <2>2 DEF PrimaExits, HostInv, HasHost, Known
  <2>3. CASE Crash \/ CrashWhileSaving
    <3>1. UNCHANGED registry /\ disk' \in {disk, Fresh} /\ pc' = "off"
      BY <2>3 DEF Crash, CrashWhileSaving, Killed, ProcessEnds
    <3> QED
      BY <3>1, LeavingKeepsHost
  <2> QED
    BY <1>2, <2>1, <2>2, <2>3 DEF MachineStep
<1>3. CASE Start
  BY <1>3 DEF Start, HostInv, HasHost, Known
<1>4. CASE EndpointChanged \/ WorkerNotConfirmed
  <2>1. UNCHANGED <<registry, disk>> /\ pc' = "register"
    BY <1>4 DEF EndpointChanged, WorkerNotConfirmed
  <2> QED
    BY <2>1 DEF HostInv, HasHost, Known
<1>5. CASE WorkerStillValid
  BY <1>5 DEF WorkerStillValid, HostInv, HasHost, Known
<1>6. ASSUME NEW key, CreateRecord(key), UNCHANGED disk PROVE HasHost(disk)'
  BY <1>6, RecordsAreKept DEF KeyInv, HasKey, HostInv, HasHost, Known
<1>7. CASE Register
  <2> USE <1>7 DEF Register
  <2>1. NewWorker \in WorkerIds
    BY BoundsAssumption DEF CreateRecord, NewWorker, TypeInv, TypeOK, ServerTypeOK
  <2>2. registry'[NewWorker].host = host
    BY <2>1 DEF CreateRecord, TypeInv, TypeOK, ServerTypeOK
  <2>3. mem'.worker = NewWorker
    BY <1>0 DEF AgentState
  <2> QED
    BY <1>6, <2>2, <2>3 DEF HostInv
<1>8. CASE RegisterFails
  <2>1. UNCHANGED disk /\ pc' = "stopDown"
    BY <1>8 DEF RegisterFails, StopAgent
  <2>2. CASE UNCHANGED serverVars
    BY <2>1, <2>2, LeavingKeepsHost
  <2>3. CASE CreateRecord(RegistrationKey)
    BY <1>6, <2>1, <2>3 DEF HostInv
  <2> QED
    BY <1>8, <2>2, <2>3 DEF RegisterFails
<1>9. CASE StampAndSave
  <2>1. mem'.worker = mem.worker /\ mem'.host = host
    BY <1>0, <1>9 DEF StampAndSave, AgentState
  <2> QED
    BY <1>9, <2>1 DEF StampAndSave, HostInv, HasHost, Known
<1>10. CASE RecoverAssigned \/ RecoverUnassigned \/ RecoverFails
  <2>1. mem'.worker = mem.worker /\ mem'.host = mem.host
    BY <1>0, <1>10 DEF RecoverAssigned, RecoverUnassigned, RecoverFails, AgentState
  <2>2. UNCHANGED <<registry, host, disk>> /\ Registered /\ Registered'
    BY <1>10 DEF RecoverAssigned, RecoverUnassigned, RecoverFails
  <2> QED
    BY <2>1, <2>2, RegisteredStays
<1>11. CASE (WgUpFails /\ booting) \/ Stop \/ StopDown \/ StopKill
  <2>1. UNCHANGED <<registry, disk>> /\ pc' \in Ended
    BY <1>11 DEF WgUpFails, Stop, StopAgent, StopDown, StopKill, ProcessEnds
  <2> QED
    BY <2>1, LeavingKeepsHost
<1>12. CASE HandlerStep /\ ~(WgUpFails /\ booting) /\ ~StopDown /\ ~StopKill
  <2>1. UNCHANGED <<registry, host>> /\ disk' \in {disk, mem} /\ Registered /\ Registered'
    BY <1>12
       DEF HandlerStep, FetchConfig, FetchConfigFails, WgUp, WgUpFails, Launch, LaunchFails,
           UndoTunnel, WorkerReports, SaveAssigned, WgDown, StopPrima, StopPrimaFails, Save, Returned
  <2>2. mem'.worker = mem.worker /\ mem'.host = mem.host
    BY <1>0, <1>12
       DEF HandlerStep, FetchConfig, FetchConfigFails, WgUp, WgUpFails, Launch, LaunchFails,
           UndoTunnel, WorkerReports, SaveAssigned, WgDown, StopPrima, StopPrimaFails, Save, Waitlisted, AgentState
  <2> QED
    BY <2>1, <2>2, RegisteredStays
<1>13. CASE HandleFrame \/ MonitorStep \/ BeatStep \/ Connect \/ RelayMonitorEnds
  <2>1. UNCHANGED <<registry, host, disk>> /\ Registered /\ Registered'
    BY <1>13
       DEF HandleFrame, HandleAssigned, HandleDissolved, TakeFrame, MonitorStep, MonitorSends,
           MonitorReports, BeatStep, Heartbeat, HeartbeatFails, Connect, RelayMonitorEnds
  <2>2. mem'.worker = mem.worker /\ mem'.host = mem.host
    BY <1>0, <1>13
       DEF HandleFrame, HandleAssigned, HandleDissolved, TakeFrame, MonitorStep, MonitorSends,
           MonitorReports, BeatStep, Heartbeat, HeartbeatFails, Connect, RelayMonitorEnds,
           AgentState
  <2> QED
    BY <2>1, <2>2, RegisteredStays
<1>14. CASE Disconnect
  BY <1>14 DEF Disconnect, HostInv, HasHost, Known
<1> QED
  BY <1>1, <1>2, <1>3, <1>4, <1>5, <1>7, <1>8, <1>9, <1>10, <1>11, <1>12, <1>13, <1>14
     DEF Next, AgentStep, StartupStep

\* The agent is registered under the endpoint host it has, as long as the host
\* changes only between two lives: the comparison at startup (agent.py:127)
\* catches every move, whatever fails or is killed in between.
THEOREM RegisteredHostIsCurrent == "drift" \notin Events => (Spec => []EndpointIsCurrent)
<1> SUFFICES ASSUME "drift" \notin Events PROVE Spec => []EndpointIsCurrent
  OBVIOUS
<1>1. Init => HostInv
  <2>1. NoWorker \notin WorkerIds
    BY BoundsAssumption
  <2> QED
    BY <2>1 DEF Init, HostInv, HasHost, Known, Fresh, Registered, Ended
<1>2. TypeInv /\ KeyInv /\ HostInv /\ [Next]_vars => HostInv'
  BY HostInvStep DEF vars, serverVars, HostInv, HasHost, Known, Registered
<1>3. HostInv => EndpointIsCurrent
  BY DEF HostInv, HasHost, EndpointIsCurrent, Registered, Ended
<1> QED
  BY <1>1, <1>2, <1>3, TypeInvariant, KeyInvariant, PTL DEF Spec

-----------------------------------------------------------------------------
(* The rank *)

\* Once in service, the process is not ended: a restart may load the position
\* of a cluster that is gone together with a new cluster.
OneService == Events \cap {"crash", "stop"} = {}

CurrentRank(s) == s.pos # NoRank => s.cluster \in Clusters /\ s.pos = Rank[s.cluster]

\* No position is remembered but that of the current cluster, and none reaches
\* the disk before the first heartbeat, when startup may still fail.
PositionInv ==
    /\ CurrentRank(mem)
    /\ pc \in Starting => mem.pos = NoRank
    /\ pc \in Starting \cup Ended \/ (booting /\ pc \in {"config", "up"}) => disk.pos = NoRank

RankInv == PositionInv /\ RankIsCurrent

LEMMA LeavingKeepsRank ==
  ASSUME RankInv, mem' \in {mem, Fresh}, disk'.pos = NoRank, pc' \in Ended,
         prima' \subseteq prima
  PROVE  RankInv'
  BY DEF RankInv, PositionInv, CurrentRank, RankIsCurrent, Fresh, Starting, Ended

LEMMA RankInvStep ==
  ASSUME OneService, TypeInv, LoopInv, RankInv, Next PROVE RankInv'
<1> USE DEF RankInv, PositionInv, Ended, serverVars, chanVars, taskVars, osVars
<1>0. mem \in AgentState /\ disk \in AgentState
  BY DEF TypeInv, TypeOK, StateTypeOK
<1>1. CASE ServerStep \/ MachineStep
  <2>1. CASE CrashWhileSaving
    <3>1. mem' = Fresh /\ disk' = Fresh /\ pc' = "off" /\ prima' \subseteq prima
      BY <2>1 DEF CrashWhileSaving, Killed, ProcessEnds
    <3> QED
      BY <3>1, LeavingKeepsRank DEF Fresh
  <2>2. CASE (ServerStep \/ MachineStep) /\ ~CrashWhileSaving
    <3>1. UNCHANGED <<pc, booting, mem, disk>> /\ prima' \subseteq prima
      BY <2>2 DEF ServerStep, FormCluster, DissolveCluster, RevokeWorker,
                  MachineStep, MoveHost, PrimaExits, Crash, Disturbed, OneService
    <3> QED
      BY <3>1 DEF CurrentRank, RankIsCurrent
  <2> QED
    BY <1>1, <2>1, <2>2
<1>2. CASE RegisterFails
  <2>1. mem' = mem /\ disk' = disk /\ pc = "register" /\ pc' = "stopDown" /\ prima' = prima
    BY <1>2 DEF RegisterFails, StopAgent
  <2> QED
    BY <2>1, LeavingKeepsRank DEF Starting
<1>3. CASE StartupStep /\ ~RegisterFails
  <2>1. UNCHANGED prima /\ pc \in Starting \cup {"off"}
    BY <1>3 DEF StartupStep, Start, EndpointChanged, WorkerStillValid, WorkerNotConfirmed,
                Register, StampAndSave, RecoverAssigned, RecoverUnassigned, RecoverFails,
                Starting
  <2>2. mem'.pos = NoRank /\ disk'.pos = NoRank
    BY <1>0, <1>3, <2>1
       DEF StartupStep, Start, EndpointChanged, WorkerStillValid, WorkerNotConfirmed,
           Deregistered, Register, StampAndSave, RecoverAssigned, RecoverUnassigned,
           RecoverFails, Starting, AgentState
  <2> QED
    BY <2>1, <2>2 DEF CurrentRank, RankIsCurrent
<1>4. CASE FetchConfig
  <2>1. mem.cluster \in Clusters
    BY <1>0, <1>4 DEF FetchConfig, MemberOf, AgentState
  <2>2. mem'.cluster = mem.cluster /\ mem'.pos = Rank[mem.cluster]
    BY <1>0, <1>4 DEF FetchConfig, RingPosition, CurrentRank, AgentState
  <2>3. UNCHANGED <<disk, booting, prima>> /\ pc = "config" /\ pc' = "up"
    BY <1>4 DEF FetchConfig
  <2> QED
    BY <2>1, <2>2, <2>3 DEF CurrentRank, RankIsCurrent, Starting
<1>5. CASE WgUpFails
  <2>1. CASE booting
    <3>1. mem' = mem /\ disk' = disk /\ pc = "up" /\ pc' = "stopDown" /\ prima' = prima
      BY <1>5, <2>1 DEF WgUpFails, StopAgent
    <3> QED
      BY <2>1, <3>1, LeavingKeepsRank
  <2>2. CASE ~booting
    BY <1>5, <2>2 DEF WgUpFails, CurrentRank, RankIsCurrent, Starting
  <2> QED
    BY <2>1, <2>2
<1>6. CASE Launch
  <2>1. mem.cluster \in Clusters /\ mem.pos = Rank[mem.cluster]
    BY <1>6, RankAssumption DEF Launch, CurrentRank, TypeInv, Launchable, Ranks
  <2>2. prima' = prima \cup {[cluster |-> mem.cluster, rank |-> mem.pos]}
    BY <1>6 DEF Launch
  <2>3. UNCHANGED <<mem, booting>> /\ pc' \in {"save", "idle", "report"}
    BY <1>6 DEF Launch, Returned
  <2> QED
    BY <2>1, <2>2, <2>3 DEF CurrentRank, RankIsCurrent, Starting
<1>7. CASE UndoTunnel \/ StopPrima
  <2>1. mem'.pos = NoRank
    BY <1>0, <1>7 DEF UndoTunnel, StopPrima, Waitlisted, AgentState
  <2>2. pc' = "save" /\ prima' \subseteq prima
    BY <1>7 DEF UndoTunnel, StopPrima
  <2> QED
    BY <2>1, <2>2 DEF CurrentRank, RankIsCurrent, Starting
<1>8. CASE SaveAssigned
  BY <1>8 DEF SaveAssigned, LoopInv, CurrentRank, RankIsCurrent, Starting
<1>9. CASE FetchConfigFails \/ WgUp \/ LaunchFails \/ WorkerReports \/ WgDown
            \/ StopPrimaFails \/ Save
  <2>1. /\ UNCHANGED <<mem, booting>> /\ prima' \subseteq prima
        /\ pc' \notin Starting \cup Ended \cup {"config", "up"}
    BY <1>9 DEF FetchConfigFails, WgUp, LaunchFails, WorkerReports, WgDown, StopPrimaFails,
                Save, Returned, Starting
  <2> QED
    BY <2>1 DEF CurrentRank, RankIsCurrent
<1>10. ASSUME NEW c \in Clusters, HandleAssigned(c) PROVE RankInv'
  <2>1. mem'.cluster = c /\ mem'.pos \in {Rank[c], NoRank}
    BY <1>0, <1>10 DEF HandleAssigned, AgentState
  <2>2. UNCHANGED prima /\ pc' = "saveAssigned"
    BY <1>10 DEF HandleAssigned
  <2> QED
    BY <2>1, <2>2 DEF CurrentRank, RankIsCurrent, Starting
<1>11. CASE BeatStep
  <2>1. UNCHANGED prima /\ mem'.cluster = mem.cluster /\ mem'.pos = mem.pos
    BY <1>0, <1>11 DEF BeatStep, Heartbeat, HeartbeatFails, AgentState
  <2>2. pc' \in {"save", "idle"}
    BY <1>11 DEF BeatStep, Heartbeat, HeartbeatFails
  <2> QED
    BY <2>1, <2>2 DEF CurrentRank, RankIsCurrent, Starting
<1>12. CASE MonitorStep \/ Connect \/ Disconnect \/ RelayMonitorEnds
  <2>1. UNCHANGED <<pc, booting, mem, disk, prima>>
    BY <1>12 DEF MonitorStep, MonitorSends, MonitorReports, Connect, Disconnect,
                 RelayMonitorEnds
  <2> QED
    BY <2>1 DEF CurrentRank, RankIsCurrent
<1>13. ASSUME NEW c \in Clusters, HandleDissolved(c) PROVE RankInv'
  BY <1>13 DEF HandleDissolved, CurrentRank, RankIsCurrent, Starting
<1>14. ~Stop
  BY DEF Stop, Disturbed, OneService
<1>15. CASE StopDown \/ StopKill
  <2>1. mem' \in {mem, Fresh} /\ disk' = disk /\ pc \in Ended /\ pc' \in Ended
        /\ prima' \subseteq prima
    BY <1>15 DEF StopDown, StopKill, ProcessEnds
  <2> QED
    BY <2>1, LeavingKeepsRank
<1> QED
  BY <1>1, <1>2, <1>3, <1>4, <1>5, <1>6, <1>7, <1>8, <1>9, <1>10, <1>11, <1>12, <1>13, <1>14,
     <1>15
     DEF Next, AgentStep, HandlerStep, HandleFrame

LEMMA RankInvariant == ASSUME OneService PROVE Spec => []RankInv
<1>1. Init => RankInv
  BY DEF Init, RankInv, PositionInv, CurrentRank, RankIsCurrent, Starting, Fresh
<1>2. TypeInv /\ LoopInv /\ RankInv /\ [Next]_vars => RankInv'
  BY RankInvStep DEF vars, osVars, RankInv, PositionInv, CurrentRank, RankIsCurrent
<1> QED
  BY <1>1, <1>2, TypeInvariant, LoopInvariant, PTL DEF Spec

\* prima.cpp runs with the rank this worker has in the ring of its cluster, for
\* every sequence of clusters and whether or not the frames carry the rank
\* (agent.py:254).
THEOREM RankFitsTheRing == OneService => (Spec => []RankIsCurrent)
<1> SUFFICES ASSUME OneService PROVE Spec => []RankIsCurrent
  OBVIOUS
<1> QED
  BY RankInvariant, PTL DEF RankInv

-----------------------------------------------------------------------------
(* The distribution *)

\* Whoever reports from the handler is not the head.
ReportInv ==
    /\ pc = "report" => mem.pos # 0
    /\ HeadReadyHasDistribution

LEMMA ReportInvStep ==
  ASSUME TypeInv, RankInv, ReportInv, Next PROVE ReportInv'
<1> USE DEF ReportInv, serverVars, chanVars, taskVars, osVars
<1>1. CASE WorkerReports
  <2>1. mem.cluster \in Clusters /\ mem.pos = Rank[mem.cluster] /\ mem.pos # 0
    BY <1>1, RankAssumption
       DEF WorkerReports, RankInv, PositionInv, CurrentRank, TypeInv, Launchable, Ranks
  <2>2. ready' \subseteq ready \cup {mem.cluster} /\ dists' = dists
    BY <1>1 DEF WorkerReports, ReportReady
  <2>3. pc' # "report"
    BY <1>1 DEF WorkerReports, Returned
  <2> QED
    BY <2>1, <2>2, <2>3 DEF HeadReadyHasDistribution
<1>2. CASE MonitorReports
  <2>1. \/ ready' = ready \cup {monitor} /\ dists' = dists \cup {monitor}
        \/ UNCHANGED <<ready, dists>>
    BY <1>2 DEF MonitorReports, ReportReady
  <2>2. pc' = pc /\ pc # "report"
    BY <1>2 DEF MonitorReports
  <2> QED
    BY <2>1, <2>2 DEF HeadReadyHasDistribution
<1>3. CASE MonitorSends
  <2>1. ready' = ready /\ dists \subseteq dists' /\ UNCHANGED <<pc, mem>>
    BY <1>3 DEF MonitorSends
  <2> QED
    BY <2>1 DEF HeadReadyHasDistribution
<1>4. CASE ~WorkerReports /\ ~MonitorReports /\ ~MonitorSends
  <2>1. CASE ServerStep \/ MachineStep
    <3>1. UNCHANGED <<ready, dists>>
      BY <2>1 DEF ServerStep, FormCluster, DissolveCluster, RevokeWorker,
                  MachineStep, MoveHost, PrimaExits, Crash, CrashWhileSaving, Killed,
                  ProcessEnds
    <3>2. pc' = "off" \/ UNCHANGED <<pc, mem>>
      BY <2>1 DEF ServerStep, FormCluster, DissolveCluster, RevokeWorker,
                  MachineStep, MoveHost, PrimaExits, Crash, CrashWhileSaving, Killed,
                  ProcessEnds
    <3> QED
      BY <3>1, <3>2 DEF HeadReadyHasDistribution
  <2>2. CASE StartupStep
    <3>1. UNCHANGED <<ready, dists>> /\ pc' # "report"
      BY <2>2 DEF StartupStep, Start, EndpointChanged, WorkerStillValid, WorkerNotConfirmed,
                  Register, RegisterFails, CreateRecord, StopAgent, StampAndSave,
                  RecoverAssigned, RecoverUnassigned, RecoverFails
    <3> QED
      BY <3>1 DEF HeadReadyHasDistribution
  <2>3. CASE HandlerStep
    <3>1. UNCHANGED <<ready, dists>>
      BY <1>4, <2>3 DEF HandlerStep, FetchConfig, FetchConfigFails, WgUp, WgUpFails, Launch,
                        LaunchFails, UndoTunnel, SaveAssigned, WgDown, StopPrima,
                        StopPrimaFails, Save, StopDown, StopKill
    <3>2. pc' = "report" => mem'.pos # 0
      BY <1>4, <2>3 DEF HandlerStep, FetchConfig, FetchConfigFails, WgUp, WgUpFails, StopAgent,
                        Launch, LaunchFails, UndoTunnel, SaveAssigned, WgDown, StopPrima,
                        StopPrimaFails, Save, StopDown, StopKill, ProcessEnds, Returned
    <3> QED
      BY <3>1, <3>2 DEF HeadReadyHasDistribution
  <2>4. CASE RestingStep
    <3>1. UNCHANGED <<ready, dists>>
      BY <1>4, <2>4 DEF RestingStep, HandleFrame, HandleAssigned, HandleDissolved, MonitorStep,
                        BeatStep, Heartbeat, HeartbeatFails, Stop, Connect, Disconnect,
                        RelayMonitorEnds
    <3>2. pc' = "report" => UNCHANGED <<pc, mem>>
      BY <1>4, <2>4 DEF RestingStep, HandleFrame, HandleAssigned, HandleDissolved, MonitorStep,
                        BeatStep, Heartbeat, HeartbeatFails, Stop, StopAgent, Connect,
                        Disconnect, RelayMonitorEnds
    <3> QED
      BY <3>1, <3>2 DEF HeadReadyHasDistribution
  <2> QED
    BY <2>1, <2>2, <2>3, <2>4 DEF Next, AgentStep, RestingStep
<1> QED
  BY <1>1, <1>2, <1>3, <1>4

\* The control plane never counts the head of a ring as ready without a layer
\* distribution, though the frame that carries it may be lost: no path lets the
\* head report from its handler, as a worker would (agent.py:282, 355).
THEOREM HeadReportsDistribution == OneService => (Spec => []HeadReadyHasDistribution)
<1> SUFFICES ASSUME OneService PROVE Spec => []HeadReadyHasDistribution
  OBVIOUS
<1>1. Init => ReportInv
  BY DEF Init, ReportInv, HeadReadyHasDistribution
<1>2. TypeInv /\ RankInv /\ ReportInv /\ [Next]_vars => ReportInv'
  BY ReportInvStep DEF vars, serverVars, ReportInv, HeadReadyHasDistribution
<1>3. ReportInv => HeadReadyHasDistribution
  BY DEF ReportInv
<1> QED
  BY <1>1, <1>2, <1>3, TypeInvariant, RankInvariant, PTL DEF Spec
=============================================================================
