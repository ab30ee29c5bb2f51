---------------------------- MODULE AgentProofs ----------------------------
(***************************************************************************)
(* Theorems about Agent, for every set of clusters, every ring order, every*)
(* bound and every set of disturbances.                                    *)
(***************************************************************************)
EXTENDS Agent, SequenceTheorems, TLAPS

USE DEF WorkerIds, NoWorker, NoKey, MaybeCluster

\* The states the agent saves, clears and loads are AgentStates.
LEMMA FreshType == Fresh \in AgentState
  BY DEF Fresh, AgentState, States

LEMMA ClearedType ==
  ASSUME NEW s \in AgentState
  PROVE  Deregistered(s) \in AgentState /\ Waitlisted(s) \in AgentState
  BY DEF Deregistered, Waitlisted, AgentState, States

LEMMA UpdatedType ==
  ASSUME NEW s \in AgentState
  PROVE  /\ \A w \in WorkerIds, k \in WorkerIds, st \in States :
                [s EXCEPT !.worker = w, !.key = k, !.status = st] \in AgentState
         /\ \A h \in Hosts : [s EXCEPT !.host = h] \in AgentState
         /\ \A c \in MaybeCluster, st \in States :
                [s EXCEPT !.cluster = c, !.status = st] \in AgentState
         /\ \A st \in States : [s EXCEPT !.status = st] \in AgentState
         /\ \A r \in Ranks \cup {NoRank} : [s EXCEPT !.pos = r] \in AgentState
         /\ \A c \in MaybeCluster, r \in Ranks \cup {NoRank}, st \in States :
                [s EXCEPT !.cluster = c, !.pos = r, !.status = st] \in AgentState
  BY DEF AgentState

LEMMA ClusterOfType ==
  ASSUME ServerTypeOK, NEW w
  PROVE  ClusterOf(w) \in MaybeCluster /\ StatusOf(w) \in States
  BY DEF ClusterOf, StatusOf, States, Known, ServerTypeOK, Records

\* Every disturbance is counted.
LEMMA EventsType ==
  ASSUME MachineTypeOK, NEW kind, Disturbed(kind) \/ Undisturbed
  PROVE  events' \in 0..MaxEvents
  BY BoundsAssumption DEF MachineTypeOK, Disturbed, Undisturbed

LEMMA TakeDownType ==
  ASSUME MachineTypeOK, TakeDown
  PROVE  wg' \in MaybeCluster /\ lapses' \subseteq Lapses /\ events' \in 0..MaxEvents
<1>1. events' \in 0..MaxEvents
  BY EventsType DEF TakeDown
<1>2. wg' \in {wg, NoCluster} /\ lapses' \subseteq lapses \cup {"down"}
  BY DEF TakeDown
<1> QED
  BY <1>1, <1>2 DEF MachineTypeOK, Lapses

LEMMA StopType ==
  ASSUME TypeOK, StopAgent, events' \in 0..MaxEvents, ServerTypeOK'
  PROVE  TypeOK'
<1> USE DEF TypeOK, StopAgent, CancelTasks
<1>1. ChannelTypeOK'
  BY EmptySeq DEF ChannelTypeOK
<1>2. StateTypeOK'
  BY DEF StateTypeOK
<1>3. LoopTypeOK' /\ TaskTypeOK'
  BY DEF LoopTypeOK, TaskTypeOK, Steps
<1>4. MachineTypeOK'
  BY DEF MachineTypeOK, osVars
<1> QED
  BY <1>1, <1>2, <1>3, <1>4

LEMMA KilledType ==
  ASSUME TypeOK, NEW file \in AgentState, Killed(file), events' \in 0..MaxEvents
  PROVE  TypeOK'
<1> USE DEF TypeOK, Killed, ProcessEnds, CancelTasks
<1>0. ServerTypeOK'
  BY DEF ServerTypeOK, serverVars
<1>1. ChannelTypeOK'
  BY EmptySeq DEF ChannelTypeOK
<1>2. StateTypeOK'
  BY FreshType DEF StateTypeOK
<1>3. LoopTypeOK' /\ TaskTypeOK'
  BY DEF LoopTypeOK, TaskTypeOK, Steps
<1>4. MachineTypeOK'
  BY DEF MachineTypeOK
<1> QED
  BY <1>0, <1>1, <1>2, <1>3, <1>4

LEMMA CreateRecordType ==
  ASSUME ServerTypeOK, MachineTypeOK, NEW key \in WorkerIds, CreateRecord(key)
  PROVE  ServerTypeOK' /\ NewWorker \in WorkerIds
<1>1. NewWorker \in WorkerIds
  BY BoundsAssumption DEF ServerTypeOK, CreateRecord, NewWorker
<1>2. [key |-> key, host |-> host, cluster |-> NoCluster] \in Records
  BY DEF MachineTypeOK, Records
<1> QED
  BY <1>1, <1>2 DEF ServerTypeOK, CreateRecord

LEMMA ReportReadyType ==
  ASSUME TypeOK, NEW c \in MaybeCluster, NEW b \in BOOLEAN, ReportReady(c, b),
         UNCHANGED <<registry, lastWorker, formed>>
  PROVE  ServerTypeOK' /\ events' \in 0..MaxEvents
<1>1. events' \in 0..MaxEvents
  BY EventsType DEF TypeOK, ReportReady, RestFails
<1>2. ready' \subseteq Clusters /\ dists' \subseteq Clusters
  BY DEF TypeOK, ServerTypeOK, ReportReady, MemberOf
<1> QED
  BY <1>1, <1>2 DEF TypeOK, ServerTypeOK


LEMMA ServerStepType == ASSUME TypeOK, ServerStep PROVE TypeOK'
<1> USE DEF TypeOK, serverVars, chanVars, taskVars, osVars
<1>1. ASSUME NEW w \in WorkerIds, NEW c \in Clusters, FormCluster(w, c) PROVE TypeOK'
  <2> USE <1>1 DEF FormCluster
  <2>1. [registry[w] EXCEPT !.cluster = c] \in Records
    BY DEF ServerTypeOK, Known, Records
  <2>2. ServerTypeOK'
    BY <2>1 DEF ServerTypeOK
  <2>3. ChannelTypeOK'
    <3>1. [type |-> "cluster_assigned", cluster |-> c] \in Frames
      BY DEF Frames
    <3> QED
      BY <3>1, AppendProperties DEF ChannelTypeOK, Push
  <2> QED
    BY <2>2, <2>3 DEF StateTypeOK, LoopTypeOK, TaskTypeOK, MachineTypeOK
<1>2. ASSUME NEW w \in WorkerIds, DissolveCluster(w) PROVE TypeOK'
  <2> USE <1>2 DEF DissolveCluster
  <2>0. Known(w) /\ registry[w] \in Records /\ ClusterOf(w) \in Clusters
    BY DEF ServerTypeOK, Known, ClusterOf, Records
  <2>1. [registry[w] EXCEPT !.cluster = NoCluster] \in Records
    BY <2>0 DEF Records
  <2>2. ServerTypeOK'
    BY <2>1 DEF ServerTypeOK
  <2>3. ChannelTypeOK'
    <3>1. [type |-> "cluster_dissolved", cluster |-> ClusterOf(w)] \in Frames
      BY <2>0 DEF Frames
    <3> QED
      BY <3>1, AppendProperties DEF ChannelTypeOK, Push
  <2> QED
    BY <2>2, <2>3 DEF StateTypeOK, LoopTypeOK, TaskTypeOK, MachineTypeOK
<1>3. ASSUME NEW w \in WorkerIds, RevokeWorker(w) PROVE TypeOK'
  <2>1. MachineTypeOK'
    BY <1>3, EventsType DEF RevokeWorker, MachineTypeOK
  <2> QED
    BY <1>3, <2>1
       DEF RevokeWorker, ServerTypeOK, ChannelTypeOK, StateTypeOK, LoopTypeOK, TaskTypeOK
<1> QED
  BY <1>1, <1>2, <1>3 DEF ServerStep

LEMMA MachineStepType == ASSUME TypeOK, MachineStep PROVE TypeOK'
<1> USE DEF TypeOK, serverVars, chanVars, taskVars, osVars
<1>1. ASSUME NEW h \in Hosts, MoveHost(h) PROVE TypeOK'
  <2>1. MachineTypeOK'
    BY <1>1, EventsType DEF MoveHost, MachineTypeOK
  <2> QED
    BY <1>1, <2>1
       DEF MoveHost, ServerTypeOK, ChannelTypeOK, StateTypeOK, LoopTypeOK, TaskTypeOK
<1>2. ASSUME NEW p \in prima, PrimaExits(p) PROVE TypeOK'
  <2>1. MachineTypeOK'
    BY <1>2, EventsType DEF PrimaExits, MachineTypeOK
  <2> QED
    BY <1>2, <2>1
       DEF PrimaExits, ServerTypeOK, ChannelTypeOK, StateTypeOK, LoopTypeOK, TaskTypeOK
<1>3. CASE Crash
  BY <1>3, EventsType, KilledType DEF Crash, StateTypeOK
<1>4. CASE CrashWhileSaving
  BY <1>4, EventsType, KilledType, FreshType DEF CrashWhileSaving
<1> QED
  BY <1>1, <1>2, <1>3, <1>4 DEF MachineStep

LEMMA StartupStepType == ASSUME TypeOK, StartupStep PROVE TypeOK'
<1> USE DEF TypeOK, serverVars, chanVars, taskVars, osVars
<1>1. CASE Start
  <2> USE <1>1 DEF Start
  <2>1. StateTypeOK'
    BY DEF StateTypeOK
  <2>2. LoopTypeOK'
    BY DEF LoopTypeOK, Steps
  <2> QED
    BY <2>1, <2>2
       DEF ServerTypeOK, ChannelTypeOK, TaskTypeOK, MachineTypeOK
<1>2. CASE EndpointChanged
  <2> USE <1>2 DEF EndpointChanged
  <2>1. StateTypeOK'
    BY ClearedType DEF StateTypeOK
  <2>2. LoopTypeOK'
    BY DEF LoopTypeOK, Steps
  <2> QED
    BY <2>1, <2>2
       DEF ServerTypeOK, ChannelTypeOK, TaskTypeOK, MachineTypeOK
<1>3. CASE WorkerStillValid
  <2> USE <1>3 DEF WorkerStillValid
  <2>1. LoopTypeOK'
    BY DEF LoopTypeOK, Steps
  <2> QED
    BY <2>1
       DEF ServerTypeOK, ChannelTypeOK, StateTypeOK, TaskTypeOK, MachineTypeOK
<1>4. CASE WorkerNotConfirmed
  <2> USE <1>4 DEF WorkerNotConfirmed
  <2>1. StateTypeOK'
    BY ClearedType DEF StateTypeOK
  <2>2. LoopTypeOK'
    BY DEF LoopTypeOK, Steps
  <2>3. MachineTypeOK'
    BY EventsType DEF MachineTypeOK, RestFails
  <2> QED
    BY <2>1, <2>2, <2>3
       DEF ServerTypeOK, ChannelTypeOK, TaskTypeOK
<1>5. CASE Register
  <2> USE <1>5 DEF Register
  <2>1. RegistrationKey \in WorkerIds
    BY BoundsAssumption DEF RegistrationKey, CreateRecord, NewWorker, ServerTypeOK, StateTypeOK, AgentState
  <2>2. ServerTypeOK' /\ NewWorker \in WorkerIds
    BY <2>1, CreateRecordType
  <2>3. StateTypeOK'
    BY <2>1, <2>2, UpdatedType DEF StateTypeOK, States
  <2>4. LoopTypeOK'
    BY DEF LoopTypeOK, Steps
  <2> QED
    BY <2>2, <2>3, <2>4 DEF ChannelTypeOK, TaskTypeOK, MachineTypeOK
<1>6. CASE RegisterFails
  <2> USE <1>6 DEF RegisterFails
  <2>1. events' \in 0..MaxEvents
    BY EventsType
  <2>2. ServerTypeOK'
    <3>1. CASE UNCHANGED serverVars
      BY <3>1 DEF ServerTypeOK
    <3>2. CASE CreateRecord(RegistrationKey)
      <4>1. RegistrationKey \in WorkerIds
        BY <3>2, BoundsAssumption
           DEF RegistrationKey, CreateRecord, NewWorker, ServerTypeOK, StateTypeOK, AgentState
      <4> QED
        BY <3>2, <4>1, CreateRecordType
    <3> QED
      BY <3>1, <3>2
  <2> QED
    BY <2>1, <2>2, StopType
<1>7. CASE StampAndSave
  <2> USE <1>7 DEF StampAndSave
  <2>1. StateTypeOK'
    BY UpdatedType DEF StateTypeOK, MachineTypeOK
  <2>2. LoopTypeOK'
    BY DEF LoopTypeOK, Steps
  <2> QED
    BY <2>1, <2>2
       DEF ServerTypeOK, ChannelTypeOK, TaskTypeOK, MachineTypeOK
<1>8. CASE RecoverAssigned
  <2> USE <1>8 DEF RecoverAssigned
  <2>1. StateTypeOK'
    BY UpdatedType, ClusterOfType DEF StateTypeOK, States
  <2>2. LoopTypeOK'
    BY DEF LoopTypeOK, Steps
  <2>3. MachineTypeOK'
    BY EventsType DEF MachineTypeOK, LooksUp, LooksDown
  <2> QED
    BY <2>1, <2>2, <2>3
       DEF ServerTypeOK, ChannelTypeOK, TaskTypeOK
<1>9. CASE RecoverUnassigned
  <2> USE <1>9 DEF RecoverUnassigned
  <2>1. StateTypeOK'
    BY UpdatedType, ClusterOfType DEF StateTypeOK, States
  <2>2. LoopTypeOK'
    BY DEF LoopTypeOK, Steps
  <2> QED
    BY <2>1, <2>2
       DEF ServerTypeOK, ChannelTypeOK, TaskTypeOK, MachineTypeOK
<1>10. CASE RecoverFails
  <2> USE <1>10 DEF RecoverFails
  <2>1. LoopTypeOK'
    BY DEF LoopTypeOK, Steps
  <2>2. MachineTypeOK'
    BY EventsType DEF MachineTypeOK, RestFails
  <2> QED
    BY <2>1, <2>2
       DEF ServerTypeOK, ChannelTypeOK, StateTypeOK, TaskTypeOK
<1> QED
  BY <1>1, <1>2, <1>3, <1>4, <1>5, <1>6, <1>7, <1>8, <1>9, <1>10 DEF StartupStep

LEMMA HandlerStepType == ASSUME TypeOK, Launchable, HandlerStep PROVE TypeOK'
<1> USE DEF TypeOK, serverVars, chanVars, taskVars, osVars, Returned
<1>1. CASE FetchConfig
  <2> USE <1>1 DEF FetchConfig
  <2>1. RingPosition \in Ranks \cup {NoRank}
    BY DEF RingPosition, MemberOf, StateTypeOK, AgentState, Ranks
  <2>2. StateTypeOK'
    BY <2>1, UpdatedType DEF StateTypeOK
  <2>3. LoopTypeOK'
    BY DEF LoopTypeOK, Steps
  <2> QED
    BY <2>2, <2>3 DEF ServerTypeOK, ChannelTypeOK, TaskTypeOK, MachineTypeOK
<1>2. CASE FetchConfigFails
  <2> USE <1>2 DEF FetchConfigFails
  <2>1. LoopTypeOK'
    BY DEF LoopTypeOK, Steps
  <2>2. MachineTypeOK'
    BY EventsType DEF MachineTypeOK, RestFails
  <2> QED
    BY <2>1, <2>2
       DEF ServerTypeOK, ChannelTypeOK, StateTypeOK, TaskTypeOK
<1>3. CASE WgUp
  <2> USE <1>3 DEF WgUp
  <2>1. LoopTypeOK'
    BY DEF LoopTypeOK, Steps
  <2>2. TaskTypeOK'
    BY DEF TaskTypeOK, StateTypeOK, AgentState
  <2>3. MachineTypeOK'
    BY DEF MachineTypeOK, StateTypeOK, AgentState
  <2> QED
    BY <2>1, <2>2, <2>3
       DEF ServerTypeOK, ChannelTypeOK, StateTypeOK
<1>4. CASE WgUpFails
  <2> USE <1>4 DEF WgUpFails
  <2>1. events' \in 0..MaxEvents
    BY EventsType
  <2>2. CASE booting
    BY <2>1, <2>2, StopType DEF ServerTypeOK
  <2>3. CASE ~booting
    BY <2>1, <2>3
       DEF ServerTypeOK, ChannelTypeOK, StateTypeOK, LoopTypeOK, Steps, TaskTypeOK, MachineTypeOK
  <2> QED
    BY <2>2, <2>3
<1>5. CASE Launch
  <2> USE <1>5 DEF Launch
  <2>1. LoopTypeOK' /\ TaskTypeOK'
    BY DEF LoopTypeOK, Steps, TaskTypeOK, StateTypeOK, AgentState
  <2>2. MachineTypeOK'
    BY DEF MachineTypeOK, Procs, Launchable
  <2> QED
    BY <2>1, <2>2 DEF ServerTypeOK, ChannelTypeOK, StateTypeOK
<1>6. CASE LaunchFails
  <2> USE <1>6 DEF LaunchFails
  <2>1. LoopTypeOK'
    BY DEF LoopTypeOK, Steps
  <2>2. MachineTypeOK'
    BY EventsType DEF MachineTypeOK
  <2> QED
    BY <2>1, <2>2
       DEF ServerTypeOK, ChannelTypeOK, StateTypeOK, TaskTypeOK
<1>7. CASE WorkerReports
  <2> USE <1>7 DEF WorkerReports
  <2>1. ServerTypeOK' /\ events' \in 0..MaxEvents
    BY ReportReadyType DEF StateTypeOK, AgentState
  <2>2. LoopTypeOK'
    BY DEF LoopTypeOK, Steps
  <2> QED
    BY <2>1, <2>2 DEF ChannelTypeOK, StateTypeOK, TaskTypeOK, MachineTypeOK
<1>8. CASE SaveAssigned
  <2> USE <1>8 DEF SaveAssigned
  <2>1. StateTypeOK'
    BY DEF StateTypeOK
  <2>2. LoopTypeOK'
    BY DEF LoopTypeOK, Steps
  <2> QED
    BY <2>1, <2>2
       DEF ServerTypeOK, ChannelTypeOK, TaskTypeOK, MachineTypeOK
<1>9. CASE WgDown
  <2> USE <1>9 DEF WgDown
  <2>1. LoopTypeOK'
    BY DEF LoopTypeOK, Steps
  <2>2. MachineTypeOK'
    BY TakeDownType DEF MachineTypeOK
  <2> QED
    BY <2>1, <2>2
       DEF ServerTypeOK, ChannelTypeOK, StateTypeOK, TaskTypeOK
<1>10. CASE StopPrima
  <2> USE <1>10 DEF StopPrima
  <2>1. StateTypeOK'
    BY ClearedType DEF StateTypeOK
  <2>2. LoopTypeOK'
    BY DEF LoopTypeOK, Steps
  <2>3. TaskTypeOK'
    BY DEF TaskTypeOK
  <2>4. MachineTypeOK'
    BY DEF MachineTypeOK
  <2> QED
    BY <2>1, <2>2, <2>3, <2>4
       DEF ServerTypeOK, ChannelTypeOK
<1>11. CASE Save
  <2> USE <1>11 DEF Save
  <2>1. StateTypeOK'
    BY DEF StateTypeOK
  <2>2. LoopTypeOK'
    BY DEF LoopTypeOK, Steps
  <2> QED
    BY <2>1, <2>2
       DEF ServerTypeOK, ChannelTypeOK, TaskTypeOK, MachineTypeOK
<1>12. CASE UndoTunnel
  <2> USE <1>12 DEF UndoTunnel
  <2>1. StateTypeOK'
    BY ClearedType DEF StateTypeOK
  <2>2. LoopTypeOK'
    BY DEF LoopTypeOK, Steps
  <2>3. MachineTypeOK'
    BY TakeDownType DEF MachineTypeOK
  <2> QED
    BY <2>1, <2>2, <2>3
       DEF ServerTypeOK, ChannelTypeOK, TaskTypeOK
<1>13. CASE StopPrimaFails
  <2> USE <1>13 DEF StopPrimaFails
  <2>1. LoopTypeOK'
    BY DEF LoopTypeOK, Steps
  <2>2. MachineTypeOK'
    BY EventsType DEF MachineTypeOK
  <2> QED
    BY <2>1, <2>2
       DEF ServerTypeOK, ChannelTypeOK, StateTypeOK, TaskTypeOK
<1>14. CASE StopDown
  <2> USE <1>14 DEF StopDown
  <2>1. LoopTypeOK'
    BY DEF LoopTypeOK, Steps
  <2>2. MachineTypeOK'
    BY TakeDownType DEF MachineTypeOK
  <2> QED
    BY <2>1, <2>2
       DEF ServerTypeOK, ChannelTypeOK, StateTypeOK, TaskTypeOK
<1>15. CASE StopKill
  <2> USE <1>15 DEF StopKill, ProcessEnds
  <2>1. StateTypeOK'
    BY FreshType DEF StateTypeOK
  <2>2. LoopTypeOK' /\ TaskTypeOK'
    BY DEF LoopTypeOK, Steps, TaskTypeOK
  <2>3. MachineTypeOK'
    BY DEF MachineTypeOK
  <2> QED
    BY <2>1, <2>2, <2>3 DEF ServerTypeOK, ChannelTypeOK
<1> QED
  BY <1>1, <1>2, <1>3, <1>4, <1>5, <1>6, <1>7, <1>8, <1>9, <1>10, <1>11, <1>12, <1>13, <1>14,
     <1>15 DEF HandlerStep

\* The steps the loop takes from rest.
RestingStep ==
    HandleFrame \/ MonitorStep \/ BeatStep \/ Stop \/ Connect \/ Disconnect \/ RelayMonitorEnds

LEMMA RestingStepType == ASSUME TypeOK, RestingStep PROVE TypeOK'
<1> USE DEF TypeOK, serverVars, chanVars, taskVars, osVars
<1>0. ASSUME NEW f, TakeFrame(f) PROVE chan' \in Seq(Frames)
  BY <1>0, HeadTailProperties DEF TakeFrame, ChannelTypeOK
<1>1. ASSUME NEW c \in Clusters, HandleAssigned(c) PROVE TypeOK'
  <2> USE <1>1 DEF HandleAssigned
  <2>1. ChannelTypeOK'
    BY <1>0 DEF ChannelTypeOK
  <2>2. StateTypeOK'
    <3>1. PICK pos \in {Rank[c], NoRank} :
             mem' = [mem EXCEPT !.cluster = c, !.pos = pos, !.status = "assigned"]
      OBVIOUS
    <3>2. c \in MaybeCluster /\ pos \in Ranks \cup {NoRank} /\ "assigned" \in States
      BY DEF Ranks, States
    <3> QED
      BY <3>1, <3>2, UpdatedType DEF StateTypeOK
  <2>3. LoopTypeOK'
    BY DEF LoopTypeOK, Steps
  <2> QED
    BY <2>1, <2>2, <2>3 DEF ServerTypeOK, TaskTypeOK, MachineTypeOK
<1>2. ASSUME NEW c \in Clusters, HandleDissolved(c) PROVE TypeOK'
  <2> USE <1>2 DEF HandleDissolved
  <2>1. ChannelTypeOK'
    BY <1>0 DEF ChannelTypeOK
  <2>2. LoopTypeOK' /\ TaskTypeOK'
    BY DEF LoopTypeOK, Steps, TaskTypeOK, CancelTasks
  <2> QED
    BY <2>1, <2>2 DEF ServerTypeOK, StateTypeOK, MachineTypeOK
<1>3. CASE MonitorSends
  <2> USE <1>3 DEF MonitorSends
  <2>1. ServerTypeOK' /\ TaskTypeOK'
    BY DEF ServerTypeOK, TaskTypeOK
  <2> QED
    BY <2>1 DEF ChannelTypeOK, StateTypeOK, LoopTypeOK, MachineTypeOK
<1>4. CASE MonitorReports
  <2> USE <1>4 DEF MonitorReports
  <2>1. ServerTypeOK' /\ events' \in 0..MaxEvents
    BY ReportReadyType DEF TaskTypeOK
  <2>2. TaskTypeOK'
    BY DEF TaskTypeOK
  <2> QED
    BY <2>1, <2>2 DEF ChannelTypeOK, StateTypeOK, LoopTypeOK, MachineTypeOK
<1>5. CASE Heartbeat
  <2> USE <1>5 DEF Heartbeat
  <2>1. StateTypeOK'
    BY UpdatedType, ClusterOfType DEF StateTypeOK
  <2>2. LoopTypeOK'
    BY DEF LoopTypeOK, Steps
  <2> QED
    BY <2>1, <2>2 DEF ServerTypeOK, ChannelTypeOK, TaskTypeOK, MachineTypeOK
<1>6. CASE HeartbeatFails
  <2> USE <1>6 DEF HeartbeatFails
  <2>1. LoopTypeOK'
    BY DEF LoopTypeOK, Steps
  <2>2. MachineTypeOK'
    BY EventsType DEF MachineTypeOK, RestFails
  <2> QED
    BY <2>1, <2>2 DEF ServerTypeOK, ChannelTypeOK, StateTypeOK, TaskTypeOK
<1>7. CASE Stop
  BY <1>7, EventsType, StopType DEF Stop, ServerTypeOK
<1>8. CASE Connect
  BY <1>8 DEF Connect, ServerTypeOK, ChannelTypeOK, StateTypeOK, LoopTypeOK, TaskTypeOK,
              MachineTypeOK
<1>9. CASE Disconnect
  <2> USE <1>9 DEF Disconnect
  <2>1. ChannelTypeOK'
    <3>1. PICK received \in 0..Len(chan) : chan' = SubSeq(chan, 1, received)
      OBVIOUS
    <3>2. received \in Int /\ \A i \in 1..received : chan[i] \in Frames
      BY <3>1, ElementOfSeq, LenProperties DEF ChannelTypeOK
    <3>3. SubSeq(chan, 1, received) \in Seq(Frames)
      BY <3>2, SubSeqProperties
    <3> QED
      BY <3>1, <3>3 DEF ChannelTypeOK
  <2>2. MachineTypeOK'
    BY EventsType DEF MachineTypeOK
  <2> QED
    BY <2>1, <2>2 DEF ServerTypeOK, StateTypeOK, LoopTypeOK, TaskTypeOK
<1>10. CASE RelayMonitorEnds
  <2> USE <1>10 DEF RelayMonitorEnds
  <2>1. lapses' \subseteq Lapses
    BY DEF MachineTypeOK, Lapses
  <2>2. MachineTypeOK'
    BY <2>1, EventsType DEF MachineTypeOK, LooksDown
  <2> QED
    BY <2>2 DEF ServerTypeOK, ChannelTypeOK, StateTypeOK, LoopTypeOK, TaskTypeOK
<1> QED
  BY <1>1, <1>2, <1>3, <1>4, <1>5, <1>6, <1>7, <1>8, <1>9, <1>10
     DEF RestingStep, HandleFrame, MonitorStep, BeatStep

LEMMA LaunchableStep == ASSUME TypeOK, Launchable, Next PROVE Launchable'
<1> USE DEF Launchable, serverVars, chanVars, taskVars, osVars
<1>1. CASE ServerStep \/ MachineStep
  BY <1>1 DEF ServerStep, FormCluster, DissolveCluster, RevokeWorker,
              MachineStep, MoveHost, PrimaExits, Crash, CrashWhileSaving, Killed, ProcessEnds
<1>2. CASE StartupStep
  BY <1>2 DEF StartupStep, Start, EndpointChanged, WorkerStillValid, WorkerNotConfirmed,
              Register, RegisterFails, StopAgent, StampAndSave, RecoverAssigned,
              RecoverUnassigned, RecoverFails
<1>3. CASE FetchConfig
  <2>1. mem.cluster \in Clusters /\ RingPosition \in Ranks
    BY <1>3 DEF FetchConfig, MemberOf, RingPosition, Ranks, TypeOK, StateTypeOK, AgentState
  <2>2. mem' = [mem EXCEPT !.pos = RingPosition] /\ mem \in AgentState
    BY <1>3 DEF FetchConfig, TypeOK, StateTypeOK
  <2> QED
    BY <2>1, <2>2 DEF AgentState
<1>4. CASE HandlerStep /\ ~FetchConfig
  <2>1. UNCHANGED mem \/ pc' \in {"save", "off"}
    BY <1>4 DEF HandlerStep, FetchConfigFails, WgUp, WgUpFails, StopAgent, Launch, LaunchFails,
                UndoTunnel, WorkerReports, SaveAssigned, WgDown, StopPrima, StopPrimaFails,
                Save, StopDown, StopKill, ProcessEnds
  <2>2. pc' \in {"up", "launch", "undo", "report"} => pc \in {"up", "launch", "undo", "report"}
    BY <1>4 DEF HandlerStep, FetchConfigFails, WgUp, WgUpFails, StopAgent, Launch, LaunchFails,
                UndoTunnel, WorkerReports, SaveAssigned, WgDown, StopPrima, StopPrimaFails,
                Save, StopDown, StopKill, ProcessEnds, Returned
  <2> QED
    BY <2>1, <2>2
<1>5. CASE RestingStep
  BY <1>5 DEF RestingStep, HandleFrame, HandleAssigned, HandleDissolved, MonitorStep,
              MonitorSends, MonitorReports, BeatStep, Heartbeat, HeartbeatFails, Stop,
              StopAgent, Connect, Disconnect, RelayMonitorEnds, TakeFrame
<1> QED
  BY <1>1, <1>2, <1>3, <1>4, <1>5 DEF Next, AgentStep, RestingStep

\* Every variable keeps its type, in every instance; what the launch of
\* prima.cpp is given (a cluster, a position) is part of the induction.
TypeInv == TypeOK /\ Launchable

LEMMA TypeInvariant == Spec => []TypeInv
<1>1. Init => TypeInv
  <2> SUFFICES ASSUME Init PROVE TypeInv
    OBVIOUS
  <2> USE DEF Init
  <2>1. ServerTypeOK /\ MachineTypeOK
    BY HostsAssumption, BoundsAssumption DEF ServerTypeOK, MachineTypeOK
  <2>2. ChannelTypeOK /\ StateTypeOK
    BY FreshType, EmptySeq DEF ChannelTypeOK, StateTypeOK
  <2>3. LoopTypeOK /\ TaskTypeOK /\ Launchable
    BY DEF LoopTypeOK, TaskTypeOK, Steps, Launchable
  <2> QED
    BY <2>1, <2>2, <2>3 DEF TypeInv, TypeOK
<1>2. TypeInv /\ [Next]_vars => TypeInv'
  <2> SUFFICES ASSUME TypeInv, [Next]_vars PROVE TypeInv'
    OBVIOUS
  <2> USE DEF TypeInv
  <2>1. CASE UNCHANGED vars
    BY <2>1 DEF vars, serverVars, chanVars, taskVars, osVars, TypeOK, ServerTypeOK,
                ChannelTypeOK, StateTypeOK, LoopTypeOK, TaskTypeOK, MachineTypeOK, Launchable
  <2>2. CASE Next
    BY <2>2, ServerStepType, MachineStepType, StartupStepType, HandlerStepType,
       RestingStepType, LaunchableStep DEF Next, AgentStep, RestingStep
  <2> QED
    BY <2>1, <2>2
<1> QED
  BY <1>1, <1>2, PTL DEF Spec

THEOREM TypeCorrect == Spec => []TypeOK
  BY TypeInvariant, PTL DEF TypeInv

-----------------------------------------------------------------------------
(* Startup and service *)

Starting == {"ensure", "register", "stamp", "recover"}
BringingUp == {"config", "up", "launch", "undo", "report"}

\* The process has ended, or Agent.stop is on its way to end it.
Ended == {"off", "stopDown", "stopKill"}

\* Startup holds the loop until the first heartbeat: till then no frame is
\* handled, and the event channel is not even opened.  Nor is one handled any
\* more once the channel is closed to stop.
LoopInv ==
    /\ pc \in Starting \cup {"beat"} => booting
    /\ pc \in Ended \cup {"idle", "saveAssigned", "tearDown", "kill"} => ~booting
    /\ booting \/ pc \in Ended => ~conn /\ chan = <<>>

LEMMA LoopInvStep == ASSUME LoopInv, Next PROVE LoopInv'
<1> USE DEF LoopInv, Starting, Ended, serverVars, chanVars, taskVars, osVars
<1>1. CASE ServerStep \/ MachineStep
  <2>1. CASE Crash \/ CrashWhileSaving
    BY <2>1 DEF Crash, CrashWhileSaving, Killed, ProcessEnds
  <2>2. CASE (ServerStep \/ MachineStep) /\ ~Crash /\ ~CrashWhileSaving
    <3>1. UNCHANGED <<pc, booting>>
      BY <2>2 DEF ServerStep, FormCluster, DissolveCluster, RevokeWorker,
                  MachineStep, MoveHost, PrimaExits
    <3>2. ~conn => ~conn' /\ UNCHANGED chan
      BY <2>2 DEF ServerStep, FormCluster, DissolveCluster, RevokeWorker, Push,
                  MachineStep, MoveHost, PrimaExits
    <3> QED
      BY <3>1, <3>2
  <2> QED
    BY <1>1, <2>1, <2>2
<1>2. CASE StartupStep
  BY <1>2 DEF StartupStep, Start, EndpointChanged, WorkerStillValid, WorkerNotConfirmed,
              Register, RegisterFails, StopAgent, StampAndSave, RecoverAssigned,
              RecoverUnassigned, RecoverFails
<1>3. CASE WgUpFails
  BY <1>3 DEF WgUpFails, StopAgent
<1>4. CASE HandlerStep /\ ~WgUpFails /\ ~StopDown /\ ~StopKill
  <2>1. UNCHANGED <<booting, conn, chan>> /\ pc \notin Ended /\ pc' \notin Ended
    BY <1>4 DEF HandlerStep, FetchConfig, FetchConfigFails, WgUp, Launch, LaunchFails,
                UndoTunnel, WorkerReports, SaveAssigned, WgDown, StopPrima, StopPrimaFails,
                Save, Returned
  <2>2. /\ pc' \in Starting \cup {"beat"} => booting
        /\ pc' \in {"idle", "saveAssigned", "tearDown", "kill"} => ~booting
    BY <1>4 DEF HandlerStep, FetchConfig, FetchConfigFails, WgUp, Launch, LaunchFails,
                UndoTunnel, WorkerReports, SaveAssigned, WgDown, StopPrima, StopPrimaFails,
                Save, Returned
  <2> QED
    BY <2>1, <2>2
<1>5. CASE Stop
  BY <1>5 DEF Stop, StopAgent
<1>6. CASE HandleFrame \/ BeatStep \/ MonitorStep \/ Connect \/ RelayMonitorEnds
  <2>1. CASE BeatStep
    BY <2>1 DEF BeatStep, Heartbeat, HeartbeatFails
  <2>2. CASE HandleFrame \/ MonitorStep \/ Connect \/ RelayMonitorEnds
    <3>1. pc = "idle" /\ UNCHANGED booting /\ pc' \in {"idle", "saveAssigned", "tearDown"}
      BY <2>2 DEF HandleFrame, HandleAssigned, HandleDissolved, TakeFrame, MonitorStep,
                  MonitorSends, MonitorReports, Connect, RelayMonitorEnds
    <3> QED
      BY <3>1
  <2> QED
    BY <1>6, <2>1, <2>2
<1>7. CASE Disconnect
  <2>1. UNCHANGED <<pc, booting>> /\ conn
    BY <1>7 DEF Disconnect
  <2> QED
    BY <2>1
<1>8. CASE StopDown \/ StopKill
  BY <1>8 DEF StopDown, StopKill, ProcessEnds
<1> QED
  BY <1>1, <1>2, <1>3, <1>4, <1>5, <1>6, <1>7, <1>8 DEF Next, AgentStep, HandlerStep

LEMMA LoopInvariant == Spec => []LoopInv
<1>1. Init => LoopInv
  BY DEF Init, LoopInv, Starting, Ended
<1>2. LoopInv /\ [Next]_vars => LoopInv'
  BY LoopInvStep DEF vars, chanVars, LoopInv
<1> QED
  BY <1>1, <1>2, PTL DEF Spec
=============================================================================
