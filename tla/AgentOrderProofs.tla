-------------------------- MODULE AgentOrderProofs -------------------------
(***************************************************************************)
(* The frames of the event channel: an assignment and the dissolve that    *)
(* ends it are never taken in the wrong order, so that the dissolve handler*)
(* may ignore which cluster its frame names, and a relay task is never     *)
(* left to the tunnel of another cluster.                                  *)
(***************************************************************************)
EXTENDS AgentProofs

USE DEF WorkerIds, NoWorker, NoKey, MaybeCluster

Current == ClusterOf(mem.worker)

Dissolves(i) == chan[i].type = "cluster_dissolved"

\* Every cluster the agent knows of has been formed: a new one is none of them.
FormedInv ==
    /\ mem.cluster \in formed \cup {NoCluster} /\ disk.cluster \in formed \cup {NoCluster}
    /\ wg \in formed \cup {NoCluster}
    /\ \A w \in WorkerIds : ClusterOf(w) \in formed \cup {NoCluster}
    /\ \A i \in 1..Len(chan) : chan[i].cluster \in formed
    /\ pc \in {"saveAssigned", "config"} => mem.cluster \in Clusters

\* An assignment with a dissolve behind it is over.
FrameInv ==
    \A i, j \in 1..Len(chan) :
        i < j /\ ~Dissolves(i) /\ Dissolves(j) => Current # chan[i].cluster

\* While a dissolve is to be handled, neither the tunnel nor the bring-up the
\* loop is in belongs to the cluster the worker is in.
Pending == pc = "tearDown" \/ \E i \in 1..Len(chan) : Dissolves(i)
PendingInv ==
    Pending =>
        /\ wg # NoCluster => Current # wg
        /\ pc \in {"saveAssigned"} \cup BringingUp => Current # mem.cluster

OrderInv == FormedInv /\ FrameInv /\ PendingInv

\* Frames are lost or taken from the front, never swapped.
Shrinks == \E k \in Nat : \A i \in 1..Len(chan') : i + k \in 1..Len(chan) /\ chan'[i] = chan[i + k]

LEMMA ChannelFacts ==
  ASSUME TypeInv
  PROVE  /\ UNCHANGED chan \/ chan' = <<>> => Shrinks
         /\ \A f : TakeFrame(f) =>
                Shrinks /\ Len(chan) \in Nat \ {0} /\ chan[1] = f
                    /\ Len(chan') = Len(chan) - 1
                    /\ \A i \in 1..Len(chan') : chan'[i] = chan[i + 1]
         /\ Disconnect => Shrinks
         /\ \A f \in Frames : chan' = Append(chan, f) =>
                /\ Len(chan) \in Nat /\ Len(chan') = Len(chan) + 1
                /\ chan'[Len(chan) + 1] = f
                /\ \A i \in 1..Len(chan) : chan'[i] = chan[i]
<1>0. chan \in Seq(Frames) /\ Len(chan) \in Nat
  BY LenProperties DEF TypeInv, TypeOK, ChannelTypeOK
<1>1. UNCHANGED chan \/ chan' = <<>> => Shrinks
  <2>1. CASE UNCHANGED chan
    <3>1. \A i \in 1..Len(chan') : i + 0 \in 1..Len(chan) /\ chan'[i] = chan[i + 0]
      BY <1>0, <2>1
    <3> QED
      BY <3>1 DEF Shrinks
  <2>2. CASE chan' = <<>>
    <3>1. Len(chan') = 0
      BY <2>2, EmptySeq
    <3>2. \A i \in 1..Len(chan') : i + 0 \in 1..Len(chan) /\ chan'[i] = chan[i + 0]
      BY <3>1
    <3> QED
      BY <3>2 DEF Shrinks
  <2> QED
    BY <2>1, <2>2
<1>2. ASSUME NEW f, TakeFrame(f)
      PROVE  /\ Shrinks /\ Len(chan) \in Nat \ {0} /\ chan[1] = f
             /\ Len(chan') = Len(chan) - 1
             /\ \A i \in 1..Len(chan') : chan'[i] = chan[i + 1]
  <2>1. chan # <<>> /\ Head(chan) = f /\ chan' = Tail(chan)
    BY <1>2 DEF TakeFrame
  <2>2. Len(chan) \in Nat \ {0} /\ chan[1] = f /\ Len(chan') = Len(chan) - 1
    BY <1>0, <2>1, HeadTailProperties, EmptySeq
  <2>3. \A i \in 1..Len(chan') : i + 1 \in 1..Len(chan) /\ chan'[i] = chan[i + 1]
    BY <1>0, <2>1, <2>2, HeadTailProperties
  <2> QED
    BY <2>2, <2>3 DEF Shrinks
<1>3. ASSUME Disconnect PROVE Shrinks
  <2>1. PICK received \in 0..Len(chan) : chan' = SubSeq(chan, 1, received)
    BY <1>3 DEF Disconnect
  <2>2. received \in Int /\ \A i \in 1..received : chan[i] \in Frames
    BY <1>0, <2>1, ElementOfSeq
  <2>3. Len(chan') = received /\ \A i \in 1..received : chan'[i] = chan[i]
    BY <1>0, <2>1, <2>2, SubSeqProperties
  <2>4. \A i \in 1..Len(chan') : i + 0 \in 1..Len(chan) /\ chan'[i] = chan[i + 0]
    BY <1>0, <2>1, <2>3
  <2> QED
    BY <2>4 DEF Shrinks
<1>4. ASSUME NEW f \in Frames, chan' = Append(chan, f)
      PROVE  /\ Len(chan') = Len(chan) + 1 /\ chan'[Len(chan) + 1] = f
             /\ \A i \in 1..Len(chan) : chan'[i] = chan[i]
  BY <1>0, <1>4, AppendProperties
<1> QED
  BY <1>0, <1>1, <1>2, <1>3, <1>4

LEMMA ShrinkingKeepsFrames ==
  ASSUME FormedInv, FrameInv, Shrinks, UNCHANGED <<registry, formed>>,
         mem'.worker = mem.worker
  PROVE  /\ \A i \in 1..Len(chan') : chan'[i].cluster \in formed'
         /\ FrameInv' /\ Current' = Current
         /\ (\E i \in 1..Len(chan) : Dissolves(i))' => \E i \in 1..Len(chan) : Dissolves(i)
<1>1. PICK k \in Nat : \A i \in 1..Len(chan') : i + k \in 1..Len(chan) /\ chan'[i] = chan[i + k]
  BY DEF Shrinks
<1>2. Current' = Current
  BY DEF Current, ClusterOf, Known
<1>3. FrameInv'
  <2> SUFFICES ASSUME NEW i \in 1..Len(chan'), NEW j \in 1..Len(chan'), i < j,
                      ~Dissolves(i)', Dissolves(j)'
               PROVE  Current' # chan'[i].cluster
    BY DEF FrameInv
  <2>1. i + k < j + k /\ ~Dissolves(i + k) /\ Dissolves(j + k)
    BY <1>1 DEF Dissolves
  <2> QED
    BY <1>1, <1>2, <2>1 DEF FrameInv
<1> QED
  BY <1>1, <1>2, <1>3 DEF FormedInv, Dissolves

\* In startup, on the way to the end and between two lives no frame waits to be
\* handled.
LEMMA StartupHasNoFrames ==
  ASSUME LoopInv', booting' \/ pc' \in Ended PROVE FrameInv' /\ PendingInv'
<1>1. chan' = <<>> /\ pc' # "tearDown"
  BY DEF LoopInv, Ended
<1>2. Len(chan') = 0
  BY <1>1, EmptySeq
<1> QED
  BY <1>1, <1>2 DEF FrameInv, PendingInv, Pending

\* A step that leaves the records alone names no cluster that was not known.
LEMMA KnownClustersKept ==
  ASSUME TypeInv, FormedInv, UNCHANGED <<registry, formed>>, Shrinks,
         mem'.cluster \in {mem.cluster, disk.cluster, NoCluster},
         disk'.cluster \in {mem.cluster, disk.cluster, NoCluster},
         wg' \in {mem.cluster, wg, NoCluster},
         pc' \in {"saveAssigned", "config"} =>
             pc \in {"saveAssigned", "config"} /\ mem'.cluster = mem.cluster
  PROVE  FormedInv'
<1>1. \A i \in 1..Len(chan') : chan'[i].cluster \in formed
  BY DEF Shrinks, FormedInv
<1>2. \A w \in WorkerIds : ClusterOf(w)' = ClusterOf(w)
  BY DEF ClusterOf, Known
<1> QED
  BY <1>1, <1>2 DEF FormedInv

LEMMA ServerStepFormed == ASSUME TypeInv, FormedInv, ServerStep PROVE FormedInv'
<1>0. registry \in [WorkerIds -> Records \cup {NoRecord}]
  BY DEF TypeInv, TypeOK, ServerTypeOK
<1>1. ASSUME NEW w \in WorkerIds, NEW c \in MaybeCluster, Known(w),
             registry' = [registry EXCEPT ![w].cluster = c]
      PROVE  \A v \in WorkerIds : ClusterOf(v)' = IF v = w THEN c ELSE ClusterOf(v)
  <2>1. [registry[w] EXCEPT !.cluster = c] \in Records
    BY <1>0, <1>1 DEF Known, Records
  <2>2. [registry[w] EXCEPT !.cluster = c].cluster = c
    BY <1>0, <1>1 DEF Known, Records
  <2> QED
    BY <1>0, <1>1, <2>1, <2>2, NoRecordAssumption DEF ClusterOf, Known
<1>2. ASSUME NEW type \in {"cluster_assigned", "cluster_dissolved"}, NEW c \in Clusters,
             Push(type, c) \/ UNCHANGED chan
      PROVE  \A i \in 1..Len(chan') : chan'[i].cluster \in formed \cup {c}
  <2> DEFINE frame == [type |-> type, cluster |-> c]
  <2>1. frame \in Frames /\ frame.cluster = c
    BY DEF Frames
  <2>2. \A i \in 1..Len(chan) : chan[i].cluster \in formed
    BY DEF FormedInv
  <2>3. UNCHANGED chan \/ chan' = Append(chan, frame)
    BY <1>2 DEF Push
  <2> HIDE DEF frame
  <2>4. CASE chan' = Append(chan, frame)
    <3>1. /\ Len(chan) \in Nat /\ Len(chan') = Len(chan) + 1
          /\ chan'[Len(chan) + 1] = frame
          /\ \A i \in 1..Len(chan) : chan'[i] = chan[i]
      BY <2>1, <2>4, ChannelFacts
    <3> QED
      BY <2>1, <2>2, <3>1
  <2> QED
    BY <2>2, <2>3, <2>4
<1>3. ASSUME NEW w \in WorkerIds, NEW c \in Clusters, FormCluster(w, c) PROVE FormedInv'
  <2>1. \A v \in WorkerIds : ClusterOf(v)' \in formed' \cup {NoCluster}
    BY <1>1, <1>3 DEF FormCluster, FormedInv
  <2>2. \A i \in 1..Len(chan') : chan'[i].cluster \in formed'
    BY <1>2, <1>3 DEF FormCluster
  <2> QED
    BY <1>3, <2>1, <2>2 DEF FormCluster, FormedInv, osVars
<1>4. ASSUME NEW w \in WorkerIds, DissolveCluster(w) PROVE FormedInv'
  <2>1. Known(w) /\ ClusterOf(w) \in formed /\ ClusterOf(w) \in Clusters
    BY <1>4, <1>0 DEF DissolveCluster, FormedInv, ClusterOf, Known, Records
  <2>2. \A v \in WorkerIds : ClusterOf(v)' \in formed \cup {NoCluster}
    BY <1>1, <1>4, <2>1 DEF DissolveCluster, FormedInv
  <2>3. \A i \in 1..Len(chan') : chan'[i].cluster \in formed
    BY <1>2, <1>4, <2>1 DEF DissolveCluster
  <2> QED
    BY <1>4, <2>2, <2>3 DEF DissolveCluster, FormedInv, osVars
<1>5. ASSUME NEW w \in WorkerIds, RevokeWorker(w) PROVE FormedInv'
  <2>1. \A v \in WorkerIds : ClusterOf(v)' \in {ClusterOf(v), NoCluster}
    BY <1>0, <1>5 DEF RevokeWorker, ClusterOf, Known
  <2> QED
    BY <1>5, <2>1 DEF RevokeWorker, FormedInv, osVars
<1> QED
  BY <1>3, <1>4, <1>5 DEF ServerStep

LEMMA FormedInvStep == ASSUME TypeInv, FormedInv, Next PROVE FormedInv'
<1> USE DEF serverVars, chanVars, taskVars, osVars
<1>0. mem \in AgentState /\ disk \in AgentState
  BY DEF TypeInv, TypeOK, StateTypeOK
<1>1. CASE MachineStep
  <2>1. UNCHANGED <<registry, formed>> /\ (UNCHANGED chan \/ chan' = <<>>)
    BY <1>1 DEF MachineStep, MoveHost, PrimaExits, Crash, CrashWhileSaving, Killed,
                ProcessEnds
  <2>2. mem' \in {mem, Fresh} /\ disk' \in {disk, Fresh} /\ wg' \in {wg, NoCluster}
    BY <1>1 DEF MachineStep, MoveHost, PrimaExits, Crash, CrashWhileSaving, Killed,
                ProcessEnds
  <2>3. pc' = "off" \/ UNCHANGED <<pc, mem>>
    BY <1>1 DEF MachineStep, MoveHost, PrimaExits, Crash, CrashWhileSaving, Killed,
                ProcessEnds
  <2>4. Shrinks
    BY <2>1, ChannelFacts
  <2> QED
    BY <2>1, <2>2, <2>3, <2>4, KnownClustersKept DEF Fresh
<1>2. ASSUME NEW key, CreateRecord(key)
      PROVE  \A w \in WorkerIds : ClusterOf(w)' \in {ClusterOf(w), NoCluster}
  BY <1>2 DEF CreateRecord, ClusterOf, Known, TypeInv, TypeOK, ServerTypeOK
<1>3. CASE Register \/ RegisterFails
  <2>1. formed' = formed /\ \A w \in WorkerIds : ClusterOf(w)' \in {ClusterOf(w), NoCluster}
    <3>1. CASE UNCHANGED serverVars
      BY <3>1 DEF ClusterOf, Known
    <3>2. CASE CreateRecord(RegistrationKey)
      BY <3>2, <1>2 DEF CreateRecord
    <3> QED
      BY <1>3, <3>1, <3>2 DEF Register, RegisterFails
  <2>2. Shrinks
    BY <1>3, ChannelFacts DEF Register, RegisterFails, StopAgent
  <2>3. /\ mem'.cluster \in {mem.cluster, NoCluster} /\ disk' = disk
        /\ wg' = wg /\ pc' \in {"stopDown", "stamp"}
    <3>1. CASE Register
      BY <1>0, <3>1 DEF Register, AgentState
    <3>2. CASE RegisterFails
      BY <3>2 DEF RegisterFails, StopAgent, Fresh
    <3> QED
      BY <1>3, <3>1, <3>2
  <2>4. \A i \in 1..Len(chan') : chan'[i].cluster \in formed
    BY <2>2 DEF Shrinks, FormedInv
  <2> QED
    BY <2>1, <2>3, <2>4 DEF FormedInv
<1>4. CASE RecoverAssigned
  <2>1. /\ mem'.cluster = ClusterOf(mem.worker) /\ mem'.cluster \in Clusters
        /\ mem.worker \in WorkerIds
    BY <1>0, <1>4, ClusterOfType
       DEF RecoverAssigned, AgentState, TypeInv, TypeOK, ClusterOf, Known
  <2>2. \A w \in WorkerIds : ClusterOf(w)' = ClusterOf(w)
    BY <1>4 DEF RecoverAssigned, ClusterOf, Known
  <2> QED
    BY <1>4, <2>1, <2>2 DEF RecoverAssigned, FormedInv
<1>5. CASE StartupStep /\ ~Register /\ ~RegisterFails /\ ~RecoverAssigned
  <2>1. /\ UNCHANGED <<registry, formed, chan, wg>>
        /\ pc' \in {"ensure", "register", "recover", "save", "beat"}
    BY <1>5 DEF StartupStep, Start, EndpointChanged, WorkerStillValid, WorkerNotConfirmed,
                StampAndSave, RecoverUnassigned, RecoverFails
  <2>2. mem'.cluster \in {mem.cluster, disk.cluster, NoCluster} /\ disk' \in {disk, mem'}
    BY <1>0, <1>5
       DEF StartupStep, Start, EndpointChanged, WorkerStillValid, WorkerNotConfirmed,
           Deregistered, StampAndSave, RecoverUnassigned, RecoverFails, AgentState
  <2>3. Shrinks
    BY <2>1, ChannelFacts
  <2> QED
    BY <2>1, <2>2, <2>3, KnownClustersKept
<1>6. CASE HandlerStep
  <2>1. UNCHANGED <<registry, formed>> /\ (UNCHANGED chan \/ chan' = <<>>)
    BY <1>6
       DEF HandlerStep, FetchConfig, FetchConfigFails, WgUp, WgUpFails, StopAgent, Launch,
           LaunchFails, UndoTunnel, WorkerReports, SaveAssigned, WgDown, TakeDown, StopPrima,
           StopPrimaFails, Save, StopDown, StopKill, ProcessEnds
  <2>2. mem'.cluster \in {mem.cluster, NoCluster}
    <3>1. CASE FetchConfig \/ UndoTunnel \/ StopPrima
      BY <1>0, <3>1 DEF FetchConfig, UndoTunnel, StopPrima, Waitlisted, AgentState
    <3>2. CASE StopKill
      BY <3>2 DEF StopKill, ProcessEnds, Fresh
    <3>3. CASE UNCHANGED mem
      BY <3>3
    <3> QED
      BY <1>6, <3>1, <3>2, <3>3
         DEF HandlerStep, FetchConfigFails, WgUp, WgUpFails, StopAgent, Launch, LaunchFails,
             WorkerReports, SaveAssigned, WgDown, StopPrimaFails, Save, StopDown
  <2>3. disk' \in {disk, mem}
    BY <1>6
       DEF HandlerStep, FetchConfig, FetchConfigFails, WgUp, WgUpFails, StopAgent, Launch,
           LaunchFails, UndoTunnel, WorkerReports, SaveAssigned, WgDown, TakeDown, StopPrima,
           StopPrimaFails, Save, StopDown, StopKill, ProcessEnds
  <2>4. wg' \in {mem.cluster, wg, NoCluster}
    BY <1>6
       DEF HandlerStep, FetchConfig, FetchConfigFails, WgUp, WgUpFails, StopAgent, Launch,
           LaunchFails, UndoTunnel, WorkerReports, SaveAssigned, WgDown, TakeDown, StopPrima,
           StopPrimaFails, Save, StopDown, StopKill, ProcessEnds
  <2>5. pc' \in {"saveAssigned", "config"} => pc = "saveAssigned" /\ UNCHANGED mem
    BY <1>6
       DEF HandlerStep, FetchConfig, FetchConfigFails, WgUp, WgUpFails, StopAgent, Launch,
           LaunchFails, UndoTunnel, WorkerReports, SaveAssigned, WgDown, TakeDown, StopPrima,
           StopPrimaFails, Save, StopDown, StopKill, ProcessEnds, Returned
  <2>6. Shrinks
    BY <2>1, ChannelFacts
  <2> QED
    BY <2>1, <2>2, <2>3, <2>4, <2>5, <2>6, KnownClustersKept
<1>7. ASSUME NEW c \in Clusters, HandleAssigned(c) PROVE FormedInv'
  <2>1. /\ Shrinks /\ Len(chan) \in Nat \ {0}
        /\ chan[1] = [type |-> "cluster_assigned", cluster |-> c]
    BY <1>7, ChannelFacts DEF HandleAssigned
  <2>2. c \in formed
    BY <2>1 DEF FormedInv
  <2>3. mem'.cluster = c
    BY <1>0, <1>7 DEF HandleAssigned, AgentState
  <2>4. \A i \in 1..Len(chan') : chan'[i].cluster \in formed
    BY <2>1 DEF Shrinks, FormedInv
  <2>5. \A w \in WorkerIds : ClusterOf(w)' = ClusterOf(w)
    BY <1>7 DEF HandleAssigned, ClusterOf, Known
  <2> QED
    BY <1>7, <2>2, <2>3, <2>4, <2>5 DEF HandleAssigned, FormedInv
<1>8. CASE RestingStep /\ ~(\E c \in Clusters : HandleAssigned(c))
  <2>1. UNCHANGED <<registry, formed, disk>> /\ wg' = wg
    BY <1>8
       DEF RestingStep, HandleFrame, HandleDissolved, MonitorStep, MonitorSends,
           MonitorReports, BeatStep, Heartbeat, HeartbeatFails, Stop, StopAgent, Connect,
           Disconnect, RelayMonitorEnds
  <2>2. mem'.cluster \in {mem.cluster, NoCluster}
    <3>1. CASE Heartbeat
      BY <1>0, <3>1 DEF Heartbeat, AgentState
    <3>2. CASE UNCHANGED mem
      BY <3>2
    <3> QED
      BY <1>8, <3>1, <3>2
         DEF RestingStep, HandleFrame, HandleDissolved, MonitorStep, MonitorSends,
             MonitorReports, BeatStep, HeartbeatFails, Stop, StopAgent, Connect, Disconnect,
             RelayMonitorEnds
  <2>3. pc' \in {"saveAssigned", "config"} => UNCHANGED <<pc, mem>>
    BY <1>8
       DEF RestingStep, HandleFrame, HandleDissolved, MonitorStep, MonitorSends,
           MonitorReports, BeatStep, Heartbeat, HeartbeatFails, Stop, StopAgent, Connect,
           Disconnect, RelayMonitorEnds
  <2>4. Shrinks
    <3>1. UNCHANGED chan \/ chan' = <<>> \/ Disconnect \/ \E f : TakeFrame(f)
      BY <1>8
         DEF RestingStep, HandleFrame, HandleDissolved, MonitorStep, MonitorSends,
             MonitorReports, BeatStep, Heartbeat, HeartbeatFails, Stop, StopAgent, Connect,
             RelayMonitorEnds
    <3> QED
      BY <3>1, ChannelFacts
  <2> QED
    BY <2>1, <2>2, <2>3, <2>4, KnownClustersKept
<1> QED
  BY <1>1, <1>3, <1>4, <1>5, <1>6, <1>7, <1>8, ServerStepFormed
     DEF Next, AgentStep, RestingStep, HandleFrame

\* Any other step leaves the records alone, takes frames from the front only,
\* and neither begins a bring-up nor raises another tunnel.
Uneventful ==
    /\ UNCHANGED <<registry, formed>> /\ mem'.worker = mem.worker /\ Shrinks
    /\ pc' = "tearDown" => Pending
    /\ wg' \in {wg, NoCluster} \/ (pc = "up" /\ wg' = mem.cluster)
    /\ pc' \in {"saveAssigned"} \cup BringingUp =>
           pc \in {"saveAssigned"} \cup BringingUp /\ mem'.cluster = mem.cluster

LEMMA UneventfulKeepsOrder ==
  ASSUME OrderInv, Uneventful PROVE FrameInv' /\ PendingInv'
<1>1. /\ FrameInv' /\ Current' = Current
      /\ (\E i \in 1..Len(chan) : Dissolves(i))' => \E i \in 1..Len(chan) : Dissolves(i)
  BY ShrinkingKeepsFrames DEF OrderInv, Uneventful
<1>2. Pending' => Pending
  BY <1>1 DEF Pending, Uneventful
<1>3. PendingInv'
  <2> SUFFICES ASSUME Pending'
               PROVE  /\ wg' # NoCluster => Current' # wg'
                      /\ pc' \in {"saveAssigned"} \cup BringingUp => Current' # mem'.cluster
    BY DEF PendingInv
  <2>1. /\ wg # NoCluster => Current # wg
        /\ pc \in {"saveAssigned"} \cup BringingUp => Current # mem.cluster
    BY <1>2 DEF OrderInv, PendingInv
  <2> QED
    BY <1>1, <2>1 DEF Uneventful, BringingUp
<1> QED
  BY <1>1, <1>3

LEMMA ServerKeepsOrder ==
  ASSUME TypeInv, OrderInv, ServerStep PROVE FrameInv' /\ PendingInv'
<1>0. registry \in [WorkerIds -> Records \cup {NoRecord}] /\ chan \in Seq(Frames)
  BY DEF TypeInv, TypeOK, ServerTypeOK, ChannelTypeOK
<1>a. \A i \in 1..Len(chan) : chan[i] \in Frames /\ chan[i].cluster \in formed
  BY <1>0, ElementOfSeq DEF OrderInv, FormedInv
<1>b. /\ wg # NoCluster => wg \in formed /\ wg \in Clusters
      /\ pc \in {"saveAssigned"} \cup BringingUp =>
             mem.cluster \in formed /\ mem.cluster \in Clusters
  BY ClustersAssumption
     DEF OrderInv, FormedInv, BringingUp, TypeInv, TypeOK, ServerTypeOK, Launchable
<1> USE DEF serverVars, chanVars, taskVars, osVars
<1>1. ASSUME NEW w \in WorkerIds, NEW c \in Clusters, FormCluster(w, c)
      PROVE  FrameInv' /\ PendingInv'
  <2> DEFINE frame == [type |-> "cluster_assigned", cluster |-> c]
  <2>1. frame \in Frames /\ frame.type = "cluster_assigned"
    BY DEF Frames
  <2>2. UNCHANGED chan \/ chan' = Append(chan, frame)
    BY <1>1 DEF FormCluster, Push
  <2> HIDE DEF frame
  <2>3. /\ \A i \in 1..Len(chan) : i \in 1..Len(chan') /\ chan'[i] = chan[i]
        /\ \A i \in 1..Len(chan') : i \in 1..Len(chan) \/ (i > Len(chan) /\ ~Dissolves(i)')
    <3>1. CASE UNCHANGED chan
      BY <3>1
    <3>2. CASE chan' = Append(chan, frame)
      <4>1. /\ Len(chan) \in Nat /\ Len(chan') = Len(chan) + 1
            /\ chan'[Len(chan) + 1] = frame
            /\ \A i \in 1..Len(chan) : chan'[i] = chan[i]
        BY <2>1, <3>2, ChannelFacts
      <4> QED
        BY <2>1, <4>1 DEF Dissolves
    <3> QED
      BY <2>2, <3>1, <3>2
  <2>4. Current' \in {Current, c} /\ c \notin formed
    <3>1. \A v : ClusterOf(v)' \in {ClusterOf(v), c}
      BY <1>0, <1>1 DEF FormCluster, ClusterOf, Known, Records
    <3> QED
      BY <1>1, <3>1 DEF FormCluster, Current
  <2>5. FrameInv'
    <3> SUFFICES ASSUME NEW i \in 1..Len(chan'), NEW j \in 1..Len(chan'), i < j,
                        ~Dissolves(i)', Dissolves(j)'
                 PROVE  Current' # chan'[i].cluster
      BY DEF FrameInv
    <3>1. i \in 1..Len(chan) /\ j \in 1..Len(chan) /\ chan'[i] = chan[i]
      BY <1>0, <2>3, LenProperties
    <3>2. ~Dissolves(i) /\ Dissolves(j)
      BY <2>3, <3>1 DEF Dissolves
    <3> QED
      BY <1>a, <2>4, <3>1, <3>2 DEF OrderInv, FrameInv
  <2>6. PendingInv'
    <3>1. Pending' => Pending
      BY <1>1, <2>3 DEF FormCluster, Pending, Dissolves
    <3>2. UNCHANGED <<wg, pc, mem>>
      BY <1>1 DEF FormCluster
    <3> QED
      BY <1>b, <2>4, <3>1, <3>2 DEF OrderInv, PendingInv
  <2> QED
    BY <2>5, <2>6
<1>2. ASSUME NEW w \in WorkerIds, DissolveCluster(w) PROVE FrameInv' /\ PendingInv'
  <2>1. UNCHANGED <<wg, pc, mem>>
    BY <1>2 DEF DissolveCluster
  <2>2. CASE w = mem.worker
    <3>1. Current' = NoCluster
      BY <1>0, <1>2, <2>1, <2>2, NoRecordAssumption
         DEF DissolveCluster, Current, ClusterOf, Known, Records
    <3>2. \A i \in 1..Len(chan') : chan'[i] \in Frames
      BY ServerStepType, ElementOfSeq DEF TypeInv, TypeOK, ChannelTypeOK
    <3>3. FrameInv'
      BY <3>1, <3>2, ClustersAssumption DEF FrameInv, Frames
    <3> QED
      BY <3>1, <3>3, <1>b, <2>1, ClustersAssumption DEF PendingInv
  <2>3. CASE w # mem.worker
    <3>1. Current' = Current /\ UNCHANGED chan
      BY <1>0, <1>2, <2>1, <2>3 DEF DissolveCluster, Current, ClusterOf, Known
    <3> QED
      BY <2>1, <3>1 DEF OrderInv, FrameInv, PendingInv, Pending, Dissolves
  <2> QED
    BY <2>2, <2>3
<1>3. ASSUME NEW w \in WorkerIds, RevokeWorker(w) PROVE FrameInv' /\ PendingInv'
  <2>1. UNCHANGED <<wg, pc, mem, chan>> /\ Current' \in {Current, NoCluster}
    BY <1>0, <1>3 DEF RevokeWorker, Current, ClusterOf, Known
  <2>2. FrameInv'
    BY <1>a, <2>1, ClustersAssumption DEF OrderInv, FrameInv, Frames, Dissolves
  <2>3. PendingInv'
    BY <1>b, <2>1, ClustersAssumption DEF OrderInv, PendingInv, Pending, Dissolves
  <2> QED
    BY <2>2, <2>3
<1> QED
  BY <1>1, <1>2, <1>3 DEF ServerStep

LEMMA OrderInvStep == ASSUME TypeInv, LoopInv, OrderInv, Next PROVE OrderInv'
<1> USE DEF serverVars, chanVars, taskVars, osVars
<1>0. mem \in AgentState
  BY DEF TypeInv, TypeOK, StateTypeOK
<1>a. FormedInv' /\ LoopInv'
  BY FormedInvStep, LoopInvStep DEF OrderInv
<1> SUFFICES FrameInv' /\ PendingInv'
  BY <1>a DEF OrderInv
<1>b. CASE booting' \/ pc' \in Ended
  BY <1>a, <1>b, StartupHasNoFrames
<1>1. CASE MachineStep
  <2>1. CASE Crash \/ CrashWhileSaving
    BY <1>b, <2>1 DEF Crash, CrashWhileSaving, Killed, ProcessEnds, Ended
  <2>2. CASE MachineStep /\ ~Crash /\ ~CrashWhileSaving
    <3>1. UNCHANGED <<registry, formed, chan, mem, pc, wg>>
      BY <2>2 DEF MachineStep, MoveHost, PrimaExits
    <3>2. Uneventful
      BY <3>1, ChannelFacts DEF Uneventful, Pending
    <3> QED
      BY <3>2, UneventfulKeepsOrder
  <2> QED
    BY <1>1, <2>1, <2>2
<1>2. CASE StartupStep
  <2>1. booting' \/ pc' \in Ended
    BY <1>2 DEF StartupStep, Start, EndpointChanged, WorkerStillValid, WorkerNotConfirmed,
                Register, RegisterFails, StopAgent, StampAndSave, RecoverAssigned,
                RecoverUnassigned, RecoverFails, LoopInv, Starting, Ended
  <2> QED
    BY <1>b, <2>1
<1>3. CASE HandlerStep /\ ~booting /\ ~StopDown /\ ~StopKill
  <2>1. UNCHANGED <<registry, formed, chan>> /\ pc' # "tearDown"
    BY <1>3
       DEF HandlerStep, FetchConfig, FetchConfigFails, WgUp, WgUpFails, Launch,
           LaunchFails, UndoTunnel, WorkerReports, SaveAssigned, WgDown, TakeDown, StopPrima,
           StopPrimaFails, Save, Returned
  <2>2. wg' \in {wg, NoCluster} \/ (pc = "up" /\ wg' = mem.cluster)
    BY <1>3
       DEF HandlerStep, FetchConfig, FetchConfigFails, WgUp, WgUpFails, Launch,
           LaunchFails, UndoTunnel, WorkerReports, SaveAssigned, WgDown, TakeDown, StopPrima,
           StopPrimaFails, Save
  <2>3. mem'.worker = mem.worker
    BY <1>0, <1>3
       DEF HandlerStep, FetchConfig, FetchConfigFails, WgUp, WgUpFails, Launch,
           LaunchFails, UndoTunnel, WorkerReports, SaveAssigned, WgDown, TakeDown, StopPrima,
           StopPrimaFails, Save, Waitlisted,
           AgentState
  <2>4. pc' \in {"saveAssigned"} \cup BringingUp =>
            pc \in {"saveAssigned"} \cup BringingUp /\ mem'.cluster = mem.cluster
    BY <1>0, <1>3
       DEF HandlerStep, FetchConfig, FetchConfigFails, WgUp, WgUpFails, Launch,
           LaunchFails, UndoTunnel, WorkerReports, SaveAssigned, WgDown, TakeDown, StopPrima,
           StopPrimaFails, Save, Returned,
           BringingUp, AgentState
  <2>5. Uneventful
    BY <2>1, <2>2, <2>3, <2>4, ChannelFacts DEF Uneventful
  <2> QED
    BY <2>5, UneventfulKeepsOrder
<1>4. CASE (HandlerStep /\ booting) \/ StopDown \/ StopKill
  <2>1. booting' \/ pc' \in Ended
    BY <1>4
       DEF HandlerStep, FetchConfig, FetchConfigFails, WgUp, WgUpFails, StopAgent, Launch,
           LaunchFails, UndoTunnel, WorkerReports, SaveAssigned, WgDown, StopPrima,
           StopPrimaFails, Save, StopDown, StopKill, ProcessEnds, Ended
  <2> QED
    BY <1>b, <2>1
<1>5. ASSUME NEW c \in Clusters, HandleAssigned(c) PROVE FrameInv' /\ PendingInv'
  <2>1. /\ Shrinks /\ Len(chan) \in Nat \ {0} /\ Len(chan') = Len(chan) - 1
        /\ chan[1] = [type |-> "cluster_assigned", cluster |-> c]
        /\ \A i \in 1..Len(chan') : chan'[i] = chan[i + 1]
    BY <1>5, ChannelFacts DEF HandleAssigned
  <2>2. mem'.worker = mem.worker /\ mem'.cluster = c /\ wg' = wg /\ pc' = "saveAssigned"
    BY <1>0, <1>5 DEF HandleAssigned, AgentState
  <2>3. /\ FrameInv' /\ Current' = Current
        /\ (\E i \in 1..Len(chan) : Dissolves(i))' => \E i \in 1..Len(chan) : Dissolves(i)
    BY <1>5, <2>1, <2>2, ShrinkingKeepsFrames DEF HandleAssigned, OrderInv
  <2>4. ASSUME Pending'
        PROVE  /\ wg' # NoCluster => Current' # wg'
               /\ pc' \in {"saveAssigned"} \cup BringingUp => Current' # mem'.cluster
    <3>1. PICK i \in 1..Len(chan') : chan'[i].type = "cluster_dissolved"
      BY <2>2, <2>4 DEF Pending, Dissolves
    <3>2. 1 \in 1..Len(chan) /\ i + 1 \in 1..Len(chan) /\ 1 < i + 1 /\ Dissolves(i + 1)
          /\ ~Dissolves(1) /\ chan[1].cluster = c
      BY <2>1, <3>1 DEF Dissolves
    <3>3. Current # c
      BY <3>2 DEF OrderInv, FrameInv
    <3>4. wg # NoCluster => Current # wg
      BY <3>2 DEF OrderInv, PendingInv, Pending
    <3> QED
      BY <2>2, <2>3, <3>3, <3>4
  <2> QED
    BY <2>3, <2>4 DEF PendingInv
<1>6. ASSUME NEW c \in Clusters, HandleDissolved(c) PROVE FrameInv' /\ PendingInv'
  <2>1. /\ Shrinks /\ 1 \in 1..Len(chan)
        /\ chan[1] = [type |-> "cluster_dissolved", cluster |-> c]
    BY <1>6, ChannelFacts DEF HandleDissolved
  <2>2. Uneventful
    BY <1>6, <2>1 DEF HandleDissolved, Uneventful, Pending, Dissolves, BringingUp
  <2> QED
    BY <2>2, UneventfulKeepsOrder
<1>7. CASE Stop
  BY <1>b, <1>7 DEF Stop, StopAgent, Ended
<1>8. CASE MonitorStep \/ BeatStep \/ Connect \/ Disconnect \/ RelayMonitorEnds
  <2>1. UNCHANGED <<registry, formed, wg>> /\ (UNCHANGED chan \/ Disconnect)
    BY <1>8 DEF MonitorStep, MonitorSends, MonitorReports, BeatStep, Heartbeat,
                HeartbeatFails, Connect, Disconnect, RelayMonitorEnds
  <2>2. mem'.worker = mem.worker
    BY <1>0, <1>8 DEF MonitorStep, MonitorSends, MonitorReports, BeatStep, Heartbeat,
                      HeartbeatFails, Connect, Disconnect, RelayMonitorEnds, AgentState
  <2>3. pc' \in {"save", "idle"} \/ UNCHANGED <<pc, mem>>
    BY <1>8 DEF MonitorStep, MonitorSends, MonitorReports, BeatStep, Heartbeat,
                HeartbeatFails, Connect, Disconnect, RelayMonitorEnds
  <2>4. Uneventful
    BY <2>1, <2>2, <2>3, ChannelFacts DEF Uneventful, Pending, BringingUp
  <2> QED
    BY <2>4, UneventfulKeepsOrder
<1> QED
  BY <1>1, <1>2, <1>3, <1>4, <1>5, <1>6, <1>7, <1>8, ServerKeepsOrder
     DEF Next, AgentStep, HandleFrame

LEMMA OrderInvariant == Spec => []OrderInv
<1>1. Init => OrderInv
  <2> SUFFICES ASSUME Init PROVE OrderInv
    OBVIOUS
  <2>1. Len(chan) = 0
    BY EmptySeq DEF Init
  <2>2. FormedInv
    BY <2>1 DEF Init, FormedInv, Fresh, ClusterOf, Known
  <2> QED
    BY <2>1, <2>2 DEF Init, OrderInv, FrameInv, PendingInv, Pending
<1>2. TypeInv /\ LoopInv /\ OrderInv /\ [Next]_vars => OrderInv'
  <2> SUFFICES ASSUME TypeInv, LoopInv, OrderInv, [Next]_vars PROVE OrderInv'
    OBVIOUS
  <2>1. CASE UNCHANGED vars
    BY <2>1 DEF vars, serverVars, chanVars, osVars, OrderInv, FormedInv, FrameInv, PendingInv,
                Pending, Dissolves, Current, ClusterOf, Known
  <2> QED
    BY <2>1, OrderInvStep
<1> QED
  BY <1>1, <1>2, TypeInvariant, LoopInvariant, PTL DEF Spec

\* The dissolved handler looks at no id, yet the tunnel it takes down is never
\* that of a cluster the worker is in: frames keep their order, a broken channel
\* loses only the last ones, and no cluster is formed twice (agent.py:446,
\* ws_client.py:45).
THEOREM DissolveTakesTheOldTunnel == Spec => []DissolveIsCurrent
<1>1. OrderInv => DissolveIsCurrent
  BY DEF OrderInv, PendingInv, Pending, Current, DissolveIsCurrent
<1> QED
  BY <1>1, OrderInvariant, PTL

-----------------------------------------------------------------------------
(* The relay task *)

\* Nothing pushed from now on would be a second assignment: the channel is
\* closed, or the worker is in a cluster, whose dissolve comes first, or it has
\* no record to form a cluster with.
Covered == ~conn \/ Current # NoCluster \/ ~Known(mem.worker)

\* What comes after the first i frames begins with a dissolve.
Followed(i) == IF i < Len(chan) THEN Dissolves(i + 1) ELSE Covered

\* An assignment has been taken and its dissolve has not, as far as the relay
\* task is concerned: the loop works for it, or has left a task without a tunnel.
Bound == pc \in {"saveAssigned"} \cup BringingUp \/ (relay # NoCluster /\ wg = NoCluster)

\* Between two assignments there is a dissolve, which takes the task away.  A
\* task without a tunnel is left only where the next round or frame ends it.
TaskInv ==
    /\ \A i \in 1..Len(chan) : ~Dissolves(i) => Followed(i)
    /\ Bound => Followed(0)
    /\ relay # NoCluster => wg = relay \/ (wg = NoCluster /\ pc \in {"save", "beat", "idle"})
    /\ pc \in Ended \cup {"tearDown"} => relay = NoCluster

LEMMA ServerKeepsFollowing ==
  ASSUME TypeInv, ServerStep
  PROVE  /\ \A i \in 0..Len(chan) : Followed(i) => Followed(i)'
         /\ \A i \in 1..Len(chan') :
                \/ i \in 1..Len(chan) /\ Dissolves(i)' = Dissolves(i)
                \/ ~Dissolves(i)' => Followed(i)'
<1>0. /\ registry \in [WorkerIds -> Records \cup {NoRecord}] /\ chan \in Seq(Frames)
      /\ Len(chan) \in Nat
  BY LenProperties DEF TypeInv, TypeOK, ServerTypeOK, ChannelTypeOK
<1>n. PICK n \in Nat : n = Len(chan)
  BY <1>0
<1> DEFINE Goal == /\ \A i \in 0..Len(chan) : Followed(i) => Followed(i)'
                   /\ \A i \in 1..Len(chan') :
                          \/ i \in 1..Len(chan) /\ Dissolves(i)' = Dissolves(i)
                          \/ ~Dissolves(i)' => Followed(i)'
<1>1. ASSUME UNCHANGED chan, Covered => Covered' PROVE Goal
  BY <1>1 DEF Followed, Dissolves
<1>2. ASSUME NEW w \in WorkerIds, w # mem.worker, UNCHANGED <<chan, mem>>, conn' => conn,
             \A v \in WorkerIds : v # w => registry'[v] = registry[v]
      PROVE  Goal
  <2>1. Covered => Covered'
    BY <1>2 DEF Covered, Current, ClusterOf, Known
  <2> QED
    BY <1>1, <1>2, <2>1
<1>3. ASSUME NEW f \in Frames, chan' = Append(chan, f)
      PROVE  /\ Len(chan') = Len(chan) + 1 /\ chan'[Len(chan) + 1] = f
             /\ \A i \in 1..Len(chan) : chan'[i] = chan[i] /\ Dissolves(i)' = Dissolves(i)
             /\ \A i \in 0..Len(chan) : i < Len(chan) => Followed(i)' = Followed(i)
  <2>1. /\ Len(chan') = Len(chan) + 1 /\ chan'[Len(chan) + 1] = f
        /\ \A i \in 1..Len(chan) : chan'[i] = chan[i]
    BY <1>3, ChannelFacts
  <2>2. \A i \in 1..Len(chan) : Dissolves(i)' = Dissolves(i)
    BY <2>1 DEF Dissolves
  <2>3. ASSUME NEW i \in 0..Len(chan), i < Len(chan) PROVE Followed(i)' = Followed(i)
    <3>1. i + 1 \in 1..Len(chan) /\ i < Len(chan')
      BY <1>0, <2>1, <2>3
    <3> QED
      BY <2>2, <2>3, <3>1 DEF Followed
  <2> QED
    BY <2>1, <2>2, <2>3
<1> USE DEF serverVars, chanVars
<1>4. ASSUME NEW w \in WorkerIds, NEW c \in Clusters, FormCluster(w, c) PROVE Goal
  <2>1. CASE w # mem.worker
    BY <1>2, <1>4, <2>1 DEF FormCluster
  <2>2. CASE w = mem.worker /\ ~conn
    BY <1>1, <1>4, <2>2 DEF FormCluster, Push, Covered
  <2>3. CASE w = mem.worker /\ conn
    <3> DEFINE f == [type |-> "cluster_assigned", cluster |-> c]
    <3>1. f \in Frames /\ chan' = Append(chan, f)
      BY <1>4, <2>3 DEF FormCluster, Push, Frames
    <3>2. ~Covered
      BY <1>4, <2>3 DEF FormCluster, Covered, Current, ClusterOf
    <3>3. Current' = c
      BY <1>0, <1>4, <2>3, NoRecordAssumption
         DEF FormCluster, Current, ClusterOf, Known, Records
    <3>4. Covered'
      BY <3>3, ClustersAssumption DEF Covered
    <3>5. ~Followed(n)
      BY <1>n, <3>2 DEF Followed
    <3> HIDE DEF f
    <3>6. Len(chan') = n + 1 /\ Followed(n + 1)'
      BY <1>n, <1>3, <3>1, <3>4 DEF Followed
    <3>7. ASSUME NEW i \in 0..Len(chan), Followed(i) PROVE Followed(i)'
      <4>1. i # n
        BY <3>5, <3>7
      <4>2. i < Len(chan)
        BY <1>n, <4>1
      <4> QED
        BY <1>3, <3>1, <3>7, <4>2
    <3>8. ASSUME NEW i \in 1..Len(chan')
          PROVE  \/ i \in 1..Len(chan) /\ Dissolves(i)' = Dissolves(i)
                 \/ ~Dissolves(i)' => Followed(i)'
      <4>1. CASE i = n + 1
        BY <3>6, <4>1
      <4>2. CASE i # n + 1
        <5>1. i \in 1..Len(chan)
          BY <1>n, <3>6, <4>2
        <5> QED
          BY <1>3, <3>1, <5>1
      <4> QED
        BY <4>1, <4>2
    <3> QED
      BY <3>7, <3>8
  <2> QED
    BY <2>1, <2>2, <2>3
<1>5. ASSUME NEW w \in WorkerIds, DissolveCluster(w) PROVE Goal
  <2>1. CASE w # mem.worker
    BY <1>2, <1>5, <2>1 DEF DissolveCluster
  <2>2. CASE w = mem.worker /\ ~conn
    BY <1>1, <1>5, <2>2 DEF DissolveCluster, Push, Covered
  <2>3. CASE w = mem.worker /\ conn
    <3> DEFINE f == [type |-> "cluster_dissolved", cluster |-> ClusterOf(w)]
    <3>1. ClusterOf(w) \in Clusters
      BY <1>5, ClusterOfType DEF DissolveCluster, TypeInv, TypeOK
    <3>2. f \in Frames /\ f.type = "cluster_dissolved" /\ chan' = Append(chan, f)
      BY <1>5, <2>3, <3>1 DEF DissolveCluster, Push, Frames
    <3> HIDE DEF f
    <3>3. Len(chan') = n + 1 /\ Dissolves(n + 1)' /\ Followed(n)'
      BY <1>n, <1>3, <3>2 DEF Followed, Dissolves
    <3>4. ASSUME NEW i \in 0..Len(chan), Followed(i) PROVE Followed(i)'
      <4>1. CASE i = n
        BY <3>3, <4>1
      <4>2. CASE i < Len(chan)
        BY <1>3, <3>2, <3>4, <4>2
      <4> QED
        BY <1>n, <4>1, <4>2
    <3>5. ASSUME NEW i \in 1..Len(chan')
          PROVE  \/ i \in 1..Len(chan) /\ Dissolves(i)' = Dissolves(i)
                 \/ ~Dissolves(i)' => Followed(i)'
      <4>1. CASE i = n + 1
        BY <3>3, <4>1
      <4>2. CASE i # n + 1
        <5>1. i \in 1..Len(chan)
          BY <1>n, <3>3, <4>2
        <5> QED
          BY <1>3, <3>2, <5>1
      <4> QED
        BY <4>1, <4>2
    <3> QED
      BY <3>4, <3>5
  <2> QED
    BY <2>1, <2>2, <2>3
<1>6. ASSUME NEW w \in WorkerIds, RevokeWorker(w) PROVE Goal
  <2>0. conn' => conn
    BY <1>6, Zenon DEF RevokeWorker
  <2>1. CASE w # mem.worker
    BY <1>2, <1>6, <2>0, <2>1 DEF RevokeWorker
  <2>2. CASE w = mem.worker
    <3>1. ~Known(mem.worker)'
      BY <1>0, <1>6, <2>2 DEF RevokeWorker, Known
    <3> QED
      BY <1>1, <1>6, <3>1 DEF RevokeWorker, Covered
  <2> QED
    BY <2>1, <2>2
<1> QED
  BY <1>4, <1>5, <1>6 DEF ServerStep

\* Frames taken from the front and frames lost at the end change nothing about
\* what comes after the others.
LEMMA TakingKeepsFollowing ==
  ASSUME TypeInv, NEW f, TakeFrame(f), UNCHANGED <<registry, conn>>, mem'.worker = mem.worker
  PROVE  /\ chan[1] = f /\ 1 \in 1..Len(chan)
         /\ \A i \in 0..Len(chan') : Followed(i)' = Followed(i + 1)
         /\ \A i \in 1..Len(chan') : i + 1 \in 1..Len(chan) /\ Dissolves(i)' = Dissolves(i + 1)
<1>1. /\ Len(chan) \in Nat \ {0} /\ chan[1] = f /\ Len(chan') = Len(chan) - 1
      /\ \A i \in 1..Len(chan') : chan'[i] = chan[i + 1]
  BY ChannelFacts
<1>2. \A i \in 1..Len(chan') : i + 1 \in 1..Len(chan) /\ Dissolves(i)' = Dissolves(i + 1)
  BY <1>1 DEF Dissolves
<1>3. Covered' = Covered
  BY DEF Covered, Current, ClusterOf, Known
<1>4. ASSUME NEW i \in 0..Len(chan') PROVE Followed(i)' = Followed(i + 1)
  <2>1. i < Len(chan') <=> i + 1 < Len(chan)
    BY <1>1
  <2>2. i < Len(chan') => i + 1 \in 1..Len(chan')
    BY <1>1
  <2> QED
    BY <1>2, <1>3, <2>1, <2>2 DEF Followed
<1> QED
  BY <1>1, <1>2, <1>4

LEMMA DisconnectKeepsFollowing ==
  ASSUME TypeInv, Disconnect
  PROVE  /\ \A i \in 0..Len(chan') : Followed(i) => Followed(i)'
         /\ \A i \in 1..Len(chan') : i \in 1..Len(chan) /\ Dissolves(i)' = Dissolves(i)
<1>0. chan \in Seq(Frames) /\ Len(chan) \in Nat
  BY LenProperties DEF TypeInv, TypeOK, ChannelTypeOK
<1>1. ~conn'
  BY DEF Disconnect
<1>2. PICK received \in 0..Len(chan) : chan' = SubSeq(chan, 1, received)
  BY DEF Disconnect
<1>3. received \in Int /\ \A i \in 1..received : chan[i] \in Frames
  BY <1>0, <1>2, ElementOfSeq
<1>4. Len(chan') = received /\ \A i \in 1..received : chan'[i] = chan[i]
  BY <1>0, <1>2, <1>3, SubSeqProperties
<1>5. \A i \in 1..Len(chan') : i \in 1..Len(chan) /\ Dissolves(i)' = Dissolves(i)
  BY <1>0, <1>4 DEF Dissolves
<1>6. ASSUME NEW i \in 0..Len(chan'), Followed(i) PROVE Followed(i)'
  <2>1. CASE i < Len(chan')
    <3>1. i + 1 \in 1..Len(chan') /\ i < Len(chan)
      BY <1>0, <1>4, <2>1
    <3> QED
      BY <1>5, <1>6, <2>1, <3>1 DEF Followed
  <2>2. CASE ~(i < Len(chan'))
    BY <1>1, <2>2 DEF Followed, Covered
  <2> QED
    BY <2>1, <2>2
<1> QED
  BY <1>5, <1>6

\* Any other step keeps the frames and what may come after them.
LEMMA SameFrames ==
  ASSUME UNCHANGED <<chan, registry>>, mem'.worker = mem.worker, conn' => conn
  PROVE  /\ \A i : Dissolves(i)' = Dissolves(i)
         /\ \A i \in 0..Len(chan) : Followed(i) => Followed(i)'
<1>1. Covered => Covered'
  BY DEF Covered, Current, ClusterOf, Known
<1> QED
  BY <1>1 DEF Followed, Dissolves

\* Without frames and with the channel closed there is nothing to come.
LEMMA NoFrames ==
  ASSUME chan' = <<>>, ~conn'
  PROVE  (\A i \in 1..Len(chan) : ~Dissolves(i) => Followed(i))' /\ Followed(0)'
<1>1. Len(chan') = 0
  BY EmptySeq
<1> QED
  BY <1>1 DEF Followed, Covered

LEMMA TaskInvStep == ASSUME TypeInv, LoopInv, TaskInv, Next PROVE TaskInv'
<1> USE DEF serverVars, chanVars, taskVars, osVars
<1>0. mem \in AgentState /\ chan \in Seq(Frames) /\ Len(chan) \in Nat
  BY LenProperties DEF TypeInv, TypeOK, StateTypeOK, ChannelTypeOK
<1>a. LoopInv'
  BY LoopInvStep
<1>b. ASSUME relay' = NoCluster, booting' \/ pc' \in Ended PROVE TaskInv'
  BY <1>a, <1>b, NoFrames DEF LoopInv, TaskInv
<1>c. ASSUME UNCHANGED <<chan, registry>>, mem'.worker = mem.worker, conn' => conn,
             Bound' => Bound,
             relay' # NoCluster =>
                 wg' = relay' \/ (wg' = NoCluster /\ pc' \in {"save", "beat", "idle"}),
             pc' \in Ended \cup {"tearDown"} => relay' = NoCluster
      PROVE  TaskInv'
  BY <1>0, <1>c, SameFrames DEF TaskInv
<1>1. CASE ServerStep
  <2>1. UNCHANGED <<pc, relay, wg>>
    BY <1>1 DEF ServerStep, FormCluster, DissolveCluster, RevokeWorker
  <2>2. \A i \in 1..Len(chan') : ~Dissolves(i)' => Followed(i)'
    BY <1>0, <1>1, ServerKeepsFollowing DEF TaskInv
  <2>3. Bound' => Followed(0)'
    <3>1. Bound' => Bound
      BY <2>1 DEF Bound
    <3> QED
      BY <1>0, <1>1, <3>1, ServerKeepsFollowing DEF TaskInv
  <2> QED
    BY <2>1, <2>2, <2>3 DEF TaskInv
<1>2. CASE Crash \/ CrashWhileSaving \/ Stop \/ RegisterFails \/ (WgUpFails /\ booting)
  BY <1>b, <1>2 DEF Crash, CrashWhileSaving, Killed, ProcessEnds, CancelTasks, Stop,
                    RegisterFails, WgUpFails, StopAgent, Ended
<1>3. CASE (\E h \in Hosts : MoveHost(h)) \/ (\E p \in prima : PrimaExits(p))
  <2>1. UNCHANGED <<chan, registry, mem, conn, pc, relay, wg>>
    BY <1>3 DEF MoveHost, PrimaExits
  <2> QED
    BY <1>c, <2>1 DEF TaskInv, Bound
<1>4. CASE StartupStep /\ ~RegisterFails
  <2>1. UNCHANGED <<relay, wg>> /\ booting' /\ pc \in {"off"} \cup Starting
        /\ pc' \notin Ended \cup {"tearDown"}
    BY <1>4 DEF StartupStep, Start, EndpointChanged, WorkerStillValid, WorkerNotConfirmed,
                Register, StampAndSave, RecoverAssigned, RecoverUnassigned, RecoverFails,
                Starting, Ended, LoopInv
  <2>2. relay # NoCluster => wg = relay
    BY <2>1 DEF TaskInv, Starting
  <2>3. ~conn' /\ chan' = <<>>
    BY <1>a, <2>1 DEF LoopInv
  <2> QED
    BY <2>1, <2>2, <2>3, NoFrames DEF TaskInv
<1>5. CASE HandlerStep /\ ~(WgUpFails /\ booting) /\ ~StopDown /\ ~StopKill
  <2>1. UNCHANGED <<chan, registry, conn>> /\ pc' \notin Ended \cup {"tearDown"}
    BY <1>5
       DEF HandlerStep, FetchConfig, FetchConfigFails, WgUp, WgUpFails, Launch,
           LaunchFails, UndoTunnel, WorkerReports, SaveAssigned, WgDown, StopPrima,
           StopPrimaFails, Save, Returned, Ended
  <2>2. mem'.worker = mem.worker
    BY <1>0, <1>5
       DEF HandlerStep, FetchConfig, FetchConfigFails, WgUp, WgUpFails, Launch,
           LaunchFails, UndoTunnel, WorkerReports, SaveAssigned, WgDown, StopPrima,
           StopPrimaFails, Save, Waitlisted, AgentState
  <2>3. CASE WgUp
    <3>1. relay = NoCluster /\ wg = NoCluster /\ pc = "up"
      BY <2>3 DEF WgUp, TaskInv
    <3>2. wg' = mem.cluster /\ relay' \in {mem.cluster, NoCluster}
      BY <2>3, <3>1 DEF WgUp
    <3>3. Bound
      BY <3>1 DEF Bound, BringingUp
    <3> QED
      BY <1>c, <2>1, <2>2, <3>2, <3>3
  <2>4. CASE UndoTunnel
    <3>1. Bound /\ wg' \in {wg, NoCluster} /\ relay' = relay /\ pc = "undo" /\ pc' = "save"
      BY <2>4 DEF UndoTunnel, TakeDown, Bound, BringingUp
    <3> QED
      BY <1>c, <2>1, <2>2, <3>1 DEF TaskInv
  <2>5. CASE WgDown
    <3>1. relay' = NoCluster /\ pc' = "kill"
      BY <2>5 DEF WgDown, TaskInv
    <3>2. ~Bound'
      BY <3>1 DEF Bound, BringingUp
    <3> QED
      BY <1>c, <2>1, <2>2, <3>1, <3>2
  <2>6. CASE ~WgUp /\ ~UndoTunnel /\ ~WgDown
    <3>1. UNCHANGED <<relay, wg>>
      BY <1>5, <2>6
         DEF HandlerStep, FetchConfig, FetchConfigFails, WgUpFails, Launch, LaunchFails,
             WorkerReports, SaveAssigned, StopPrima, StopPrimaFails, Save
    <3>2. /\ pc' \in {"saveAssigned"} \cup BringingUp => pc \in {"saveAssigned"} \cup BringingUp
          /\ pc \in {"save", "beat", "idle"} => pc' \in {"save", "beat", "idle"}
      BY <1>5, <2>6
         DEF HandlerStep, FetchConfig, FetchConfigFails, WgUpFails, Launch, LaunchFails,
             WorkerReports, SaveAssigned, StopPrima, StopPrimaFails, Save, Returned,
             BringingUp
    <3>3. Bound' => Bound
      BY <3>1, <3>2 DEF Bound
    <3> QED
      BY <1>c, <2>1, <2>2, <3>1, <3>2, <3>3 DEF TaskInv
  <2> QED
    BY <2>3, <2>4, <2>5, <2>6
<1>6. ASSUME NEW c \in Clusters, HandleAssigned(c) PROVE TaskInv'
  <2> DEFINE f == [type |-> "cluster_assigned", cluster |-> c]
  <2>1. /\ TakeFrame(f) /\ UNCHANGED <<registry, conn, relay, wg>> /\ pc' = "saveAssigned"
        /\ f.type = "cluster_assigned" /\ mem'.worker = mem.worker
    BY <1>0, <1>6 DEF HandleAssigned, AgentState
  <2> HIDE DEF f
  <2>2. chan[1] = f /\ 1 \in 1..Len(chan)
    BY <2>1, TakingKeepsFollowing
  <2>3. /\ \A i \in 0..Len(chan') : Followed(i)' = Followed(i + 1)
        /\ \A i \in 1..Len(chan') : i + 1 \in 1..Len(chan) /\ Dissolves(i)' = Dissolves(i + 1)
    BY <2>1, TakingKeepsFollowing
  <2>4. ~Dissolves(1) /\ Followed(1)
    BY <2>1, <2>2 DEF Dissolves, TaskInv
  <2>5. ~Followed(0)
    BY <2>2, <2>4 DEF Followed
  <2>6. relay # NoCluster => wg = relay
    BY <2>5 DEF TaskInv, Bound
  <2>7. 0 \in 0..Len(chan')
    BY ChannelFacts, <2>1
  <2>8. Followed(0)'
    BY <2>3, <2>4, <2>7
  <2>9. \A i \in 1..Len(chan') : ~Dissolves(i)' => Followed(i)'
    BY <2>3 DEF TaskInv
  <2> QED
    BY <2>1, <2>6, <2>8, <2>9 DEF TaskInv, Ended
<1>7. ASSUME NEW c \in Clusters, HandleDissolved(c) PROVE TaskInv'
  <2> DEFINE f == [type |-> "cluster_dissolved", cluster |-> c]
  <2>1. /\ TakeFrame(f) /\ UNCHANGED <<registry, conn, mem>> /\ pc' = "tearDown"
        /\ relay' = NoCluster
    BY <1>7 DEF HandleDissolved, CancelTasks
  <2> HIDE DEF f
  <2>2. /\ \A i \in 0..Len(chan') : Followed(i)' = Followed(i + 1)
        /\ \A i \in 1..Len(chan') : i + 1 \in 1..Len(chan) /\ Dissolves(i)' = Dissolves(i + 1)
    BY <2>1, TakingKeepsFollowing
  <2>3. ~Bound'
    BY <2>1 DEF Bound, BringingUp
  <2> QED
    BY <2>1, <2>2, <2>3 DEF TaskInv
<1>8. CASE Connect
  <2>1. /\ chan = <<>> /\ UNCHANGED <<chan, pc, relay, wg>> /\ pc = "idle"
        /\ relay # NoCluster => wg # NoCluster
    BY <1>8 DEF Connect
  <2>2. ~Bound' /\ Len(chan') = 0
    BY <2>1, EmptySeq DEF Bound, BringingUp
  <2> QED
    BY <2>1, <2>2 DEF TaskInv
<1>9. CASE Disconnect
  <2>1. UNCHANGED <<pc, relay, wg>>
    BY <1>9 DEF Disconnect
  <2>2. \A i \in 1..Len(chan') : ~Dissolves(i)' => Followed(i)'
    BY <1>9, DisconnectKeepsFollowing DEF TaskInv
  <2>3. 0 \in 0..Len(chan')
    <3>1. chan' \in Seq(Frames)
      BY <1>9, RestingStepType DEF TypeInv, TypeOK, ChannelTypeOK, RestingStep
    <3> QED
      BY <3>1, LenProperties
  <2>4. Bound' => Followed(0)'
    BY <1>9, <2>1, <2>3, DisconnectKeepsFollowing DEF TaskInv, Bound
  <2> QED
    BY <2>1, <2>2, <2>4 DEF TaskInv
<1>10. CASE MonitorStep \/ BeatStep \/ RelayMonitorEnds
  <2>1. /\ UNCHANGED <<chan, registry, conn, wg>> /\ relay' \in {relay, NoCluster}
        /\ pc \in {"beat", "idle"} /\ pc' \in {"save", "beat", "idle"}
    BY <1>10 DEF MonitorStep, MonitorSends, MonitorReports, BeatStep, Heartbeat,
                 HeartbeatFails, RelayMonitorEnds
  <2>2. mem'.worker = mem.worker
    BY <1>0, <1>10 DEF MonitorStep, MonitorSends, MonitorReports, BeatStep, Heartbeat,
                       HeartbeatFails, RelayMonitorEnds, AgentState
  <2>3. Bound' => Bound
    BY <2>1 DEF Bound, BringingUp
  <2> QED
    BY <1>c, <2>1, <2>2, <2>3 DEF TaskInv, Ended
<1>11. CASE StopDown \/ StopKill
  <2>1. relay' = NoCluster /\ pc' \in Ended
    BY <1>11 DEF StopDown, StopKill, ProcessEnds, TaskInv, Ended
  <2> QED
    BY <1>b, <2>1
<1> QED
  BY <1>1, <1>2, <1>3, <1>4, <1>5, <1>6, <1>7, <1>8, <1>9, <1>10, <1>11
     DEF Next, MachineStep, AgentStep, HandleFrame

LEMMA TaskInvariant == Spec => []TaskInv
<1>1. Init => TaskInv
  <2> SUFFICES ASSUME Init PROVE TaskInv
    OBVIOUS
  <2>1. Len(chan) = 0
    BY EmptySeq DEF Init
  <2> QED
    BY <2>1 DEF Init, TaskInv, Bound, BringingUp
<1>2. TypeInv /\ LoopInv /\ TaskInv /\ [Next]_vars => TaskInv'
  <2> SUFFICES ASSUME TypeInv, LoopInv, TaskInv, [Next]_vars PROVE TaskInv'
    OBVIOUS
  <2>1. CASE UNCHANGED vars
    BY <2>1 DEF vars, serverVars, chanVars, taskVars, osVars, TaskInv, Bound, Followed,
                Covered, Dissolves, Current, ClusterOf, Known
  <2> QED
    BY <2>1, TaskInvStep
<1> QED
  BY <1>1, <1>2, TypeInvariant, LoopInvariant, PTL DEF Spec

\* The relay task never steers the tunnel of another cluster, in a container or
\* on a host and whatever fails: a bring-up would keep a task that a failed
\* launch has left (agent.py:265), but between two assignments there is always a
\* dissolve, which cancels it, or a new connection, before which it has ended.
\* So RelayMonitor's properties, which suppose this, hold of the agent.
THEOREM RelayTaskFitsItsTunnel == Spec => []RelayTaskFits
<1>1. TaskInv => RelayTaskFits
  BY DEF TaskInv, RelayTaskFits
<1> QED
  BY <1>1, TaskInvariant, PTL
=============================================================================
