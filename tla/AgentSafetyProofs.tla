------------------------- MODULE AgentSafetyProofs -------------------------
(***************************************************************************)
(* The tunnel, the child and the tasks.  The head's readiness task never   *)
(* outlives its tunnel, and where a kill takes the interface and the child *)
(* along, the agent implements Membership and watches its tunnels.         *)
(***************************************************************************)
EXTENDS AgentOrderProofs

USE DEF WorkerIds, NoWorker, NoKey, MaybeCluster

\* Where the loop is when the head's task may not be there, and where it is
\* when the tunnel is the one of the cluster it is working for.
MonitorInv ==
    /\ MonitorFollowsTunnel
    /\ pc \in {"launch", "undo", "tearDown", "kill"} \cup Ended => monitor = NoCluster
    /\ pc \in {"launch", "report"} => wg = mem.cluster

LEMMA MonitorInvStep == ASSUME TypeInv, MonitorInv, Next PROVE MonitorInv'
<1> USE DEF MonitorInv, MonitorFollowsTunnel, Ended, serverVars, chanVars, taskVars, osVars
<1>1. CASE ServerStep \/ MachineStep
  BY <1>1 DEF ServerStep, FormCluster, DissolveCluster, RevokeWorker,
              MachineStep, MoveHost, PrimaExits, Crash, CrashWhileSaving, Killed, ProcessEnds,
              CancelTasks
<1>2. CASE StartupStep
  BY <1>2 DEF StartupStep, Start, EndpointChanged, WorkerStillValid, WorkerNotConfirmed,
              Register, RegisterFails, StopAgent, CancelTasks, StampAndSave, RecoverAssigned,
              RecoverUnassigned, RecoverFails
<1>3. CASE WgUp
  BY <1>3 DEF WgUp
<1>4. CASE Launch
  BY <1>4 DEF Launch, Returned
<1>5. CASE HandlerStep /\ ~WgUp /\ ~Launch
  <2>1. CASE WgUpFails \/ StopDown \/ StopKill \/ UndoTunnel \/ WgDown
    BY <2>1 DEF WgUpFails, StopAgent, CancelTasks, StopDown, StopKill, ProcessEnds, UndoTunnel,
                WgDown, TakeDown
  <2>2. CASE FetchConfig \/ FetchConfigFails \/ LaunchFails \/ WorkerReports \/ SaveAssigned
             \/ StopPrima \/ StopPrimaFails \/ Save
    BY <2>2 DEF FetchConfig, FetchConfigFails, LaunchFails, WorkerReports, SaveAssigned,
                StopPrima, StopPrimaFails, Save, Returned
  <2> QED
    BY <1>5, <2>1, <2>2 DEF HandlerStep
<1>6. CASE RestingStep
  BY <1>6 DEF RestingStep, HandleFrame, HandleAssigned, HandleDissolved, CancelTasks,
              MonitorStep, MonitorSends, MonitorReports, BeatStep, Heartbeat, HeartbeatFails,
              Stop, StopAgent, Connect, Disconnect, RelayMonitorEnds, TakeFrame
<1> QED
  BY <1>1, <1>2, <1>3, <1>4, <1>5, <1>6 DEF Next, AgentStep, RestingStep

LEMMA MonitorInvariant == Spec => []MonitorInv
<1>1. Init => MonitorInv
  BY DEF Init, MonitorInv, MonitorFollowsTunnel
<1>2. TypeInv /\ MonitorInv /\ [Next]_vars => MonitorInv'
  BY MonitorInvStep DEF vars, taskVars, osVars, MonitorInv, MonitorFollowsTunnel
<1> QED
  BY <1>1, <1>2, TypeInvariant, PTL DEF Spec

\* The readiness task of the head reports for the cluster whose tunnel is up,
\* in a container or on a host, whatever fails.
THEOREM HeadReportsOverItsTunnel == Spec => []MonitorFollowsTunnel
  BY MonitorInvariant, PTL DEF MonitorInv

\* No report of readiness, of the handler or of the head's task, names a cluster
\* whose tunnel the worker does not have: after a restart on a host that found
\* another tunnel up, after a failed wg-quick down, after any restart
\* (agent.py:203, 290, 370).
THEOREM ReportsComeOverTheTunnel == Spec => ReadyOverItsTunnel
<1> DEFINE Told == ready' # ready => ready' = ready \cup {wg} /\ wg # NoCluster
<1>1. TypeInv /\ MonitorInv /\ [Next]_vars => [Told]_vars
  <2> SUFFICES ASSUME TypeInv, MonitorInv, Next PROVE Told
    OBVIOUS
  <2> USE DEF serverVars, chanVars, taskVars, osVars
  <2>1. CASE WorkerReports
    BY <2>1 DEF WorkerReports, ReportReady, MemberOf, MonitorInv
  <2>2. CASE MonitorReports
    BY <2>2 DEF MonitorReports, ReportReady, MemberOf, MonitorInv, MonitorFollowsTunnel
  <2>3. CASE ServerStep \/ MachineStep
    BY <2>3 DEF ServerStep, FormCluster, DissolveCluster, RevokeWorker,
                MachineStep, MoveHost, PrimaExits, Crash, CrashWhileSaving, Killed
  <2>4. CASE StartupStep
    BY <2>4 DEF StartupStep, Start, EndpointChanged, WorkerStillValid, WorkerNotConfirmed,
                Register, RegisterFails, CreateRecord, StampAndSave, RecoverAssigned,
                RecoverUnassigned, RecoverFails
  <2>5. CASE HandlerStep /\ ~WorkerReports
    BY <2>5 DEF HandlerStep, FetchConfig, FetchConfigFails, WgUp, WgUpFails, Launch,
                LaunchFails, UndoTunnel, SaveAssigned, WgDown, StopPrima, StopPrimaFails,
                Save, StopDown, StopKill
  <2>6. CASE RestingStep /\ ~MonitorReports
    BY <2>6 DEF RestingStep, HandleFrame, HandleAssigned, HandleDissolved, MonitorStep,
                MonitorSends, BeatStep, Heartbeat, HeartbeatFails, Stop, Connect, Disconnect,
                RelayMonitorEnds
  <2> QED
    BY <2>1, <2>2, <2>3, <2>4, <2>5, <2>6 DEF Next, AgentStep, RestingStep
<1> QED
  BY <1>1, TypeInvariant, MonitorInvariant, PTL DEF Spec, ReadyOverItsTunnel

\* No life of the agent leaves the interface or the child behind: a kill takes
\* them along, as the end of a container does, or there is none.
CleanEnds == InContainer \/ Events \cap {"crash", "torn"} = {}

\* At most one prima.cpp, held by this process, over the tunnel of its cluster;
\* none when one is about to be launched.
OneProcessInv ==
    CleanEnds =>
        /\ \A p \in prima : proc /\ (wg = p.cluster \/ pc \in {"kill", "stopKill"})
        /\ \A p, q \in prima : p = q
        /\ pc \in {"launch", "undo"} => prima = {}

LEMMA NoTunnelNoProcess ==
  ASSUME CleanEnds, TypeInv, OneProcessInv, pc \notin {"kill", "stopKill"}, wg = NoCluster
  PROVE  prima = {}
  BY ClustersAssumption DEF TypeInv, TypeOK, MachineTypeOK, Procs, OneProcessInv

LEMMA OneProcessInvStep ==
  ASSUME TypeInv, MonitorInv, OneProcessInv, Next PROVE OneProcessInv'
<1> SUFFICES ASSUME CleanEnds PROVE OneProcessInv'
  BY DEF OneProcessInv
<1> USE DEF OneProcessInv, serverVars, chanVars, taskVars, osVars
<1>1. CASE ServerStep \/ MachineStep
  <2>1. CASE Crash \/ CrashWhileSaving
    <3>1. prima' = {} /\ pc' = "off"
      BY <2>1 DEF Crash, CrashWhileSaving, Killed, ProcessEnds, Disturbed, CleanEnds
    <3> QED
      BY <3>1
  <2>2. CASE (ServerStep \/ MachineStep) /\ ~Crash /\ ~CrashWhileSaving
    <3>1. UNCHANGED <<pc, proc, wg>> /\ prima' \subseteq prima
      BY <2>2 DEF ServerStep, FormCluster, DissolveCluster, RevokeWorker,
                  MachineStep, MoveHost, PrimaExits
    <3> QED
      BY <3>1
  <2> QED
    BY <1>1, <2>1, <2>2
<1>2. CASE StartupStep
  BY <1>2 DEF StartupStep, Start, EndpointChanged, WorkerStillValid, WorkerNotConfirmed,
              Register, RegisterFails, StopAgent, CancelTasks, StampAndSave, RecoverAssigned,
              RecoverUnassigned, RecoverFails
<1>3. CASE WgUp
  BY <1>3, NoTunnelNoProcess DEF WgUp
<1>4. CASE Launch
  BY <1>4 DEF Launch, MonitorInv, Returned
<1>5. CASE StopPrima \/ StopPrimaFails \/ StopKill
  <2>1. prima' = {}
    BY <1>5 DEF StopPrima, StopPrimaFails, StopKill
  <2> QED
    BY <2>1
<1>6. CASE UndoTunnel \/ WgDown \/ StopDown
  <2>1. CASE UndoTunnel
    BY <2>1 DEF UndoTunnel
  <2>2. CASE WgDown \/ StopDown
    <3>1. UNCHANGED <<prima, proc>> /\ pc' \in {"kill", "stopKill"}
      BY <2>2 DEF WgDown, StopDown
    <3> QED
      BY <3>1
  <2> QED
    BY <1>6, <2>1, <2>2
<1>7. CASE \/ FetchConfig \/ FetchConfigFails \/ WgUpFails \/ LaunchFails
           \/ WorkerReports \/ SaveAssigned \/ Save
  <2>1. /\ UNCHANGED <<wg, prima, proc>> /\ pc \notin {"kill", "stopKill"}
        /\ pc' \in {"launch", "undo"} => pc = "launch"
    BY <1>7 DEF FetchConfig, FetchConfigFails, WgUpFails, StopAgent, LaunchFails,
                WorkerReports, SaveAssigned, Save, Returned
  <2> QED
    BY <2>1
<1>8. CASE Stop
  BY <1>8 DEF Stop, StopAgent
<1>9. CASE RestingStep /\ ~Stop
  <2>1. /\ UNCHANGED <<wg, prima, proc>>
        /\ pc \in {"kill", "stopKill"} => pc' = pc
        /\ pc' \in {"launch", "undo"} => pc' = pc
    BY <1>9 DEF RestingStep, HandleFrame, HandleAssigned, HandleDissolved, CancelTasks,
                MonitorStep, MonitorSends, MonitorReports, BeatStep, Heartbeat,
                HeartbeatFails, Connect, Disconnect, RelayMonitorEnds, TakeFrame
  <2> QED
    BY <2>1
<1> QED
  BY <1>1, <1>2, <1>3, <1>4, <1>5, <1>6, <1>7, <1>8, <1>9
     DEF Next, AgentStep, RestingStep, HandlerStep

LEMMA OneProcessInvariant == Spec => []OneProcessInv
<1>1. Init => OneProcessInv
  BY DEF Init, OneProcessInv
<1>2. TypeInv /\ MonitorInv /\ OneProcessInv /\ [Next]_vars => OneProcessInv'
  BY OneProcessInvStep DEF vars, taskVars, osVars, OneProcessInv
<1> QED
  BY <1>1, <1>2, TypeInvariant, MonitorInvariant, PTL DEF Spec

LEMMA StepImplements ==
  ASSUME CleanEnds, TypeInv, MonitorInv, OneProcessInv, Next
  PROVE  [M!Next]_M!vars
<1> USE DEF M!Next, M!vars, serverVars, chanVars, taskVars, osVars
<1>1. CASE ServerStep \/ (\E h \in Hosts : MoveHost(h))
  BY <1>1 DEF ServerStep, FormCluster, DissolveCluster, RevokeWorker, MoveHost
<1>2. CASE MachineStep /\ ~(\E h \in Hosts : MoveHost(h))
  <2>1. UNCHANGED ready /\ wg' \in {wg, NoCluster} /\ prima' \in {prima, {}}
    BY <1>2 DEF MachineStep, PrimaExits, Crash, CrashWhileSaving, Killed, ProcessEnds, Disturbed,
                CleanEnds, OneProcessInv
  <2> QED
    BY <2>1 DEF M!Leave
<1>3. CASE StartupStep
  <2>1. CASE RegisterFails
    BY <2>1 DEF RegisterFails, CreateRecord, StopAgent, M!Leave
  <2>2. CASE ~RegisterFails
    BY <1>3, <2>2
       DEF StartupStep, Start, EndpointChanged, WorkerStillValid, WorkerNotConfirmed,
           Register, CreateRecord, StampAndSave, RecoverAssigned, RecoverUnassigned,
           RecoverFails
  <2> QED
    BY <2>1, <2>2
<1>4. CASE WgUp
  <2>1. prima = {} /\ mem.cluster \in Clusters
    BY <1>4, NoTunnelNoProcess DEF WgUp, TypeInv, Launchable
  <2>2. M!Join(mem.cluster)
    BY <1>4, <2>1 DEF WgUp, M!Join
  <2> QED
    BY <2>1, <2>2
<1>5. CASE Launch
  <2>1. mem.cluster \in Clusters /\ mem.pos \in Ranks /\ wg = mem.cluster /\ prima = {}
    BY <1>5 DEF Launch, TypeInv, Launchable, MonitorInv, OneProcessInv
  <2>2. M!Serve(mem.pos)
    BY <1>5, <2>1, ClustersAssumption DEF Launch, M!Serve
  <2> QED
    BY <2>1, <2>2
<1>6. CASE WorkerReports
  BY <1>6 DEF WorkerReports, MonitorInv, ReportReady, MemberOf, M!BecomeReady
<1>7. CASE MonitorReports
  BY <1>7 DEF MonitorReports, MonitorInv, MonitorFollowsTunnel, ReportReady, MemberOf,
              M!BecomeReady
<1>8. CASE HandlerStep /\ ~WgUp /\ ~Launch /\ ~WorkerReports
  <2>1. UNCHANGED ready /\ wg' \in {wg, NoCluster} /\ prima' \in {prima, {}}
    BY <1>8 DEF HandlerStep, FetchConfig, FetchConfigFails, WgUpFails, StopAgent,
                LaunchFails, UndoTunnel, SaveAssigned, WgDown, TakeDown, StopPrima,
                StopPrimaFails, Save, StopDown, StopKill, ProcessEnds
  <2> QED
    BY <2>1 DEF M!Leave
<1>9. CASE RestingStep /\ ~MonitorReports
  <2>1. UNCHANGED ready /\ wg' \in {wg, NoCluster} /\ prima' \in {prima, {}}
    BY <1>9 DEF RestingStep, HandleFrame, HandleAssigned, HandleDissolved,
                MonitorStep, MonitorSends, BeatStep, Heartbeat, HeartbeatFails,
                Stop, StopAgent, Connect, Disconnect, RelayMonitorEnds
  <2> QED
    BY <2>1 DEF M!Leave
<1> QED
  BY <1>1, <1>2, <1>3, <1>4, <1>5, <1>6, <1>7, <1>8, <1>9
     DEF Next, AgentStep, RestingStep, MachineStep

\* In a container, and anywhere as long as the process is not killed, the agent
\* implements Membership: one cluster at a time, one prima.cpp at a time and only
\* over the tunnel of its cluster, readiness only for that cluster, through every
\* failure and restart (agent.py:203, 446).
THEOREM CleanEndsKeepMembership == CleanEnds => (Spec => KeepsMembership)
<1> SUFFICES ASSUME CleanEnds PROVE Spec => KeepsMembership
  OBVIOUS
<1>1. Init => M!Init
  BY DEF Init, M!Init
<1>2. TypeInv /\ MonitorInv /\ OneProcessInv /\ [Next]_vars => [M!Next]_M!vars
  <2> SUFFICES ASSUME TypeInv, MonitorInv, OneProcessInv, [Next]_vars
               PROVE  [M!Next]_M!vars
    OBVIOUS
  <2>1. CASE UNCHANGED vars
    BY <2>1 DEF vars, serverVars, osVars, M!vars
  <2> QED
    BY <2>1, StepImplements
<1> QED
  BY <1>1, <1>2, TypeInvariant, MonitorInvariant, OneProcessInvariant, PTL
     DEF Spec, KeepsMembership, M!Spec

\* A tunnel that no wg-quick down has failed on is up only with a cluster in mind
\* and a child to stop, or one about to be started; a life begins without one, and
\* StopPrima runs without one.  A child is there only with a cluster in mind.
OrphanInv ==
    CleanEnds =>
        /\ wg # NoCluster /\ "down" \notin lapses =>
               /\ mem.cluster # NoCluster
               /\ pc \notin Starting \cup {"off", "kill", "stopKill"}
               /\ proc \/ pc \in {"launch", "undo"}
        /\ prima # {} => mem.cluster # NoCluster /\ pc \notin Starting \cup {"off"}

LEMMA OrphanInvStep == ASSUME TypeInv, OneProcessInv, OrphanInv, Next PROVE OrphanInv'
<1> SUFFICES ASSUME CleanEnds PROVE OrphanInv'
  BY DEF OrphanInv
<1> USE DEF OrphanInv, Starting, serverVars, chanVars, taskVars, osVars
<1>0. mem \in AgentState
  BY DEF TypeInv, TypeOK, StateTypeOK
<1>1. CASE Crash \/ CrashWhileSaving
  <2>1. wg' = NoCluster /\ prima' = {}
    BY <1>1 DEF Crash, CrashWhileSaving, Killed, ProcessEnds, Disturbed, CleanEnds
  <2> QED
    BY <2>1
<1>2. CASE (ServerStep \/ MachineStep) /\ ~Crash /\ ~CrashWhileSaving
  <2>1. UNCHANGED <<pc, mem, proc, wg, lapses>> /\ prima' \subseteq prima
    BY <1>2 DEF ServerStep, FormCluster, DissolveCluster, RevokeWorker,
                MachineStep, MoveHost, PrimaExits
  <2> QED
    BY <2>1
<1>3. CASE StartupStep
  <2>1. UNCHANGED <<wg, lapses, prima>> /\ pc \in Starting \cup {"off"}
    BY <1>3 DEF StartupStep, Start, EndpointChanged, WorkerStillValid, WorkerNotConfirmed,
                Register, RegisterFails, StopAgent, StampAndSave, RecoverAssigned,
                RecoverUnassigned, RecoverFails
  <2> QED
    BY <2>1
<1>4. CASE WgUp
  <2>1. mem' = mem /\ mem.cluster # NoCluster /\ pc' = "launch" /\ prima' = prima
    BY <1>4, ClustersAssumption DEF WgUp, TypeInv, Launchable
  <2> QED
    BY <2>1
<1>5. CASE Launch
  <2>1. /\ mem' = mem /\ mem.cluster # NoCluster /\ proc' = TRUE
        /\ UNCHANGED <<wg, lapses>> /\ pc' \in {"save", "idle", "report"}
    BY <1>5, ClustersAssumption DEF Launch, Returned, TypeInv, Launchable
  <2> QED
    BY <2>1
<1>6. CASE UndoTunnel \/ WgDown \/ StopDown
  <2>1. wg' = NoCluster \/ "down" \in lapses'
    BY <1>6 DEF UndoTunnel, WgDown, StopDown, TakeDown
  <2>2. prima' = {} \/ (UNCHANGED <<prima, mem>> /\ pc' \in {"kill", "stopKill"})
    BY <1>6 DEF UndoTunnel, WgDown, StopDown, OneProcessInv
  <2> QED
    BY <2>1, <2>2
<1>7. CASE StopPrima \/ StopPrimaFails \/ StopKill
  <2>1. prima' = {}
    BY <1>7 DEF StopPrima, StopPrimaFails, StopKill, OneProcessInv
  <2>2. wg' = NoCluster \/ (UNCHANGED <<wg, lapses>> /\ pc \in {"kill", "stopKill"})
    BY <1>7 DEF StopPrima, StopPrimaFails, StopKill, ProcessEnds
  <2> QED
    BY <2>1, <2>2
<1>8. CASE \/ FetchConfig \/ FetchConfigFails \/ WgUpFails \/ LaunchFails \/ WorkerReports
           \/ SaveAssigned \/ Save \/ Stop
  <2>1. mem'.cluster = mem.cluster
    BY <1>0, <1>8 DEF FetchConfig, FetchConfigFails, WgUpFails, LaunchFails, WorkerReports,
                      SaveAssigned, Save, Stop, StopAgent, AgentState
  <2>2. UNCHANGED <<wg, lapses, prima, proc>> /\ (pc \in {"launch", "undo"} => pc' = "undo")
    BY <1>8 DEF FetchConfig, FetchConfigFails, WgUpFails, LaunchFails, WorkerReports,
                SaveAssigned, Save, Stop, StopAgent
  <2>3. pc' \in {"up", "undo", "config", "beat", "save", "idle", "stopDown"}
    BY <1>8 DEF FetchConfig, FetchConfigFails, WgUpFails, LaunchFails, WorkerReports,
                SaveAssigned, Save, Stop, StopAgent, Returned
  <2> QED
    BY <2>1, <2>2, <2>3
<1>9. CASE RestingStep /\ ~Stop
  <2>1. /\ UNCHANGED <<wg, proc, prima>> /\ lapses \subseteq lapses'
        /\ pc' = pc \/ (pc \in {"beat", "idle"}
                           /\ pc' \in {"saveAssigned", "tearDown", "save", "idle"})
    BY <1>9 DEF RestingStep, HandleFrame, HandleAssigned, HandleDissolved, TakeFrame,
                CancelTasks, MonitorStep, MonitorSends, MonitorReports, BeatStep, Heartbeat,
                HeartbeatFails, Connect, Disconnect, RelayMonitorEnds
  <2>2. mem'.cluster = NoCluster => mem.cluster = NoCluster
    BY <1>0, <1>9, ClustersAssumption
       DEF RestingStep, HandleFrame, HandleAssigned, HandleDissolved, MonitorStep,
           MonitorSends, MonitorReports, BeatStep, Heartbeat, HeartbeatFails, Connect,
           Disconnect, RelayMonitorEnds, AgentState
  <2> QED
    BY <2>1, <2>2
<1> QED
  BY <1>1, <1>2, <1>3, <1>4, <1>5, <1>6, <1>7, <1>8, <1>9
     DEF Next, AgentStep, RestingStep, HandlerStep

LEMMA OrphanInvariant == Spec => []OrphanInv
<1>1. Init => OrphanInv
  BY DEF Init, OrphanInv
<1>2. TypeInv /\ OneProcessInv /\ OrphanInv /\ [Next]_vars => OrphanInv'
  BY OrphanInvStep DEF vars, taskVars, osVars, OrphanInv
<1> QED
  BY <1>1, <1>2, TypeInvariant, OneProcessInvariant, PTL DEF Spec

\* Where no kill leaves anything behind, an agent that rests and believes it is
\* in no cluster has no prima.cpp, and no tunnel but one on which a wg-quick down
\* has failed: three handlers clear that belief, each tears down in its own order,
\* and calls fail in all of them (agent.py:275, 446, wireguard.py:122).
THEOREM NothingIsLeftBehind == CleanEnds => (Spec => []NoOrphans)
<1> SUFFICES ASSUME CleanEnds PROVE Spec => []NoOrphans
  OBVIOUS
<1>1. OrphanInv => NoOrphans
  BY DEF OrphanInv, NoOrphans
<1> QED
  BY <1>1, OrphanInvariant, PTL

\* There, a tunnel that is up at rest has had a child launched over it by this
\* process, so a later dissolve or stop looks for it, unless a wg-quick down has
\* failed on that tunnel, which then rests without one (agent.py:275, 456).
THEOREM TunnelHasItsChild == CleanEnds => (Spec => []TunnelIsSupervised)
<1> SUFFICES ASSUME CleanEnds PROVE Spec => []TunnelIsSupervised
  OBVIOUS
<1>1. OrphanInv => TunnelIsSupervised
  BY DEF OrphanInv, TunnelIsSupervised
<1> QED
  BY <1>1, OrphanInvariant, PTL

\* A tunnel no wg command has failed on is without a relay task only while a
\* dissolve or a stop takes it down.
WatchInv ==
    CleanEnds /\ RelayOn =>
        (wg # NoCluster /\ lapses = {} /\ pc \notin {"tearDown", "stopDown"} =>
             relay # NoCluster)

LEMMA WatchInvStep == ASSUME TypeInv, WatchInv, Next PROVE WatchInv'
<1> SUFFICES ASSUME CleanEnds, RelayOn PROVE WatchInv'
  BY DEF WatchInv
<1> USE DEF WatchInv, serverVars, chanVars, taskVars, osVars
<1>1. CASE Crash \/ CrashWhileSaving
  BY <1>1 DEF Crash, CrashWhileSaving, Killed, ProcessEnds, Disturbed, CleanEnds
<1>2. CASE WgUp
  BY <1>2, ClustersAssumption DEF WgUp, TypeInv, Launchable
<1>3. CASE Stop \/ RegisterFails \/ WgUpFails
  BY <1>3 DEF Stop, RegisterFails, WgUpFails, StopAgent
<1>4. CASE UndoTunnel \/ WgDown \/ StopDown
  <2>1. \/ wg' = NoCluster
        \/ lapses' # {}
    BY <1>4 DEF UndoTunnel, WgDown, StopDown, TakeDown
  <2> QED
    BY <2>1
<1>5. CASE StopKill
  BY <1>5 DEF StopKill, ProcessEnds
<1>6. CASE RelayMonitorEnds
  BY <1>6 DEF RelayMonitorEnds, LooksDown
<1>7. CASE RestingStep /\ ~Stop /\ ~RelayMonitorEnds
  BY <1>7 DEF RestingStep, HandleFrame, HandleAssigned, HandleDissolved, TakeFrame,
              CancelTasks, MonitorStep, MonitorSends, MonitorReports, BeatStep, Heartbeat,
              HeartbeatFails, Connect, Disconnect
<1>8. CASE (ServerStep \/ MachineStep) /\ ~Crash /\ ~CrashWhileSaving
  BY <1>8 DEF ServerStep, FormCluster, DissolveCluster, RevokeWorker, MachineStep,
              MoveHost, PrimaExits
<1>9. CASE StartupStep /\ ~RegisterFails
  BY <1>9 DEF StartupStep, Start, EndpointChanged, WorkerStillValid, WorkerNotConfirmed,
              Register, StampAndSave, RecoverAssigned, RecoverUnassigned, RecoverFails
<1>10. CASE \/ FetchConfig \/ FetchConfigFails \/ Launch \/ LaunchFails \/ WorkerReports
            \/ SaveAssigned \/ StopPrima \/ StopPrimaFails \/ Save
  BY <1>10 DEF FetchConfig, FetchConfigFails, Launch, LaunchFails, WorkerReports,
               SaveAssigned, StopPrima, StopPrimaFails, Save
<1> QED
  BY <1>1, <1>2, <1>3, <1>4, <1>5, <1>6, <1>7, <1>8, <1>9, <1>10
     DEF Next, AgentStep, RestingStep, HandlerStep

LEMMA WatchInvariant == Spec => []WatchInv
<1>1. Init => WatchInv
  BY DEF Init, WatchInv
<1>2. TypeInv /\ WatchInv /\ [Next]_vars => WatchInv'
  BY WatchInvStep DEF vars, taskVars, osVars, WatchInv
<1> QED
  BY <1>1, <1>2, TypeInvariant, PTL DEF Spec

\* There, and with a relay, a tunnel that is up at rest is watched by the relay
\* task of its own cluster until a wg command fails on it; after that it may have
\* none, but never one of another cluster (agent.py:265, 407, 448).
THEOREM TunnelHasItsWatch == CleanEnds => (Spec => []TunnelIsWatched)
<1> SUFFICES ASSUME CleanEnds PROVE Spec => []TunnelIsWatched
  OBVIOUS
<1>1. TaskInv /\ WatchInv => TunnelIsWatched
  BY DEF TaskInv, WatchInv, TunnelIsWatched
<1> QED
  BY <1>1, TaskInvariant, WatchInvariant, PTL
=============================================================================
