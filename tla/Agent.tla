------------------------------- MODULE Agent -------------------------------
(***************************************************************************)
(* The worker agent of prima-pool-client (agent.py) together with what it  *)
(* touches: its state file, the event channel (ws_client.py), the          *)
(* WireGuard interface (wireguard.py), the prima.cpp child (prima.py) and, *)
(* as an external party, the control plane that forms and dissolves        *)
(* clusters.  One worker, on one machine, over many lives of its process.  *)
(*                                                                         *)
(* The agent is a single asyncio loop.  REST calls and subprocess calls    *)
(* block the loop, so a handler runs to its end before any other task of   *)
(* the process does; but the server, the machine and a kill do not wait.   *)
(* Each handler is therefore a chain of steps, one per outside call, and   *)
(* pc says which call the loop is in ("idle" when no handler holds it).    *)
(*                                                                         *)
(* Abstractions.  assigned_ip and cluster_id are written together          *)
(* everywhere and are one field.  A WireGuard keypair is named by the      *)
(* worker record it was first registered with.  A missing and a truncated  *)
(* state file both load as a fresh AgentState and are the one value Fresh. *)
(***************************************************************************)
EXTENDS Naturals, Sequences

CONSTANTS
    Clusters,      \* ids the control plane may form a cluster under, once each
    Rank,          \* Rank[c]: this worker's place in the ring of c; 0 is the head
    Hosts,         \* WireGuard endpoint hosts the machine may have
    HomeHost,      \* the one it starts with
    MaxWorkers,    \* bound on the worker records ever created
    Events,        \* kinds of disturbance the environment may cause
    MaxEvents,     \* bound on how many of them it causes
    InContainer,   \* TRUE: a kill destroys the interface and the child too
    RelayOn,       \* config.relay.enabled, with a pubkey and an endpoint
    NoCluster, NoRank, NoHost, NoRecord

Kinds == {"crash",  \* the process is killed between two calls
          "torn",   \* ... or while it rewrites its state file
          "stop",   \* SIGINT
          "drop",   \* the event channel breaks
          "rest",   \* a REST call fails
          "wg",     \* wg-quick up fails by itself
          "launch", \* prima.cpp cannot be started
          "down",   \* wg-quick down fails: the interface stays and nobody is told
          "show",   \* a wg show fails: is_up() is false of an interface that is up
          "pkill",  \* there is no pkill: prima.stop() raises after it ended the child
          "exit",   \* prima.cpp ends by itself
          "move",   \* the endpoint host changes while the agent is down
          "drift",  \* ... or while it runs (it is auto-detected)
          "revoke"} \* the operator deletes the worker record
WorkerIds == 1..MaxWorkers
Ranks == {Rank[c] : c \in Clusters}
NoWorker == 0
NoKey == 0
MaybeCluster == Clusters \cup {NoCluster}

ASSUME ClustersAssumption == NoCluster \notin Clusters
ASSUME RankAssumption == Rank \in [Clusters -> Nat] /\ NoRank \notin Nat
ASSUME HostsAssumption == HomeHost \in Hosts /\ NoHost \notin Hosts
ASSUME BoundsAssumption == MaxWorkers \in Nat /\ MaxEvents \in Nat /\ Events \subseteq Kinds
ASSUME FlagsAssumption == InContainer \in BOOLEAN /\ RelayOn \in BOOLEAN

VARIABLES
    registry,   \* control plane: worker records [key, host, cluster]
    lastWorker, \* control plane: worker ids handed out so far
    formed,     \* control plane: clusters formed so far
    ready,      \* control plane: clusters this worker was accepted as ready in
    dists,      \* control plane: clusters whose layer distribution it holds
    conn,       \* the event channel is open
    chan,       \* frames pushed on it that no handler has taken yet
    disk,       \* what _load_state would read
    host,       \* the endpoint host the machine has now
    pc,         \* the call the event loop is in
    booting,    \* run() has not sent its first heartbeat yet
    mem,        \* Agent.state
    proc,       \* Agent._prima_proc is set
    monitor,    \* cluster _head_stdout_monitor reports for, while it runs
    sent,       \* ... it has sent the distribution and is about to report
    relay,      \* cluster whose config _relay_monitor was started with
    wg,         \* cluster whose conf the interface is up with
    lapses,     \* history: silent failures the interface that is up has met
    prima,      \* prima.cpp processes alive: [cluster, rank]
    events      \* disturbances so far

serverVars == <<registry, lastWorker, formed, ready, dists>>
chanVars == <<conn, chan>>
taskVars == <<proc, monitor, sent, relay>>
osVars == <<wg, lapses, prima>>
vars == <<serverVars, chanVars, disk, host, pc, booting, mem, taskVars, osVars, events>>

States == {"registered", "waitlisted", "assigned"}
Records == [key: WorkerIds, host: Hosts, cluster: MaybeCluster]
ASSUME NoRecordAssumption == NoRecord \notin Records
AgentState == [worker: WorkerIds \cup {NoWorker}, key: WorkerIds \cup {NoKey},
               host: Hosts \cup {NoHost}, cluster: MaybeCluster,
               pos: Ranks \cup {NoRank}, status: States]
Frames == [type: {"cluster_assigned", "cluster_dissolved"}, cluster: Clusters]
Procs == [cluster: Clusters, rank: Ranks]
Steps == {"off", "ensure", "register", "stamp", "recover", "config", "up", "launch",
          "undo", "report", "saveAssigned", "save", "beat", "idle", "tearDown", "kill",
          "stopDown", "stopKill"}
Lapses == {"down", "show"}
Saving == {"stamp", "saveAssigned", "save"}

Fresh == [worker |-> NoWorker, key |-> NoKey, host |-> NoHost,
          cluster |-> NoCluster, pos |-> NoRank, status |-> "registered"]

Init ==
    /\ registry = [w \in WorkerIds |-> NoRecord] /\ lastWorker = 0
    /\ formed = {} /\ ready = {} /\ dists = {}
    /\ conn = FALSE /\ chan = <<>>
    /\ disk = Fresh /\ host = HomeHost
    /\ pc = "off" /\ booting = FALSE /\ mem = Fresh
    /\ proc = FALSE /\ monitor = NoCluster /\ sent = FALSE /\ relay = NoCluster
    /\ wg = NoCluster /\ lapses = {} /\ prima = {}
    /\ events = 0

\* One disturbance of the given kind, or none.
Disturbed(kind) == kind \in Events /\ events < MaxEvents /\ events' = events + 1
Undisturbed == UNCHANGED events

\* A REST call raises: the server refuses it, or the network fails it.
RestFails(accepted) == (~accepted /\ Undisturbed) \/ Disturbed("rest")

Known(w) == w \in WorkerIds /\ registry[w] # NoRecord
ClusterOf(w) == IF Known(w) THEN registry[w].cluster ELSE NoCluster
StatusOf(w) == IF ClusterOf(w) = NoCluster THEN "waitlisted" ELSE "assigned"

\* What the agent forgets when it decides it must register again, and what it
\* forgets when it leaves a cluster.  The keypair stays.
Deregistered(s) ==
    [s EXCEPT !.worker = NoWorker, !.host = NoHost, !.cluster = NoCluster,
              !.pos = NoRank, !.status = "registered"]
Waitlisted(s) ==
    [s EXCEPT !.cluster = NoCluster, !.pos = NoRank, !.status = "waitlisted"]

-----------------------------------------------------------------------------
(* The control plane and the machine (external). *)

Push(type, c) == chan' = IF conn THEN Append(chan, [type |-> type, cluster |-> c]) ELSE chan

FormCluster(w, c) ==
    /\ Known(w) /\ registry[w].cluster = NoCluster /\ c \notin formed
    /\ registry' = [registry EXCEPT ![w].cluster = c]
    /\ formed' = formed \cup {c}
    /\ IF w = mem.worker THEN Push("cluster_assigned", c) ELSE UNCHANGED chan
    /\ UNCHANGED <<lastWorker, ready, dists, conn, disk, host, pc, booting, mem,
                   taskVars, osVars, events>>

DissolveCluster(w) ==
    /\ ClusterOf(w) # NoCluster
    /\ registry' = [registry EXCEPT ![w].cluster = NoCluster]
    /\ IF w = mem.worker THEN Push("cluster_dissolved", ClusterOf(w)) ELSE UNCHANGED chan
    /\ UNCHANGED <<lastWorker, formed, ready, dists, conn, disk, host, pc, booting, mem,
                   taskVars, osVars, events>>

RevokeWorker(w) ==
    /\ Disturbed("revoke") /\ Known(w)
    /\ registry' = [registry EXCEPT ![w] = NoRecord]
    /\ conn' = (conn /\ w # mem.worker)
    /\ UNCHANGED <<lastWorker, formed, ready, dists, chan, disk, host, pc, booting, mem,
                   taskVars, osVars>>

MoveHost(h) ==
    /\ Disturbed(IF pc = "off" THEN "move" ELSE "drift") /\ h # host /\ host' = h
    /\ UNCHANGED <<serverVars, chanVars, disk, pc, booting, mem, taskVars, osVars>>

\* A prima.cpp process ends by itself; nobody watches it.
PrimaExits(p) ==
    /\ Disturbed("exit") /\ p \in prima /\ prima' = prima \ {p}
    /\ UNCHANGED <<serverVars, chanVars, disk, host, pc, booting, mem, taskVars, wg, lapses>>

-----------------------------------------------------------------------------
(* The life of the process: cli._run, Agent.run, Agent.stop and kills. *)

Start ==
    /\ pc = "off"
    /\ mem' = disk /\ booting' = TRUE
    /\ pc' = IF disk.worker = NoWorker THEN "register" ELSE "ensure"
    /\ UNCHANGED <<serverVars, chanVars, disk, host, taskVars, osVars, events>>

\* Mutant: the relay task is not cancelled.
CancelTasks_HeadOnly == monitor' = NoCluster /\ sent' = FALSE /\ UNCHANGED relay

\* Mutant: the readiness task of the head is not cancelled.
CancelTasks_RelayOnly == relay' = NoCluster /\ UNCHANGED <<monitor, sent>>

\* A cancelled task raises where it waits and does not go on to report.
CancelTasks == monitor' = NoCluster /\ sent' = FALSE /\ relay' = NoCluster

\* Agent.stop: reached when run() ends or raises.  Nothing is saved, and what
\* the channel delivers from here on is read by nobody.
StopAgent ==
    /\ conn' = FALSE /\ chan' = <<>>
    /\ CancelTasks
    /\ pc' = "stopDown" /\ booting' = FALSE
    /\ UNCHANGED <<disk, host, mem, proc, osVars>>

\* SIGINT cancels run() where it waits for the next heartbeat.
Stop == pc = "idle" /\ Disturbed("stop") /\ StopAgent /\ UNCHANGED serverVars

\* wg-quick down.  Its exit code is not looked at: when it fails, the interface
\* stays up and the caller goes on as if it were gone.
TakeDown ==
    \/ wg' = NoCluster /\ lapses' = {} /\ Undisturbed
    \/ wg # NoCluster /\ Disturbed("down") /\ lapses' = lapses \cup {"down"} /\ UNCHANGED wg

StopDown ==
    /\ pc = "stopDown" /\ TakeDown
    /\ pc' = "stopKill"
    /\ UNCHANGED <<serverVars, chanVars, disk, host, booting, mem, taskVars, prima>>

\* The end of a container destroys its interface.
ProcessEnds ==
    /\ wg' = IF InContainer THEN NoCluster ELSE wg
    /\ lapses' = IF InContainer THEN {} ELSE lapses
    /\ pc' = "off" /\ booting' = FALSE /\ mem' = Fresh /\ proc' = FALSE

\* The child is stopped, the client closed, and the process ends: also when
\* prima.stop() raises for lack of a pkill, because the child is stopped before.
StopKill ==
    /\ pc = "stopKill" /\ ProcessEnds
    /\ prima' = IF proc \/ InContainer THEN {} ELSE prima
    /\ UNCHANGED <<serverVars, chanVars, disk, host, monitor, sent, relay, events>>

\* On a host the child may die with the process (its pipe breaks) or live on.
Killed(file) ==
    /\ conn' = FALSE /\ chan' = <<>>
    /\ CancelTasks /\ ProcessEnds
    /\ IF InContainer THEN prima' = {} ELSE \E alive \in SUBSET prima : prima' = alive
    /\ disk' = file
    /\ UNCHANGED <<serverVars, host>>

Crash == pc # "off" /\ Disturbed("crash") /\ Killed(disk)

\* _save_state truncates the file and then writes it: a kill in between.
CrashWhileSaving == pc \in Saving /\ Disturbed("torn") /\ Killed(Fresh)

-----------------------------------------------------------------------------
(* _ensure_registered *)

EndpointChanged ==
    /\ pc = "ensure" /\ mem.host # host
    /\ mem' = Deregistered(mem) /\ pc' = "register"
    /\ UNCHANGED <<serverVars, chanVars, disk, host, booting, taskVars, osVars, events>>

\* Mutant: the persisted endpoint is not compared.
WorkerStillValid_AnyHost ==
    /\ pc = "ensure" /\ Known(mem.worker)
    /\ pc' = "recover"
    /\ UNCHANGED <<serverVars, chanVars, disk, host, booting, mem, taskVars, osVars, events>>

WorkerStillValid ==
    /\ pc = "ensure" /\ mem.host = host /\ Known(mem.worker)
    /\ pc' = "recover"
    /\ UNCHANGED <<serverVars, chanVars, disk, host, booting, mem, taskVars, osVars, events>>

\* get_worker_state raised, for whatever reason.
WorkerNotConfirmed ==
    /\ pc = "ensure" /\ mem.host = host
    /\ RestFails(Known(mem.worker))
    /\ mem' = Deregistered(mem) /\ pc' = "register"
    /\ UNCHANGED <<serverVars, chanVars, disk, host, booting, taskVars, osVars>>

NewWorker == lastWorker + 1
RegistrationKey == IF mem.key = NoKey THEN NewWorker ELSE mem.key

\* The control plane handles POST /v1/workers/register.
CreateRecord(key) ==
    /\ lastWorker < MaxWorkers
    /\ lastWorker' = NewWorker
    /\ registry' = [registry EXCEPT ![NewWorker] =
                        [key |-> key, host |-> host, cluster |-> NoCluster]]
    /\ UNCHANGED <<formed, ready, dists>>

\* Mutant: a generated keypair is advertised but not kept in the state.
Register_KeyNotKept ==
    /\ pc = "register" /\ CreateRecord(RegistrationKey)
    /\ mem' = [mem EXCEPT !.worker = NewWorker, !.status = "waitlisted"]
    /\ pc' = "stamp"
    /\ UNCHANGED <<chanVars, disk, host, booting, taskVars, osVars, events>>

Register ==
    /\ pc = "register" /\ CreateRecord(RegistrationKey)
    /\ mem' = [mem EXCEPT !.worker = NewWorker, !.key = RegistrationKey,
                          !.status = "waitlisted"]
    /\ pc' = "stamp"
    /\ UNCHANGED <<chanVars, disk, host, booting, taskVars, osVars, events>>

\* The call raised: the request was refused, or served and its answer lost.
\* run() raises in turn, and the process ends through Agent.stop.
RegisterFails ==
    /\ pc = "register" /\ Disturbed("rest")
    /\ UNCHANGED serverVars \/ CreateRecord(RegistrationKey)
    /\ StopAgent

\* The endpoint host is computed a second time, after the call.
StampAndSave ==
    /\ pc = "stamp"
    /\ mem' = [mem EXCEPT !.host = host] /\ disk' = mem'
    /\ pc' = "recover"
    /\ UNCHANGED <<serverVars, chanVars, host, booting, taskVars, osVars, events>>

-----------------------------------------------------------------------------
(* _recover_state, run()'s heartbeats and _save_state *)

\* Mutant: the test of the interface is inverted.
RecoverAssigned_IfUp ==
    /\ pc = "recover" /\ ClusterOf(mem.worker) # NoCluster
    /\ mem' = [mem EXCEPT !.cluster = ClusterOf(mem.worker), !.status = "assigned"]
    /\ pc' = IF wg # NoCluster THEN "config" ELSE "save"
    /\ UNCHANGED <<serverVars, chanVars, disk, host, booting, taskVars, osVars, events>>

\* is_up(), as the exit code of wg show tells: an interface that is up looks
\* down when the call fails.
LooksUp == wg # NoCluster /\ Undisturbed
LooksDown == (wg = NoCluster /\ Undisturbed) \/ (wg # NoCluster /\ Disturbed("show"))

RecoverAssigned ==
    /\ pc = "recover" /\ ClusterOf(mem.worker) # NoCluster
    /\ mem' = [mem EXCEPT !.cluster = ClusterOf(mem.worker), !.status = "assigned"]
    /\ (LooksDown /\ pc' = "config") \/ (LooksUp /\ pc' = "save")
    /\ UNCHANGED <<serverVars, chanVars, disk, host, booting, taskVars, osVars>>

RecoverUnassigned ==
    /\ pc = "recover" /\ Known(mem.worker) /\ ClusterOf(mem.worker) = NoCluster
    /\ mem' = [mem EXCEPT !.cluster = NoCluster, !.status = "waitlisted"]
    /\ pc' = "save"
    /\ UNCHANGED <<serverVars, chanVars, disk, host, booting, taskVars, osVars, events>>

RecoverFails ==
    /\ pc = "recover"
    /\ RestFails(Known(mem.worker))
    /\ pc' = "beat"
    /\ UNCHANGED <<serverVars, chanVars, disk, host, booting, mem, taskVars, osVars>>

Save ==
    /\ pc = "save"
    /\ disk' = mem /\ pc' = IF booting THEN "beat" ELSE "idle"
    /\ UNCHANGED <<serverVars, chanVars, host, booting, mem, taskVars, osVars, events>>

Heartbeat ==
    /\ pc \in {"beat", "idle"} /\ Known(mem.worker)
    /\ mem' = [mem EXCEPT !.status = StatusOf(mem.worker)]
    /\ pc' = "save" /\ booting' = FALSE
    /\ UNCHANGED <<serverVars, chanVars, disk, host, taskVars, osVars, events>>

\* heartbeat() raised: logged, and the loop goes on waiting.
HeartbeatFails ==
    /\ pc \in {"beat", "idle"}
    /\ RestFails(Known(mem.worker))
    /\ pc' = "idle" /\ booting' = FALSE
    /\ UNCHANGED <<serverVars, chanVars, disk, host, mem, taskVars, osVars>>

-----------------------------------------------------------------------------
(* _bring_up_cluster, for the cluster mem.cluster *)

\* Where run() or the frame handler goes on when _bring_up_cluster returns.
Returned == IF booting THEN "save" ELSE "idle"

\* get_cluster_config serves a cluster to its members.
MemberOf(c) == c # NoCluster /\ ClusterOf(mem.worker) = c

\* Mutant: a position the frame did not carry is not derived.
RingPosition_NotDerived == mem.pos

\* The persisted ring position is preferred; else our IP's index in the ring.
RingPosition == IF mem.pos # NoRank THEN mem.pos ELSE Rank[mem.cluster]

FetchConfig ==
    /\ pc = "config" /\ MemberOf(mem.cluster)
    /\ mem' = [mem EXCEPT !.pos = RingPosition]
    /\ pc' = "up"
    /\ UNCHANGED <<serverVars, chanVars, disk, host, booting, taskVars, osVars, events>>

FetchConfigFails ==
    /\ pc = "config" /\ RestFails(MemberOf(mem.cluster))
    /\ pc' = Returned
    /\ UNCHANGED <<serverVars, chanVars, disk, host, booting, mem, taskVars, osVars>>

\* Mutant: wg-quick's exit code is ignored.
WgUp_Unchecked ==
    /\ pc = "up"
    /\ wg' = IF wg = NoCluster THEN mem.cluster ELSE wg
    /\ relay' = IF RelayOn /\ relay = NoCluster THEN mem.cluster ELSE relay
    /\ pc' = "launch"
    /\ UNCHANGED <<serverVars, chanVars, disk, host, booting, mem, proc, monitor, sent,
                   lapses, prima, events>>

\* wg-quick up, then the relay monitor unless one is still running.
WgUp ==
    /\ pc = "up" /\ wg = NoCluster
    /\ wg' = mem.cluster
    /\ relay' = IF RelayOn /\ relay = NoCluster THEN mem.cluster ELSE relay
    /\ pc' = "launch"
    /\ UNCHANGED <<serverVars, chanVars, disk, host, booting, mem, proc, monitor, sent,
                   lapses, prima, events>>

\* wg-quick refuses an interface that exists, and up() raises: out of run()
\* while it recovers, into the channel's catch-all while it handles a frame.
WgUpFails ==
    /\ pc = "up"
    /\ (wg # NoCluster /\ Undisturbed) \/ Disturbed("wg")
    /\ IF booting
       THEN StopAgent /\ UNCHANGED serverVars
       ELSE /\ pc' = "idle"
            /\ UNCHANGED <<serverVars, chanVars, disk, host, booting, mem, taskVars, osVars>>

\* prima.cpp starts.  The head leaves readiness to a task of its own.
Launch ==
    /\ pc = "launch"
    /\ prima' = prima \cup {[cluster |-> mem.cluster, rank |-> mem.pos]}
    /\ proc' = TRUE
    /\ IF mem.pos = 0
       THEN /\ monitor' = IF monitor = NoCluster THEN mem.cluster ELSE monitor
            /\ pc' = Returned
       ELSE UNCHANGED monitor /\ pc' = "report"
    /\ UNCHANGED <<serverVars, chanVars, disk, host, booting, mem, sent, relay, wg, lapses,
                   events>>

\* A missing binary or model file.  The relay task is left running.
LaunchFails ==
    /\ pc = "launch" /\ Disturbed("launch")
    /\ pc' = "undo"
    /\ UNCHANGED <<serverVars, chanVars, disk, host, booting, mem, taskVars, osVars>>

\* Mutant: the tunnel stays up.
UndoTunnel_Skipped ==
    /\ pc = "undo"
    /\ mem' = Waitlisted(mem)
    /\ pc' = "save"
    /\ UNCHANGED <<serverVars, chanVars, disk, host, booting, taskVars, osVars, events>>

\* ... then the tunnel goes down again and the agent considers itself waitlisted.
UndoTunnel ==
    /\ pc = "undo" /\ TakeDown
    /\ mem' = Waitlisted(mem)
    /\ pc' = "save"
    /\ UNCHANGED <<serverVars, chanVars, disk, host, booting, taskVars, prima>>

\* Mutant: an unknown distribution, {}, is taken for none.
ReportReady_TruthyOnly(c, withDistribution) ==
    \/ /\ MemberOf(c) /\ Undisturbed
       /\ ready' = ready \cup {c}
       /\ dists' = dists
    \/ RestFails(MemberOf(c)) /\ UNCHANGED <<ready, dists>>

\* POST /clusters/{c}/ready.  An error is logged and the report not repeated.
ReportReady(c, withDistribution) ==
    \/ /\ MemberOf(c) /\ Undisturbed
       /\ ready' = ready \cup {c}
       /\ dists' = IF withDistribution THEN dists \cup {c} ELSE dists
    \/ RestFails(MemberOf(c)) /\ UNCHANGED <<ready, dists>>

WorkerReports ==
    /\ pc = "report" /\ ReportReady(mem.cluster, FALSE)
    /\ pc' = Returned
    /\ UNCHANGED <<registry, lastWorker, formed, chanVars, disk, host, booting, mem,
                   taskVars, osVars>>

-----------------------------------------------------------------------------
(* The event channel (WsClient.run) and the frame handlers. *)

\* Mutant: reconnecting forgets the frames of the last connection.
Connect_Discards ==
    /\ pc = "idle" /\ ~conn /\ Known(mem.worker)
    /\ relay # NoCluster => wg # NoCluster
    /\ conn' = TRUE /\ chan' = <<>>
    /\ UNCHANGED <<serverVars, disk, host, pc, booting, mem, taskVars, osVars, events>>

\* Connecting needs the loop more than once; frames of the last connection are
\* drained first.  The relay task of a launch that failed was ready before: its
\* first round is over by then, and has ended it.
Connect ==
    /\ pc = "idle" /\ ~conn /\ chan = <<>> /\ Known(mem.worker)
    /\ relay # NoCluster => wg # NoCluster
    /\ conn' = TRUE
    /\ UNCHANGED <<serverVars, chan, disk, host, pc, booting, mem, taskVars, osVars, events>>

\* Frames the client has received are still handled, the others are lost.
Disconnect ==
    /\ conn /\ Disturbed("drop") /\ conn' = FALSE
    /\ \E received \in 0..Len(chan) : chan' = SubSeq(chan, 1, received)
    /\ UNCHANGED <<serverVars, disk, host, pc, booting, mem, taskVars, osVars>>

\* Mutant: a task per frame, in any order.
TakeFrame_AnyOrder(f) ==
    /\ pc = "idle"
    /\ \E i \in DOMAIN chan :
           /\ chan[i] = f
           /\ chan' = SubSeq(chan, 1, i - 1) \o SubSeq(chan, i + 1, Len(chan))

\* Handlers run one at a time, in the order of the frames.
TakeFrame(f) == pc = "idle" /\ chan # <<>> /\ Head(chan) = f /\ chan' = Tail(chan)

\* Mutant: a frame without ring_position leaves the earlier one in place.
HandleAssigned_KeepsPosition(c) ==
    /\ TakeFrame([type |-> "cluster_assigned", cluster |-> c])
    /\ \E pos \in {Rank[c], mem.pos} :
           mem' = [mem EXCEPT !.cluster = c, !.pos = pos, !.status = "assigned"]
    /\ pc' = "saveAssigned"
    /\ UNCHANGED <<serverVars, conn, disk, host, booting, taskVars, osVars, events>>

\* cluster_assigned may or may not carry ring_position.
HandleAssigned(c) ==
    /\ TakeFrame([type |-> "cluster_assigned", cluster |-> c])
    /\ \E pos \in {Rank[c], NoRank} :
           mem' = [mem EXCEPT !.cluster = c, !.pos = pos, !.status = "assigned"]
    /\ pc' = "saveAssigned"
    /\ UNCHANGED <<serverVars, conn, disk, host, booting, taskVars, osVars, events>>

SaveAssigned ==
    /\ pc = "saveAssigned"
    /\ disk' = mem /\ pc' = "config"
    /\ UNCHANGED <<serverVars, chanVars, host, booting, mem, taskVars, osVars, events>>

\* The frame's cluster_id is only logged.
HandleDissolved(c) ==
    /\ TakeFrame([type |-> "cluster_dissolved", cluster |-> c])
    /\ CancelTasks
    /\ pc' = "tearDown"
    /\ UNCHANGED <<serverVars, conn, disk, host, booting, mem, proc, osVars, events>>

\* Mutant: the tunnel is not brought down.
WgDown_Skipped ==
    /\ pc = "tearDown" /\ pc' = "kill"
    /\ UNCHANGED <<serverVars, chanVars, disk, host, booting, mem, taskVars, osVars, events>>

WgDown ==
    /\ pc = "tearDown" /\ TakeDown
    /\ pc' = "kill"
    /\ UNCHANGED <<serverVars, chanVars, disk, host, booting, mem, taskVars, prima>>

\* Mutant: the state is not saved.
StopPrima_Unsaved ==
    /\ pc = "kill"
    /\ prima' = IF proc THEN {} ELSE prima
    /\ proc' = FALSE
    /\ mem' = Waitlisted(mem)
    /\ pc' = "idle"
    /\ UNCHANGED <<serverVars, chanVars, disk, host, booting, monitor, sent, relay, wg, lapses,
                   events>>

StopPrima ==
    /\ pc = "kill"
    /\ prima' = IF proc THEN {} ELSE prima
    /\ proc' = FALSE
    /\ mem' = Waitlisted(mem)
    /\ pc' = "save"
    /\ UNCHANGED <<serverVars, chanVars, disk, host, booting, monitor, sent, relay, wg, lapses,
                   events>>

\* ... or prima.stop() raises where there is no pkill: the child is gone, but the
\* rest of the handler is skipped, and the channel's catch-all logs it.
StopPrimaFails ==
    /\ pc = "kill" /\ proc /\ Disturbed("pkill")
    /\ prima' = {}
    /\ pc' = "idle"
    /\ UNCHANGED <<serverVars, chanVars, disk, host, booting, mem, taskVars, wg, lapses>>

-----------------------------------------------------------------------------
(* The background tasks; they run when no handler holds the loop. *)

\* Mutant: a distribution that could not be sent ends the task.
MonitorSends_OrGivesUp ==
    /\ pc = "idle" /\ monitor # NoCluster /\ ~sent
    /\ IF conn THEN sent' = TRUE /\ UNCHANGED monitor
               ELSE monitor' = NoCluster /\ UNCHANGED sent
    /\ dists' = IF conn /\ MemberOf(monitor) THEN dists \cup {monitor} ELSE dists
    /\ UNCHANGED <<registry, lastWorker, formed, ready, chanVars, disk, host, pc, booting,
                   mem, proc, relay, osVars, events>>

\* _head_stdout_monitor stops waiting (marker seen, or time out) and sends the
\* distribution; a closed channel drops the frame.
MonitorSends ==
    /\ pc = "idle" /\ monitor # NoCluster /\ ~sent
    /\ sent' = TRUE
    /\ dists' = IF conn /\ MemberOf(monitor) THEN dists \cup {monitor} ELSE dists
    /\ UNCHANGED <<registry, lastWorker, formed, ready, chanVars, disk, host, pc, booting,
                   mem, proc, monitor, relay, osVars, events>>

\* ... and, after that await, reports ready with the same distribution.
MonitorReports ==
    /\ pc = "idle" /\ monitor # NoCluster /\ sent
    /\ ReportReady(monitor, TRUE)
    /\ monitor' = NoCluster /\ sent' = FALSE
    /\ UNCHANGED <<registry, lastWorker, formed, chanVars, disk, host, pc, booting, mem,
                   proc, relay, osVars>>

\* _relay_monitor ends, for good, at the first round whose wg show fails: the
\* interface is down, or the call fails by itself and the tunnel goes unwatched.
RelayMonitorEnds ==
    /\ pc = "idle" /\ relay # NoCluster /\ LooksDown
    /\ relay' = NoCluster
    /\ lapses' = IF wg = NoCluster THEN lapses ELSE lapses \cup {"show"}
    /\ UNCHANGED <<serverVars, chanVars, disk, host, pc, booting, mem, proc, monitor, sent,
                   wg, prima>>

-----------------------------------------------------------------------------
ServerStep ==
    \E w \in WorkerIds : (\E c \in Clusters : FormCluster(w, c))
                            \/ DissolveCluster(w) \/ RevokeWorker(w)
MachineStep ==
    \/ \E h \in Hosts : MoveHost(h)
    \/ \E p \in prima : PrimaExits(p)
    \/ Crash \/ CrashWhileSaving

StartupStep ==
    \/ Start
    \/ EndpointChanged \/ WorkerStillValid \/ WorkerNotConfirmed
    \/ Register \/ RegisterFails \/ StampAndSave
    \/ RecoverAssigned \/ RecoverUnassigned \/ RecoverFails

\* What the loop does until the call it is in gives it back.
HandlerStep ==
    \/ FetchConfig \/ FetchConfigFails \/ WgUp \/ WgUpFails
    \/ Launch \/ LaunchFails \/ UndoTunnel \/ WorkerReports \/ SaveAssigned
    \/ WgDown \/ StopPrima \/ StopPrimaFails \/ Save \/ StopDown \/ StopKill

HandleFrame == \E c \in Clusters : HandleAssigned(c) \/ HandleDissolved(c)
MonitorStep == MonitorSends \/ MonitorReports
BeatStep == Heartbeat \/ HeartbeatFails

AgentStep ==
    \/ StartupStep \/ HandlerStep \/ HandleFrame \/ MonitorStep \/ BeatStep
    \/ Stop \/ Connect \/ Disconnect \/ RelayMonitorEnds

Next == ServerStep \/ MachineStep \/ AgentStep

Spec == Init /\ [][Next]_vars

\* The loop is never blocked for good: every outside call returns or times out
\* and asyncio runs its ready tasks in turn, so a task that is ready again and
\* again runs (strong fairness: a heartbeat may hold the loop in between).
\* Nothing is assumed of the control plane or of the disturbances.
Fairness ==
    /\ WF_vars(StartupStep) /\ WF_vars(HandlerStep)
    /\ WF_vars(pc = "beat" /\ BeatStep)
    /\ SF_vars(HandleFrame) /\ SF_vars(Connect) /\ SF_vars(MonitorStep)
    /\ WF_vars(wg = NoCluster /\ RelayMonitorEnds)

FairSpec == Spec /\ Fairness

-----------------------------------------------------------------------------
(* Properties *)

\* The type invariant, one part per owner of the state.
ServerTypeOK ==
    /\ registry \in [WorkerIds -> Records \cup {NoRecord}]
    /\ lastWorker \in 0..MaxWorkers
    /\ formed \subseteq Clusters /\ ready \subseteq Clusters /\ dists \subseteq Clusters
ChannelTypeOK == conn \in BOOLEAN /\ chan \in Seq(Frames)
StateTypeOK == disk \in AgentState /\ mem \in AgentState
LoopTypeOK == pc \in Steps /\ booting \in BOOLEAN
TaskTypeOK ==
    /\ proc \in BOOLEAN /\ sent \in BOOLEAN
    /\ monitor \in MaybeCluster /\ relay \in MaybeCluster
MachineTypeOK ==
    /\ host \in Hosts /\ wg \in MaybeCluster /\ lapses \subseteq Lapses
    /\ prima \subseteq Procs
    /\ events \in 0..MaxEvents
TypeOK ==
    /\ ServerTypeOK /\ ChannelTypeOK /\ StateTypeOK
    /\ LoopTypeOK /\ TaskTypeOK /\ MachineTypeOK

\* From the fetched config on, the agent knows its cluster and its position.
Launchable ==
    pc \in {"up", "launch", "undo", "report"} => mem.cluster \in Clusters /\ mem.pos \in Ranks

\* Between two restarts, prima.cpp always runs with the rank this worker has in
\* the ring of its cluster, whether the frame carried it or not: the position
\* of an earlier cluster is never reused (agent.py:254, README.md:36).
RankIsCurrent == \A p \in prima : p.rank = Rank[p.cluster]

\* A cluster this worker heads is never reported ready before the control plane
\* holds a layer distribution for it, however the channel fails: the report
\* carries it again (agent.py:355, "REST fallback if the WS frame is lost").
HeadReadyHasDistribution == \A c \in ready : Rank[c] = 0 => c \in dists

\* The dissolved handler ignores the frame's cluster_id; still it never takes
\* down the tunnel of a cluster the worker is a member of (agent.py:446).
DissolveIsCurrent == pc = "tearDown" /\ wg # NoCluster => ClusterOf(mem.worker) # wg

\* The head reports readiness from a task of its own, started by a handler and
\* awaiting between its send and its report: it never outlives the tunnel of
\* the cluster it reports for (agent.py:284, 451).
MonitorFollowsTunnel == monitor # NoCluster => wg = monitor

\* An agent that waits for work and believes it is in no cluster has no
\* prima.cpp left from an earlier one, and no tunnel either unless a wg-quick
\* down on it has failed without anybody noticing (agent.py:446, 273,
\* wireguard.py:122).
NoOrphans ==
    pc = "idle" /\ mem.cluster = NoCluster =>
        prima = {} /\ (wg # NoCluster => "down" \in lapses)

\* A tunnel that is up at rest was followed by a launch of this process, so a
\* later dissolve or stop will find the child to stop; or it is one that was to
\* go down and did not (agent.py:275, 456).
TunnelIsSupervised == pc = "idle" /\ wg # NoCluster => proc \/ "down" \in lapses

\* With a relay configured, a tunnel that is up at rest is watched by a relay
\* task, the one started for its cluster, until a wg command on that tunnel
\* fails: then the task may be gone, but none of another cluster takes its place.
\* A launch that fails leaves a task, and a bring-up keeps a task that is still
\* there, with the config it was given (agent.py:265, 407): it must be gone
\* before another cluster comes, after a dissolve, over a new connection or with
\* a restart.
TunnelIsWatched ==
    pc = "idle" /\ wg # NoCluster /\ RelayOn =>
        relay = wg \/ (relay = NoCluster /\ lapses # {})

\* At rest a restart would load what the agent believes: identity, assignment,
\* status and position.  Only a position derived from the config may be missing
\* (agent.py:257 does not save it), and that is the one a restart in the same
\* cluster derives again.
RestStateIsPersisted ==
    pc = "idle" =>
        \/ disk = mem
        \/ /\ disk.pos = NoRank /\ disk.cluster \in Clusters
           /\ mem = [disk EXCEPT !.pos = Rank[disk.cluster]]

\* The key the interface is rendered with is the one the control plane hands
\* to the peers, in memory and in any state file a restart could load
\* (agent.py:157).
KeyIsRegistered == \A s \in {mem, disk} : Known(s.worker) => registry[s.worker].key = s.key

\* Once started, the agent is registered under the endpoint host it has, as
\* long as the host changes only while the agent is down (agent.py:40, 127).
EndpointIsCurrent ==
    pc = "idle" /\ Known(mem.worker) => registry[mem.worker].host = host

\* Also on a host, where a kill leaves the interface and perhaps the child: a
\* relay task never steers a tunnel other than the one it was started for.  Only
\* the connection (Connect) waits for a left-over task, no handler looks at it
\* (agent.py:265).
RelayTaskFits == relay # NoCluster /\ wg # NoCluster => relay = wg

\* ... and the worker never reports ready for a cluster whose tunnel it does not
\* have: not after a restart that finds another tunnel up and skips the bring-up,
\* nor after a wg-quick down that failed (agent.py:203, 290, 370).
ReadyOverItsTunnel == [][ready' # ready => ready' = ready \cup {wg} /\ wg # NoCluster]_vars

\* Whatever happens to the agent, the machine keeps the promise of Membership.
M == INSTANCE Membership WITH tunnel <- wg, serving <- prima
KeepsMembership == M!Spec

Served(c) == c \in ready \/ ClusterOf(mem.worker) # c

\* An assignment the agent has taken while it has no tunnel is reported ready,
\* or is dissolved first: neither a broken channel nor a prima.cpp that never
\* prints its marker blocks it (agent.py:236, 304 "liveness must never be
\* blocked by a log parse").
TakenAssignmentIsServed ==
    \A c \in Clusters :
        (pc = "saveAssigned" /\ mem.cluster = c /\ wg = NoCluster) ~> Served(c)

\* After a restart, the cluster the control plane has this worker in is brought
\* up and reported ready (agent.py:6 "a restart can recover", 188).
RestartRecovers ==
    \A c \in Clusters : (pc = "recover" /\ ClusterOf(mem.worker) = c) ~> Served(c)

\* A dissolved frame that was received before the channel broke is obeyed all
\* the same: the tunnel of that cluster goes down (ws_client.py:45, agent.py:446).
ReceivedDissolveIsObeyed ==
    \A c \in Clusters :
        (/\ ~conn /\ wg = c
         /\ \E i \in DOMAIN chan : chan[i] = [type |-> "cluster_dissolved", cluster |-> c])
        ~> wg # c

\* Every assignment is served in the end, because what the channel loses can be
\* read over REST (ws_client.py:3).  The code reads it at startup only.
AssignmentIsServed == \A c \in Clusters : ClusterOf(mem.worker) = c ~> Served(c)

\* A launch that fails does not leave the worker stuck in the cluster
\* (agent.py:267).  The control plane is never told.
LaunchIsResolved ==
    \A c \in Clusters : (pc = "launch" /\ mem.cluster = c) ~> Served(c)
=============================================================================
