-------------------------------- MODULE Pool --------------------------------
(***************************************************************************)
(* Several workers of one pool: each runs the agent (agent.py), and the    *)
(* control plane forms clusters of them and dissolves them again.  The     *)
(* handlers of different workers interleave at their REST calls, so that   *)
(* one member may still be in an earlier ring while others build the next. *)
(*                                                                         *)
(* Abstractions.  The agents are those of Agent with less of each: one     *)
(* life, an event channel that does not break, the fetch of the config and *)
(* wg-quick in one step, pkill installed.  A config does not change once   *)
(* its cluster is formed, so a handler's copy of it is configs[c].  The    *)
(* head's sending the distribution and its report, which carries it, are   *)
(* one step.  A prima.cpp may end by itself at any time, which no member   *)
(* looks at: the head reports when it times out, and process is what a     *)
(* worker has started and not stopped.                                     *)
(***************************************************************************)
EXTENDS Ring, FiniteSets

CONSTANTS
    Workers,
    MaxClusters, \* bound: clusters are numbered as they are formed
    Configs,     \* peer lists the control plane may form a cluster with
    Carries,     \* what of assigned_ip and ring_position a frame may carry
    Flaky,       \* bound: workers whose calls fail and whose prima.cpp may end by itself
    NoCluster, NoRank, NoAddress, NoProcess

ASSUME WorkersAssumption == IsFiniteSet(Workers) /\ Server \notin Workers
\* The ring of a config names workers, each once.
ASSUME ConfigsAssumption ==
    \A peers \in Configs :
        LET ring == RingMembers(peers)
        IN  /\ peers # <<>> /\ ring \in Seq(Workers) /\ ring # <<>>
            /\ \A i, j \in DOMAIN ring : ring[i] = ring[j] => i = j
ASSUME CarriesAssumption == Carries \subseteq SUBSET {"assigned_ip", "ring_position"}
ASSUME BoundsAssumption == MaxClusters \in Nat /\ Flaky \subseteq Workers

VARIABLES
    configs,  \* control plane: the peer list of each cluster, <<>> before it is formed
    assigned, \* control plane: the cluster of each worker
    ready,    \* control plane: members of each cluster that reported ready
    dists,    \* control plane: clusters whose layer distribution it holds
    failed,   \* clusters in which some call of a member failed
    chan,     \* frames pushed to each worker
    pc,       \* the call each worker's loop is in
    mem,      \* Agent.state of each worker: [cluster, pos, ip]
    monitor,  \* cluster its _head_stdout_monitor runs for
    tunnel,   \* cluster its interface is up for
    process,  \* what its prima.cpp was started with, until it is stopped
    exited,   \* workers whose prima.cpp has ended by itself
    stuck     \* workers whose last wg-quick down failed

serverVars == <<configs, assigned, ready, dists>>
localVars == <<mem, monitor, tunnel, process, exited, stuck>>
vars == <<serverVars, failed, chan, pc, localVars>>

Clusters == 1..MaxClusters
MaybeCluster == Clusters \cup {NoCluster}
Frames == [type: {"cluster_assigned", "cluster_dissolved"}, cluster: Clusters]
Ranks == 0..Cardinality(Workers)
Processes ==
    {p \in [cluster: Clusters, rank: Ranks, world: Ranks, master: Workers, next: Workers] :
        p.rank < p.world}
ASSUME SentinelsAssumption ==
    /\ NoCluster \notin Nat /\ NoRank \notin Nat /\ NoProcess \notin Processes
    /\ NoAddress \notin Workers /\ NoAddress # Server

Unassigned == [cluster |-> NoCluster, pos |-> NoRank, ip |-> NoAddress]

Init ==
    /\ configs = [c \in Clusters |-> <<>>] /\ assigned = [w \in Workers |-> NoCluster]
    /\ ready = [c \in Clusters |-> {}] /\ dists = {} /\ failed = {}
    /\ chan = [w \in Workers |-> <<>>] /\ pc = [w \in Workers |-> "idle"]
    /\ mem = [w \in Workers |-> Unassigned] /\ monitor = [w \in Workers |-> NoCluster]
    /\ tunnel = [w \in Workers |-> NoCluster] /\ process = [w \in Workers |-> NoProcess]
    /\ exited = {} /\ stuck = {}

-----------------------------------------------------------------------------
(* The control plane (external) *)

Push(members, type, c) ==
    chan' = [w \in Workers |-> IF w \in members
                               THEN Append(chan[w], [type |-> type, cluster |-> c])
                               ELSE chan[w]]

FormCluster(c, peers) ==
    /\ configs[c] = <<>> /\ \A b \in 1..(c - 1) : configs[b] # <<>>
    /\ \A w \in Members(peers) : assigned[w] = NoCluster
    /\ configs' = [configs EXCEPT ![c] = peers]
    /\ assigned' = [w \in Workers |-> IF w \in Members(peers) THEN c ELSE assigned[w]]
    /\ Push(Members(peers), "cluster_assigned", c)
    /\ UNCHANGED <<ready, dists, failed, pc, localVars>>

\* The rank the control plane has given to member w.
PlaceOf(peers, w) ==
    CHOOSE rank \in 0..(Len(RingMembers(peers)) - 1) : RingMembers(peers)[rank + 1] = w

Exists(c) == \E w \in Workers : assigned[w] = c

DissolveCluster(c) ==
    /\ Exists(c)
    /\ assigned' = [w \in Workers |-> IF assigned[w] = c THEN NoCluster ELSE assigned[w]]
    /\ Push(Members(configs[c]), "cluster_dissolved", c)
    /\ UNCHANGED <<configs, ready, dists, failed, pc, localVars>>

\* A call that w makes for c fails, of itself.
Fails(w, c) == w \in Flaky /\ failed' = failed \cup {c}

-----------------------------------------------------------------------------
(* The agent of worker w *)

Goto(w, step) == pc' = [pc EXCEPT ![w] = step]

TakeFrame(w, type, c) ==
    /\ pc[w] = "idle" /\ chan[w] # <<>> /\ Head(chan[w]) = [type |-> type, cluster |-> c]
    /\ chan' = [chan EXCEPT ![w] = Tail(@)]

\* What the frame does not carry is None.
HandleAssigned(w, c) ==
    /\ TakeFrame(w, "cluster_assigned", c)
    /\ \E told \in Carries :
           mem' = [mem EXCEPT ![w] =
               [cluster |-> c,
                pos |-> IF "ring_position" \in told THEN PlaceOf(configs[c], w) ELSE NoRank,
                ip |-> IF "assigned_ip" \in told THEN w ELSE NoAddress]]
    /\ Goto(w, "config")
    /\ UNCHANGED <<serverVars, failed, monitor, tunnel, process, exited, stuck>>

PositionOf(w) ==
    IF mem[w].pos # NoRank THEN mem[w].pos
    ELSE FindRingPosition(configs[mem[w].cluster], mem[w].ip)

\* Mutant: the process is started before the tunnel.
BringUp_LaunchesFirst(w) ==
    /\ pc[w] = "config" /\ assigned[w] = mem[w].cluster /\ tunnel[w] = NoCluster
    /\ mem' = [mem EXCEPT ![w].pos = PositionOf(w)]
    /\ Goto(w, "launch")
    /\ UNCHANGED <<serverVars, failed, chan, monitor, tunnel, process, exited, stuck>>

\* get_cluster_config, then wg-quick up.
BringUp(w) ==
    /\ pc[w] = "config" /\ assigned[w] = mem[w].cluster /\ tunnel[w] = NoCluster
    /\ mem' = [mem EXCEPT ![w].pos = PositionOf(w)]
    /\ tunnel' = [tunnel EXCEPT ![w] = mem[w].cluster]
    /\ Goto(w, "launch")
    /\ UNCHANGED <<serverVars, failed, chan, monitor, process, exited, stuck>>

\* The cluster is gone by now, or the call fails.
FetchConfigFails(w) ==
    /\ pc[w] = "config"
    /\ (assigned[w] # mem[w].cluster /\ UNCHANGED failed) \/ Fails(w, mem[w].cluster)
    /\ Goto(w, "idle")
    /\ UNCHANGED <<serverVars, chan, localVars>>

\* It fails, of itself or since the interface is still up, and the handler ends
\* in the channel's catch-all.
WgUpFails(w) ==
    /\ pc[w] = "config" /\ assigned[w] = mem[w].cluster
    /\ (tunnel[w] # NoCluster /\ UNCHANGED failed) \/ Fails(w, mem[w].cluster)
    /\ mem' = [mem EXCEPT ![w].pos = PositionOf(w)]
    /\ Goto(w, "idle")
    /\ UNCHANGED <<serverVars, chan, monitor, tunnel, process, exited, stuck>>

Environment(w) ==
    LET env == BuildEnv(configs[mem[w].cluster], mem[w].pos)
    IN  [cluster |-> mem[w].cluster, rank |-> env.rank, world |-> env.world,
         master |-> env.master, next |-> env.next]

\* Mutant: the head reports like every other member.
Launch_HeadReportsAtOnce(w) ==
    /\ pc[w] = "launch"
    /\ process' = [process EXCEPT ![w] = Environment(w)]
    /\ Goto(w, "report")
    /\ UNCHANGED <<serverVars, failed, chan, mem, monitor, tunnel, exited, stuck>>

\* The head leaves its report to a task.
Launch(w) ==
    /\ pc[w] = "launch"
    /\ process' = [process EXCEPT ![w] = Environment(w)]
    /\ IF mem[w].pos = 0
       THEN monitor' = [monitor EXCEPT ![w] = mem[w].cluster] /\ Goto(w, "idle")
       ELSE UNCHANGED monitor /\ Goto(w, "report")
    /\ UNCHANGED <<serverVars, failed, chan, mem, tunnel, exited, stuck>>

\* wg-quick down; its exit code is ignored.
WgDown(w) == tunnel' = [tunnel EXCEPT ![w] = NoCluster] /\ stuck' = stuck \ {w}
WgDownFails(w) == tunnel[w] # NoCluster /\ stuck' = stuck \cup {w} /\ UNCHANGED tunnel

LaunchFails(w) ==
    /\ pc[w] = "launch" /\ Fails(w, mem[w].cluster)
    /\ WgDown(w) \/ WgDownFails(w)
    /\ mem' = [mem EXCEPT ![w] = Unassigned]
    /\ Goto(w, "idle")
    /\ UNCHANGED <<serverVars, chan, monitor, process, exited>>

\* prima.cpp ends by itself.
PrimaExits(w) ==
    /\ w \in Flaky /\ process[w] # NoProcess /\ w \notin exited
    /\ exited' = exited \cup {w}
    /\ UNCHANGED <<serverVars, failed, chan, pc, mem, monitor, tunnel, process, stuck>>

\* POST /clusters/{c}/ready; refused once the cluster is gone, never repeated.
ReportReady(w, c) ==
    \/ /\ assigned[w] = c /\ ready' = [ready EXCEPT ![c] = @ \cup {w}]
       /\ UNCHANGED failed
    \/ assigned[w] # c /\ UNCHANGED <<ready, failed>>
    \/ Fails(w, c) /\ UNCHANGED ready

WorkerReports(w) ==
    /\ pc[w] = "report" /\ ReportReady(w, mem[w].cluster)
    /\ Goto(w, "idle")
    /\ UNCHANGED <<configs, assigned, dists, chan, localVars>>

HeadReports(w) ==
    /\ pc[w] = "idle" /\ monitor[w] # NoCluster /\ ReportReady(w, monitor[w])
    /\ dists' = IF assigned[w] = monitor[w] THEN dists \cup {monitor[w]} ELSE dists
    /\ monitor' = [monitor EXCEPT ![w] = NoCluster]
    /\ UNCHANGED <<configs, assigned, chan, pc, mem, tunnel, process, exited, stuck>>

\* Mutant: prima.cpp is not stopped.
HandleDissolved_ProcessLeft(w, c) ==
    /\ TakeFrame(w, "cluster_dissolved", c)
    /\ monitor' = [monitor EXCEPT ![w] = NoCluster]
    /\ (WgDown(w) /\ UNCHANGED failed) \/ (WgDownFails(w) /\ Fails(w, c))
    /\ mem' = [mem EXCEPT ![w] = Unassigned]
    /\ UNCHANGED <<serverVars, pc, process, exited>>

HandleDissolved(w, c) ==
    /\ TakeFrame(w, "cluster_dissolved", c)
    /\ monitor' = [monitor EXCEPT ![w] = NoCluster]
    /\ (WgDown(w) /\ UNCHANGED failed) \/ (WgDownFails(w) /\ Fails(w, c))
    /\ process' = [process EXCEPT ![w] = NoProcess] /\ exited' = exited \ {w}
    /\ mem' = [mem EXCEPT ![w] = Unassigned]
    /\ UNCHANGED <<serverVars, pc>>

-----------------------------------------------------------------------------
ServerStep ==
    \E c \in Clusters : DissolveCluster(c) \/ \E peers \in Configs : FormCluster(c, peers)

HandlerStep(w) ==
    \/ BringUp(w) \/ FetchConfigFails(w) \/ WgUpFails(w)
    \/ Launch(w) \/ LaunchFails(w) \/ WorkerReports(w)
HandleFrame(w) == \E c \in Clusters : HandleAssigned(w, c) \/ HandleDissolved(w, c)
AgentStep(w) == HandlerStep(w) \/ HandleFrame(w) \/ HeadReports(w)

Next == ServerStep \/ \E w \in Workers : AgentStep(w) \/ PrimaExits(w)

Spec == Init /\ [][Next]_vars

\* The machines go on while one of them has something to run.  MaxClusters
\* bounds the frames and a frame sets off finitely many steps, so that no
\* worker is passed over for ever: fairness to each of them is not needed.
Fairness == WF_vars(\E w \in Workers : AgentStep(w))

FairSpec == Spec /\ Fairness

-----------------------------------------------------------------------------
(* Properties *)

TypeOK ==
    /\ configs \in [Clusters -> Configs \cup {<<>>}] /\ assigned \in [Workers -> MaybeCluster]
    /\ ready \in [Clusters -> SUBSET Workers] /\ dists \subseteq Clusters
    /\ failed \subseteq Clusters
    /\ chan \in [Workers -> Seq(Frames)]
    /\ pc \in [Workers -> {"idle", "config", "launch", "report"}]
    /\ mem \in [Workers -> [cluster: MaybeCluster, pos: Ranks \cup {NoRank},
                            ip: Workers \cup {NoAddress}]]
    /\ monitor \in [Workers -> MaybeCluster] /\ tunnel \in [Workers -> MaybeCluster]
    /\ process \in [Workers -> Processes \cup {NoProcess}]
    /\ exited \subseteq Workers /\ stuck \subseteq Workers

Started(w, c) == process[w] # NoProcess /\ process[w].cluster = c

\* The control plane serves requests on c: all members and the head's
\* distribution are in (README.md:41).
Live(c) == Exists(c) /\ ready[c] = Members(configs[c]) /\ c \in dists

\* Following NEXT_IP from MASTER_IP visits every member once and comes back.
Closed(c, master) ==
    LET at[n \in Nat] == IF n = 0 THEN master ELSE process[at[n - 1]].next
        world == Cardinality(Members(configs[c]))
    IN  {at[n] : n \in 0..(world - 1)} = Members(configs[c]) /\ at[world] = master

\* Once a cluster is live, every member has started prima.cpp for it and has not
\* been told to stop it, and what they started one by one, each from its own
\* reading of the config, is one ring of exactly these members, although some of
\* them came late from an earlier ring and the control plane's own peer may be
\* anywhere in the list (prima.py:140, README.md:36, 47).  That the processes
\* still run is not claimed: nobody looks (agent.py:334).
LiveRingIsClosed ==
    \A c \in Clusters : Live(c) =>
        /\ \A w \in Members(configs[c]) : Started(w, c)
        /\ \E w \in Members(configs[c]) : process[w].rank = 0 /\ Closed(c, w)

\* What makes a walk round the ring close, member by member: everyone has started
\* its place and kept it, forwards to the member that started the next rank, and
\* knows the one that started rank 0 as head; all ranks are below the number of
\* members (prima.py:140, 176).
LiveRingIsWhole ==
    \A c \in Clusters : Live(c) =>
        LET members == Members(configs[c])
            Rank(w) == process[w].rank
        IN  \A w \in members :
                /\ Started(w, c) /\ process[w].world = Cardinality(members)
                /\ process[w].next \in members /\ process[w].master \in members
                /\ Rank(w) < Cardinality(members)
                /\ Rank(process[w].next) = (Rank(w) + 1) % Cardinality(members)
                /\ Rank(process[w].master) = 0

\* While a ring is being built or taken down, no two of its processes have the
\* same rank, and all agree on the head and on the size, whether each took its
\* rank from the frame or derived it (agent.py:254, 373), as long as every frame
\* carries one of the two it needs.
RingIsConsistent ==
    \A c \in Clusters, v, w \in Workers : v # w /\ Started(v, c) /\ Started(w, c) =>
        /\ process[v].rank # process[w].rank
        /\ process[v].world = process[w].world /\ process[v].master = process[w].master

\* Every worker of the pool keeps the promise of Membership, the one the
\* detailed Agent keeps: M(w)!Spec for each w, in the form TLC checks.
M(w) == INSTANCE Membership WITH tunnel <- tunnel[w],
            serving <- IF process[w] = NoProcess \/ w \in exited THEN {}
                       ELSE {[cluster |-> process[w].cluster, rank |-> process[w].rank]},
            ready <- {c \in Clusters : w \in ready[c]}
WorkersKeepMembership ==
    /\ \A w \in Workers : M(w)!Init
    /\ [][\A w \in Workers : [M(w)!Next]_(M(w)!vars)]_vars

\* A cluster goes live, unless it is dissolved, a call of a member failed, or a
\* member is still in the network of an earlier one, which a failing wg-quick down
\* has left up: members wait for nobody, so no order of their steps can block
\* them, and a process that has ended does not either (README.md:38, 41).
FormedGoesLive ==
    \A c \in Clusters :
        Exists(c) ~> \/ Live(c) \/ ~Exists(c) \/ c \in failed
                     \/ Members(configs[c]) \cap stuck # {}

\* What is left of a dissolved ring ends on every machine, also where its members
\* are in other clusters by then (agent.py:446): the processes always, and the
\* tunnel unless the machine's last wg-quick down failed, which nobody repeats.
DissolvedRingEnds ==
    \A c \in Clusters :
        (configs[c] # <<>> /\ ~Exists(c)) ~>
            \A w \in Workers : ~Started(w, c) /\ (tunnel[w] = c => w \in stuck)
=============================================================================
