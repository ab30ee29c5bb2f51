# A TLA+ model of the prima-pool worker agent

prima-pool-client turns a machine into a worker of an inference pool. A
control plane (not in this repository) groups workers into clusters; in each
cluster the machines are joined by a WireGuard network and run one prima.cpp
process each, in a ring. The client is the agent on the worker: it registers,
waits, brings the network and the process up when it is assigned to a cluster,
reports readiness, and takes everything down when the cluster is dissolved.

Paths below are relative to `src/src/prima_pool_client/`, except README.md and
docs/, which are under `src/`.

## 1. The system

| Part | State | Operations | Talks to |
|---|---|---|---|
| Agent (agent.py, `Agent`) | `state` (AgentState), `_prima_proc`, two task handles | run, `_ensure_registered`, `_recover_state`, `_heartbeat_once`, `_handle_assigned`, `_bring_up_cluster`, `_handle_dissolved`, stop | everything |
| State file (agent.py:61-80) | one JSON file | `_load_state`, `_save_state` | Agent |
| Event channel (ws_client.py) | socket, retry counter | `run` (connect, read, back off), `send_frame`, `stop` | Agent handler, control plane |
| REST client (rest.py) | a token | register, heartbeat, worker state, cluster config, ready | control plane |
| WireGuard manager (wireguard.py) | the interface of the machine | up, down, is_up, add_peer, remove_peer, handshakes | wg, wg-quick |
| prima.cpp launcher (prima.py) | a child process | launch, stop, build_env | Agent |
| Output capture (prima.py, `StdoutCapture`) | bounded line buffer, reader thread | `_read`, `text`, `stop` | head monitor, launcher |
| Head monitor (agent.py, `_head_stdout_monitor`) | a task | wait for the marker, send the layer distribution, report ready | channel, REST |
| Relay monitor (agent.py, `_relay_monitor`) | a task, `relayed_ips` | move peers without a handshake to the relay | WireGuard manager |
| Layer table parser (halda.py) | none | parse the solver's log | head monitor |
| Ring topology (prima.py, agent.py) | none | `_ring_members`, `_ring_neighbors`, `_find_ring_position` | launcher |
| Configuration, response models, command line | none after start | load, validate, bootstrap, genkey | - |
| Control plane, peers, machine | external | form and dissolve clusters; kill, move | - |

### How the parts run

The agent is one asyncio loop. REST is a synchronous httpx client and the
WireGuard and prima.cpp calls are subprocess calls, so both block the loop: once
a handler has started it runs to its end before any other task does. The loop
is given back in few places only: the wait for the next heartbeat, the
channel's reads and its back-off, the two background tasks' waits, and the
await of a channel send. The control plane, the machine, the child process and
a kill do not wait for the loop, so an outside event may fall between any two
outside calls of a handler. The channel task does not start to run before
`_recover_state` has returned, because nothing before that awaits.

### What is hard about it

- Three copies of the assignment: the control plane's, the agent's memory, the
  state file, plus the interface and the process that embody it. Each is
  changed in a different step.
- The channel pushes each event once. What is pushed while it is closed is
  gone; what was received before it broke is still to be handled.
- Handlers are chains of outside calls, each of which may fail or be the last
  one before a kill.
- A background task reports readiness on behalf of a handler that returned long
  ago, and awaits in the middle of doing so.
- Each member of a ring computes its own place in it, at its own time.
- A reader thread holds a lock that the loop's thread needs to stop a child.
- A restart meets an interface, a state file and a registration of the life
  before, in any combination.

PROJECT.json lists each such place with its line under "hazards".

### What makes each part correct

- Agent: the machine is part of one cluster at a time, with one process, over
  the right tunnel and with the right rank; what it took it serves; what it
  left is gone.
- State file: at rest a restart loads what the agent believes, or derives the one
  thing that may be missing.
- Identity: the key rendered into the tunnel is the one the control plane
  hands to the peers; the registered endpoint is the machine's.
- Channel: frames are handled in order and a received frame is not lost.
- Head monitor: no report for a cluster that was left; no report without the
  layer distribution.
- Relay monitor: each peer that stays reachable only through the relay is
  routed there, each other one directly, as long as the tunnel is up.
- Parser: of several allocation tables in the log, the last one counts.
- Capture: closing never loses the agent; the marker is found while it is in
  the buffer.
- Launcher: stop comes to an end, whatever the child does.
- Topology: following `next` from the head visits every member once, and no
  two members have the same rank.
- Pool: a cluster whose calls succeed goes live, and nothing of a dissolved one
  stays on any machine but a tunnel that wg-quick would not take down.

## 2. The modules

| Module | What it is |
|---|---|
| `Agent` | the agent, its state file, the channel, the interface, the child, and the control plane as the environment |
| `Membership` | what the machine promises the ring, without the agent: the abstract specification |
| `MCAgent` | the small instances TLC checks |
| `AgentProofs` | type correctness, and where the loop can be, proved |
| `AgentSafetyProofs` | theorems about the tunnel, the child and the relay task, the refinement of Membership among them |
| `AgentStateProofs` | theorems about what the agent keeps: key, endpoint, state file, ring position |
| `AgentOrderProofs` | the theorems about the order of the frames, and about the relay task, which that order keeps away from other tunnels |
| `RelayMonitor` | the relay fallback task over the address table of WireGuard, with the handlers around it |
| `MCRelayMonitor`, `RelayMonitorProofs` | its instance for TLC and its theorems |
| `Halda` | the parser of the allocation table, and a second reading to compare it with |
| `HeadOutput` | extends Halda: the head's child from launch to stop, the thread that captures its output, and the moment the monitor reads it |
| `MCHeadOutput`, `HeadOutputProofs` | its instance for TLC and its theorems |
| `Ring` | the ring topology: operators on the peer list of a cluster config |
| `Pool` | extends Ring: several workers and the control plane, each worker a promise of Membership |
| `MCPool`, `PoolProofs` | its instance for TLC and the theorems about rings that are being built |
| `PoolLiveProofs` | the theorems about live rings |

Agent has the life of the relay task and of the head monitor, but not what they
compute: `relay` there is the config the task was started with, and
`MonitorSends` sends some distribution. RelayMonitor and HeadOutput open these
two boxes, each with only as much of the handlers around it as can interfere.
Agent is also one worker alone, with its ranks given as constants. Pool puts
several side by side, with less of each, and computes the ranks; what ties
the two together is Membership, which both implement.

### Agent

One worker on one machine, over many lives of its process.

| Variables | In the code |
|---|---|
| `registry`, `lastWorker`, `formed`, `ready`, `dists` | the control plane's view (external): worker records with key, endpoint host and cluster; accepted readiness reports; layer distributions |
| `conn`, `chan` | the WebSocket of WsClient and the frames on it that no handler has taken, oldest first |
| `disk` | what `_load_state` would return |
| `host` | what `_advertised_endpoint_host` would return |
| `mem`, `booting` | `Agent.state`; whether run() is before its first heartbeat |
| `proc`, `monitor`, `sent`, `relay` | `_prima_proc` is set; the cluster `_head_stdout_monitor` runs for and whether it is past its send; the config `_relay_monitor` was started with |
| `wg`, `prima` | the interface and the conf it is up with; the prima.cpp processes alive |
| `lapses` | history, read by properties only: the silent failures that the interface which is up has met, of wg-quick down and of wg show |
| `pc` | the outside call the loop is in: a handler is a chain of steps, one per call; "idle" means that no handler holds the loop |
| `events` | bound on disturbances |

Actions, in the order of the module: the control plane forms a cluster, dissolves
it, or deletes the worker; the host moves; prima.cpp exits. Then run(), stop()
and kills (`Start`, `Stop`, `StopDown`, `StopKill`, `Crash`, `CrashWhileSaving`);
`_ensure_registered` (`EndpointChanged`, `WorkerStillValid`,
`WorkerNotConfirmed`, `Register`, `RegisterFails`, `StampAndSave`);
`_recover_state` and the heartbeats; `_bring_up_cluster` (`FetchConfig`, `WgUp`,
`Launch`, `WorkerReports` and their failures, `UndoTunnel` after a failed launch);
the channel and the two frame handlers (`Connect`, `Disconnect`, `HandleAssigned`,
`HandleDissolved`, `WgDown`, `StopPrima`); the background tasks (`MonitorSends`,
`MonitorReports`, `RelayMonitorEnds`). A trailing save in the code is a step
that the chain always takes; what is a choice is only whether the process is
killed before it. PROJECT.json "map" gives the lines of every definition.

Each call may fail the way the code lets it. REST calls, wg-quick up and the
launch raise, and the handler ends where it catches them. Three failures raise
nothing where one would look for it:
- wg-quick down: its exit code is ignored (wireguard.py:122), so the interface
  stays up and the dissolve, the failed launch or the stop goes on (`TakeDown`);
- wg show: any nonzero exit code means "down" (wireguard.py:137), so recovery
  brings up what is up (`LooksDown`) and the relay monitor ends for good with the
  tunnel up (`RelayMonitorEnds`);
- pkill, which `PrimaLauncher.stop` ends with: where it is not installed, stop
  raises after the child has been stopped, and the rest of the dissolved handler
  is skipped (`StopPrimaFails`).

`lapses` remembers the first two for as long as that interface is up, so that a
property can say what is promised until then and what after.

Two switches make one module stand for two deployments. `InContainer` TRUE: a
kill destroys the network namespace, so the interface and the child go with the
agent (setup-docker.md). FALSE: on a bare host both may survive it
(setup-nodocker.md).

Abstractions:
- `assigned_ip` and `cluster_id` are written together everywhere and are one
  field.
- A WireGuard keypair is named by the worker record it was first registered
  with: a new state file means a new key.
- A missing file and a truncated one both load as a fresh AgentState.
- A failed REST call is a refusal (404 and the like, by the control plane's
  state) or a network error; for registration also one whose request was served
  and whose answer was lost.
- The end of the head monitor's wait is one choice: the marker or the time out.
- A layer distribution is there or not; the empty one counts as there, as it
  does in the code (`is not None`).
- asyncio runs ready tasks in turn. The relay task of a launch that failed was
  made ready inside the handler, and a connection takes several turns of the
  loop, so the task's first round comes first, finds the interface down and ends
  (`Connect` needs it). Frames that are already there may still be handled
  before that round.

The control plane is external. It is modelled from what the agent relies on:
it answers REST from its current state, pushes each event once and in order to
the worker's open channel, gives a cluster an id once, serves a cluster config
to members only and accepts reports from members only.

The module ends with its properties. Operators named `X_Suffix` next to `X` are
variants with a plausible defect; no run uses them as they stand. They exist to
show that each property notices the defect it is there for.

### Membership

Three variables (`tunnel`, `serving`, `ready`) and four actions. `Join` needs
that nothing of an earlier cluster is left, `Serve` starts one process for the
cluster of the tunnel, `BecomeReady` adds the cluster of the tunnel only. Agent
implements it with `tunnel <- wg, serving <- prima`; `ready` is the control
plane's variable of that name.

### RelayMonitor

WireGuard routes by key: an address belongs to the peer that claimed it last
(`owner`). `Claim` is what setting a peer's addresses does to the table; both
the rendered config and add_peer go through it. `recent` is the set of peers
with a handshake in the last 120 s and changes at any time, also between the
monitor's reading (`Check`) and its call (`AddRelay`, `RemoveRelay`,
`ApplyFails`). `relayed` and `wanted` are the variables of that name in the
code. `BringUp`, `LaunchFails` and `Dissolve` are the parts of the handlers
that change the interface or the task. Both of the latter call wg-quick down,
which may leave the interface as it is (`TakeDown`). A failed launch leaves the
task, which a bring-up would keep for the next cluster, with the old config.
RelayMonitor lets that bring-up come at once, which is more than the code does:
Agent, with the order of the frames, shows that the task is gone by then
(`RelayTaskFitsItsTunnel` in section 4). `MonitorEnds` is the round whose wg show
fails, be the interface gone or not; `task` is `Ended` afterwards, a task that is
done, which a bring-up replaces. Peers have one address each (the code reads
the first only). `ownListed` covers configs with and without an entry for this
worker: `_find_ring_position` expects one, and WireGuard ignores a peer with the
own key, so with it there is always an address to relay.

### Halda and HeadOutput

A line of output is the kind of line it is for the parser. `parse_distribution`
and `build_distribution` follow the code: positions of matches, blocks between
devices, a lookup of removals. `Reading` is the other way to read the same
output, line by line with a small state (the recursive function `Reader`), and
is what they are compared with.
The names of the two functions are those of the source.

In HeadOutput the reader thread may take a line at any time (`PrintLine`), the
buffer drops its oldest lines (`Capture`), and the monitor stops waiting on the
marker or on its time out and then reads the buffer a second time (`Report`).
The dissolved handler cancels the monitor and then calls stop, which may happen
at any moment. `stage` is where the loop's thread is in stop, `child` what has
become of the process, `reader` where the thread is:

| Step | In PrimaLauncher.stop |
|---|---|
| `Terminate`, `FindExited` | poll, then terminate |
| `WaitReturns`, `WaitTimesOut` | wait up to ten seconds, else kill |
| `CloseReturns` | StdoutCapture.stop: the flag, then close() of the pipe; pkill |
| `ComposeDown` | docker mode |

In CPython a BufferedReader is closed under the lock that a running readline
holds, so close() returns only after readline has: with a line or at the end of
the output. The comment at prima.py:75 ("Closing stdout unblocks the readline
loop; the child keeps running") is not what happens. The order of stop makes up
for it, and that is `CloseWaitsForTheDead`. In docker mode nothing is captured
and the monitor reports unknown at once (`ReportUnknown`).

### Ring and Pool

Ring has the four functions every member computes its place with, over a peer
list in which the control plane's own peer may stand anywhere. A peer is named
by its owner, which stands for key and address.

| Variables of Pool | In the code |
|---|---|
| `configs`, `assigned`, `ready`, `dists` | the control plane (external): the peers of each cluster, the cluster of each worker, readiness reports, distributions |
| `failed` | clusters in which some call of a member has failed |
| `chan[w]`, `pc[w]` | the frames on w's channel; the call w's loop is in |
| `mem[w]` | cluster, ring position and address in `Agent.state` |
| `monitor[w]`, `tunnel[w]`, `process[w]` | the head's task, the interface, and what prima.cpp was started with, until it is stopped |
| `exited` | workers whose prima.cpp has ended by itself, which the agent does not notice |
| `stuck` | workers whose last wg-quick down failed |

A handler is cut where another party can see or change something: at the fetch
of the config (`BringUp`, with the wg-quick that follows), at the launch, at the
report. `HeadReports` is the head's task: its wait ends with the marker or the
time out, whether or not the child still runs, and it then sends the distribution
and reports. The frame may carry the ring position or leave it to
`_find_ring_position`, for each member independently; the constant `Carries` says
which of the two fields, ring_position and assigned_ip, a frame may have, since
the code takes either to be optional (agent.py:239). wg-quick down may fail
(`WgDownFails`) and a process may end (`PrimaExits`). A channel does not break
here, a worker lives once and pkill is installed; Agent has those.

## 3. What is checked

| Run | Question | Properties |
|---|---|---|
| agent_service | a long service life without restarts: broken channels, failing calls of every kind, children that exit, a deleted worker | TypeOK, RankIsCurrent, HeadReadyHasDistribution, DissolveIsCurrent, MonitorFollowsTunnel |
| agent_restart | every life, with kills, torn saves, stops and host moves between them | NoOrphans, TunnelIsSupervised, TunnelIsWatched, RestStateIsPersisted, KeyIsRegistered, EndpointIsCurrent, KeepsMembership |
| agent_live | does it get there, under fairness | TakenAssignmentIsServed, RestartRecovers, ReceivedDissolveIsObeyed |
| agent_stale_rank | is the rank also right after a restart | RankIsCurrent: violated |
| agent_lost_frame | is every assignment served if the channel loses its frame | AssignmentIsServed: violated |
| agent_launch_stuck | is a failed launch resolved | LaunchIsResolved: violated |
| agent_host_restart | does a kill on a bare host recover | RestartRecovers: violated |
| relay | are the routes what the monitor thinks, and does it converge | TypeOK, RelayedIsRouted, PreferredIsRelayed, LostPeersAreRelayed |
| relay_direct | does a healthy peer go direct | DirectPeersGoDirect: violated |
| pool | do several workers form one ring, and undo it | TypeOK, LiveRingIsClosed, LiveRingIsWhole, RingIsConsistent, WorkersKeepMembership, FormedGoesLive, DissolvedRingEnds |
| head_output | is the right table read, whenever and whatever is read, and does stop wait for the right thing | TypeOK, ParserReadsTheLastTable, TrimmingNeverMisleads, NoTableIsUnknown, CloseWaitsForTheDead |
| head_removal | are only removals after the table applied | PrunedAfterTheTable: violated |

What each property says is in the comment above it.

Bounds. Two clusters, this worker the head of one (rank 0) and second in the
other: rank 0 has the separate readiness path, and two are needed for
anything of an earlier cluster to meet a later one. A cluster id is used once,
so a run has up to two assignments and dissolves, in both orders.
`MaxWorkers` bounds registrations (each needs a disturbance, so it is one more
than the disturbances that cause one). `MaxEvents` bounds disturbances: four in
agent_service, three in agent_restart (a kill, a second failure during the
recovery, and a third in the life after), two in agent_live.
The hazards of this code take one or two disturbances at a particular step. Two
hosts where the host may move, one where it does not matter.

relay: two clusters, so that a task could meet the interface of another; in the
first a plain peer, one marked for the relay and a server (the three ways the
loop treats a peer). Three failures: enough for one in each call of a
round and for a failed launch or wg-quick down before it.

pool: three workers, so that a ring has a successor that is not also the
predecessor, and two clusters, formed one after the other with common members
or side by side. The two configs differ in size, in the order of the
workers they share (w1 before w2, w2 before w1) and in where the server's peer
stands. Clusters are numbered as they are formed, which only renames them. One
worker is flaky: its calls may fail, each of them and as often as they come, and
its prima.cpp may end by itself. It heads the one config and is second in the
other; a second such worker would repeat it. CHECK_DEADLOCK is off: with the
clusters used up the pool rests.

head_output: six lines are two complete tables of one device, or one table with two
devices of which one has no window, plus removals; the buffer of five lines
trims at the sixth. Two ranks and two window sizes tell a stolen window from
the own one. A launch after a stop starts over, so deadlock is checked: no stop
gets stuck.

The runs use no symmetry: clusters differ in their rank, workers in their place.
Deadlock is checked in every run but pool; the agent can always send a heartbeat
or be restarted.

### Fairness

agent_live assumes of the agent:
- weak fairness of startup and of handler steps: every REST call has a time out,
  every subprocess call returns, and an agent that is down is started again
  (a service manager, or docker's restart policy);
- weak fairness of the heartbeats of the boot sequence;
- weak fairness of the relay task's end where its interface is down: it wakes up
  after its interval and looks;
- strong fairness of handling a frame, of connecting and of the head monitor:
  asyncio runs its ready tasks in turn, the monitor's wait ends at its time out
  at the latest, the channel's back-off is capped. A heartbeat may hold the
  loop in between, so these are not continuously enabled, only again and again.
  Connecting is fair only while the worker record exists and no handler blocks
  the loop.

Nothing is assumed of the control plane (it may never form or dissolve a
cluster) nor of the disturbances. agent_live leaves out failing REST calls,
failing wg-quick and failing launches on purpose: the code never repeats a
config fetch, a bring-up or a readiness report, so no liveness survives them
(see the hazards at agent.py:249 and 301). A wg-quick down that fails is left out
for the same reason: the next assignment meets the interface and is not served.

relay and relay_direct assume that the task wakes up after its interval and that
its calls return (weak fairness of MonitorStep); nothing of the handshakes.
`LostPeersAreRelayed` speaks of a peer whose direct path is gone for good, while
the monitor of its cluster runs; a path that flaps for ever is promised nothing,
and neither is a tunnel whose monitor has ended at a failing wg show.

pool assumes only that the machines go on while one of them has something to
run (weak fairness of all agents together, weaker than of each). That is enough
because the clusters, hence the frames, are finitely many and a frame sets off
finitely many steps. Nothing is assumed of the control plane. `FormedGoesLive`
exempts clusters in which a call failed, because nothing is retried
(agent.py:249, 301), and those with a member whose interface a failed wg-quick
down has left up. It does not exempt clusters whose processes have ended: the
head reports when it times out. `DissolvedRingEnds` exempts one thing, the tunnel
of a machine whose last wg-quick down failed; the processes end whatever failed.

### What the violated runs show

1. `RankIsCurrent` after a restart. `_recover_state` takes the cluster from the
   server and leaves `ring_position` as loaded; `_bring_up_cluster` prefers the
   persisted one (agent.py:252-254). Stop the agent in one cluster, move the
   worker to another, start it: prima.cpp runs with the old rank. Between
   restarts the property holds (agent_service): the assigned handler always
   overwrites the field, and the dissolved handler clears it.
2. `AssignmentIsServed`. ws_client.py:3-4 says that every event is recoverable
   over REST; the code reads the worker state only during startup. An assignment
   between that read and the first connection is lost until the next restart,
   with no disturbance at all.
3. `LaunchIsResolved`. The comment at agent.py:267-270 speaks of returning to the
   waitlist. Only local fields change; the control plane still waits for this
   worker and the next heartbeat writes "assigned" back into the status.
4. `RestartRecovers` on a bare host. The interface survives the kill, so
   `_recover_state` skips the whole bring-up, and with it the launch and the
   report.
5. `DirectPeersGoDirect`. The rendered config gives every address to the relay
   peer, which is listed last; the first round then leaves the relay those of
   the peers without a handshake. The others belong to nobody: the comment at
   agent.py:398-399 expects WireGuard to route them directly, and it drops their
   packets. `NoAddressGoesDirect` (section 4) says that this is so in every
   cluster: from the first bring-up on no address ever belongs to its own peer.
6. `PrunedAfterTheTable`. The parser applies every removal line of the output to
   the last table, those printed before it included. `OnlyEarlyRemovalsMislead`
   shows that a rank is reported without layers for no other wrong reason.

### What the code does when a call fails silently

These have no run of their own. They are in the models, and the properties that
hold say how far they reach:

- After a wg-quick down that failed (wireguard.py:122) the worker waits for work
  with the old tunnel up. wg-quick up refuses the interface of the next cluster,
  the handler ends in the channel's catch-all, and the control plane waits for a
  report that never comes. Nothing repeats the call before the next dissolve or
  stop. No child is left all the same (NoOrphans, DissolvedRingEnds), and no report
  is sent for a cluster whose tunnel is not there (KeepsMembership).
- After one wg show that failed (agent.py:407) the monitor has ended and nothing
  starts it again before the next bring-up, while a failing wg set of the task is
  logged and made again. A peer that loses its direct path later is not
  relayed. No task of another cluster takes its place (TunnelIsWatched).
- Where pkill is missing (prima.py:256) every dissolve of a running child ends in
  an exception, with the state as it was: the worker goes on as a member of that
  cluster until the next assignment overwrites it (RestStateIsPersisted,
  KeepsMembership).
- A child that has ended is not noticed. The head reports when it times out
  (agent.py:334), so that a live cluster may have members that serve nothing:
  LiveRingIsWhole and LiveRingIsClosed are about what was started.

## 4. What is proved

Every invariant and every action property of the passing runs is also a
theorem, and two more are proved that have no run of their own, because in a
container they say little beyond KeepsMembership and TunnelIsWatched
(`RelayTaskFits`, `ReadyOverItsTunnel`): for every set of clusters, ranks,
hosts, workers, configs and peers, every bound and every set of disturbances,
checked by TLAPS. Each theorem rests on an inductive invariant; TLC checked
each of these on the small instances before it was proved.

### Agent

- `TypeCorrect` (AgentProofs): `Spec => []TypeOK`. TypeOK is not inductive:
  launching needs that `mem.cluster` is a cluster and `mem.pos` a rank, and
  both are optional fields. `TypeInv == TypeOK /\ Launchable` adds what the
  chain of calls has established by then, and is inductive. The proof has one
  lemma per group of Next and one step per action in it. `LoopInv` says what
  the other modules need of the loop: where it can be during startup and with
  which tasks and frames.
- `HeadReportsOverItsTunnel`: `Spec => []MonitorFollowsTunnel`. `MonitorInv`
  adds that the tunnel is that of `mem.cluster` while the loop is at the launch,
  the one place that starts the monitor. The argument is that every step that
  takes the interface down either cancels the task in the same step, or comes
  where the task cannot be: after the first step of the dissolve chain, which
  cancelled it, or at a launch, which needs that the interface was down before.
- `ReportsComeOverTheTunnel`: `Spec => ReadyOverItsTunnel`, from the same
  invariant: both who report are tied to the tunnel. It holds on hosts too: a
  restart that finds another tunnel up skips the report with the bring-up.
- `CleanEndsKeepMembership`: `CleanEnds => (Spec => KeepsMembership)`, the
  refinement of Membership. `OneProcessInv` says that there is at most one
  process, that it belongs to the cluster of the tunnel and is held by the
  agent, and where in the chain a process cannot exist. TypeInv, MonitorInv and
  OneProcessInv together map every step to an action of Membership or to a
  stutter; a readiness report is BecomeReady because both who may send it (the
  handler at "report", the head monitor) are tied to the tunnel.
- `NothingIsLeftBehind` and `TunnelHasItsChild`: `CleanEnds => (Spec =>
  []NoOrphans)` and `CleanEnds => (Spec => []TunnelIsSupervised)`. `OrphanInv`:
  who believes to be in no cluster has no child, and no tunnel that no wg-quick
  down has failed on, nor has a process that is starting; such a tunnel comes with
  the child except on the way to its launch. The failures of every other call,
  a missing pkill among them, are not exempt.
- `TunnelHasItsWatch`: `CleanEnds => (Spec => []TunnelIsWatched)`. A tunnel at
  rest that no wg command has failed on has a relay task (`WatchInv`: only a
  dissolve or a stop, on its way to take the tunnel down, leaves it without), and
  by the next theorem a task that is there is the tunnel's own, also after a
  failure.
- `RelayTaskFitsItsTunnel` (AgentOrderProofs): `Spec => []RelayTaskFits`, on
  hosts too and whatever fails. A bring-up keeps a task that is not done (agent.py:265),
  and a failed launch leaves one, so this is a matter of order. `TaskInv`: on
  the channel assignments alternate with dissolves (`Followed`), nothing that
  may still be pushed is a second assignment (`Covered`), and while an
  assignment is taken and not dissolved, the tasks of a failed launch included
  (`Bound`), the next frame is a dissolve, which cancels the task. So a bring-up
  finds no task. This is what RelayMonitor's properties suppose of the handlers.
- `RegisteredKeyIsUsed`: `Spec => []KeyIsRegistered`, kills, torn saves and
  lost answers included. `KeyInv` says of memory and file alike that a known
  worker id comes with the key of its record; a lost file gives a new key and a
  new record together.
- `RestingStateIsOnDisk`: `Spec => []RestStateIsPersisted`. It speaks of the whole
  of AgentState. `PersistInv`: memory and file differ only inside a chain that
  still has its save ahead, except for a position that was derived after the save
  (agent.py:257); the file then has the cluster and no position, and deriving it
  again gives the same one (`DerivingKeepsState`).
- `RegisteredHostIsCurrent`: `"drift" \notin Events => (Spec =>
  []EndpointIsCurrent)`. `HostInv` follows the host a record was registered with
  through memory and file, into lives that find the file torn.
- `RankFitsTheRing` and `HeadReportsDistribution`: `OneService => (Spec =>
  []RankIsCurrent)` and `OneService => (Spec => []HeadReadyHasDistribution)`.
  `RankInv`: a remembered position is that of the remembered cluster, and none
  is on disk before the first heartbeat, where startup may still fail and run
  again. The second follows, because the report of a handler is that of a
  member with another rank than 0.
- `DissolveTakesTheOldTunnel` (AgentOrderProofs): `Spec => []DissolveIsCurrent`,
  with broken channels, restarts and re-registrations. The handler of a
  dissolve does not look at the id in its frame. What saves it is an order:
  `FrameInv` says that an assignment with a dissolve behind it is over,
  `PendingInv` that whoever has a dissolve to take has no tunnel of the cluster
  it is in, and `FormedInv` that no cluster is known before it is formed.

Some of these have a hypothesis on the constants, and each is the line between
what the code does and what it does not do:

| Hypothesis | Says | Without it |
|---|---|---|
| `CleanEnds` | InContainer, or nobody kills the process | on a host the interface and the child may survive a kill and nobody holds them (agent_host_restart) |
| `OneService` | a process that is in service is not ended | a restart loads the position of a cluster that is gone (agent_stale_rank) |
| `Told` (Pool) | every frame carries ring_position or assigned_ip | a worker that finds no address of its own takes itself for the head (agent.py:384) |
| no "drift" | the host does not move while the agent runs | the address is compared at startup only (agent.py:127) and detected twice (agent.py:184) |

The runs that check these properties keep to the same hypotheses, in their
Events and in Carries.

### Relay monitor

`RelayTypeCorrect`, `RelayMemoryIsTrue` and `MarkedPeersStayRelayed`
(RelayMonitorProofs): `Spec => []TypeOK`, `Spec => []RelayedIsRouted` and
`Spec => []PreferredIsRelayed`. One invariant serves all: `MonitorInv` says that
the monitor wants and remembers addresses of its own config only, and that
what it is about to set has every marked peer in it. Without the first part a
bring-up that meets a kept task would not restore what the task remembers.

`NoAddressGoesDirect`: an address belongs to the relay or to nobody, in every
state. It is the general form of what the run relay_direct shows of one
cluster.

### Pool

- `PoolTypeCorrect`, `RingsAreConsistent` and `PoolKeepsMembership` (PoolProofs):
  `Spec => []TypeOK`, `Spec => []RingIsConsistent` if `Told`, and
  `Spec => WorkersKeepMembership`. `PoolInv` has three parts per worker: every
  cluster a worker knows of, in its frames too, is one it is a member of; a
  process has what its config and its member's place give; and on one machine,
  tunnel, process and the head's task belong together. The first part is needed
  because the members are at different steps: what a late member reads is still
  the config of the cluster it was told of. `PlaceFacts` is the heart of the
  second: in a ring without duplicates the place a member derives is the place
  the control plane gave it, and two members have different ones.
- `LiveRingsAreWhole` and `LiveRingsAreClosed` (PoolLiveProofs):
  `Spec => []LiveRingIsWhole` and `Spec => []LiveRingIsClosed`, both if `Told`.
  What the control plane holds as ready must still be true of what the member has
  started and not stopped. That these processes still run is not claimed: nobody
  watches them, and a head whose child has died reports when it times out
  (agent.py:334). `LiveInv` is the
  reason: who is about to report has started what it reports, and who has a dissolve
  to take has nothing going on in the cluster it is in, so that no dissolve of
  an earlier ring can end a process that was counted for a later one. The walk
  of LiveRingIsClosed is a recursive function. Its closed form, the n-th place
  of the ring modulo its length, satisfies the same equation (`NextModulo`), and
  `WalkIsUnique` shows that nothing else does, by the least place where two
  solutions differ (WFMin of the library).

### Head output

- `HeadOutputTypeCorrect` and `CloseComesAfterTheChild` (HeadOutputProofs):
  `Spec => []TypeOK` and `Spec => []CloseWaitsForTheDead`. The first needs that
  the parser's greatest and least positions exist (`MaxFacts`, `MinFacts`), and
  so that a distribution has windows as values.
- `MissingTableIsUnknown`: `Spec => []NoTableIsUnknown`.
- `TrimmedOutputIsSound`: `Spec => []TrimmingNeverMisleads`, for every limit of
  the buffer. `Captured` says that the buffer is the end of what was printed.
  The lemma `TrimmedParse` does the rest and speaks of any two logs of which one
  is the end of the other: with the header of the last table still there, table,
  devices, blocks and removals are the same, moved by the number of lines lost
  (`Shifted`).
- `LastTableIsRead`: `Spec => []ParserReadsTheLastTable`. The state of the
  line-by-line reading has a closed form in the parser's own operators
  (`Parsed`), and one lemma per kind of line shows that appending a line moves
  both alike (`ParsedStep`). `ReaderParses` then compares them over the prefixes
  of the output: where they differ they differ at a least number of lines, which
  is not 0 and not one more than a number where they agree. This takes the place
  of an induction over the output.
- `OnlyEarlyRemovalsMislead`: `Spec => [](H => PrunedAfterTheTable)`, where H
  says that no removal precedes a line of a table and no window is of size 0.
  A rank is then reported without layers only if it was removed after the
  table, also when the buffer was trimmed and whenever it was read (a window of
  0 would be the table's own word). Finding 6 has no second cause.

### Assumptions

They are the named ASSUMEs of Agent, RelayMonitor, Pool, Halda and HeadOutput.
Those of Pool: finitely many workers, and the ring of a config is not empty and
names workers, each once. Those of Agent: sentinels are not members of the sets
they extend, Rank maps clusters to naturals, the home host is a host, the bounds
are naturals. Those of RelayMonitor: a worker's own entry is not one of the
others, sentinels and the relay are not entries. Those of Halda and HeadOutput:
the numbers in the output are naturals, rank 0 among them, ring sizes and the
limit of the buffer are positive. TLC evaluates them in every run of the module.

### Model-checked only

The liveness properties (TakenAssignmentIsServed, RestartRecovers,
ReceivedDissolveIsObeyed, LostPeersAreRelayed, FormedGoesLive,
DissolvedRingEnds), and what the violated runs show. TLAPS does not reason about
fairness and ENABLED here.

## 5. What is not modelled

- What docker compose does: `up -d` is started and not waited for, and `down`
  may overtake it (hazard at prima.py:198). Only the agent's side of docker
  mode is in HeadOutput.
- The death of a killed child: kill() is not waited for, so the next launch may
  meet its port (hazard at prima.py:252). Whether it binds is prima.cpp's. Agent
  and Pool let a child that is stopped be gone at once; HeadOutput does not.
- Machines without wg or wg-quick: no tunnel ever comes up there, down() does
  nothing and is_up() is false (wireguard.py:96-137). pkill may be missing in
  Agent, since the Dockerfile's runtime stage does not install it; in Pool it is
  there.
- wg and wg-quick calls that hang: none has a time out.
- What the control plane does with the host it is given. The agent sends
  `_detect_host()` when none is configured (agent.py:113-115), although
  README.md:104 says that the server then uses the address it observes; `host` in
  Agent is what the agent sends.
- Frames other than the two assignments: hello sets the heartbeat interval,
  pong does nothing, unknown and undecodable ones are logged.
- Times: the heartbeat interval, the back-off (`attempt` only chooses a delay), the
  time out of the head monitor and of handshakes are the freedom of when a step
  happens. So a server that accepts and drops connections, which is retried every
  second for ever (ws_client.py:43), and a healthy peer whose handshake is renewed
  too late and which moves to the relay and back (agent.py:420) are behaviours of
  the models and nothing more.
- Configuration (config.py), bootstrap, genkey, pydantic validation, the hash of
  the model file, `_detect_hardware`: they read or compute something once and
  keep no state that changes.
- revoke_worker and the account and key calls of the REST client: nothing in
  the agent calls them.
- Two agents on one machine, and the file system beyond a truncated write.
- The parts listed in the plan.

## 6. Plan

In order of weight:

1. `Agent`, its runs and first theorems: done.
2. `RelayMonitor`, its runs and theorems: done.
3. `Halda` with the buffer and the monitor's reading, and the launcher's stop
   around it (`HeadOutput`): done.
4. `Ring` and `Pool`: done.
5. Left of the hazards: a host that moves during the registration
   (agent.py:184), and those of section 5.
6. The theorems of section 4: done for every invariant and action property.
   Left: what Agent still guarantees under the events that the hypotheses of its
   theorems leave out, beyond `RelayTaskFits` and `ReadyOverItsTunnel`, which need
   none.
