---------------------------- MODULE RelayMonitor ----------------------------
(***************************************************************************)
(* The relay fallback of the agent (agent.py, _relay_monitor) over the     *)
(* WireGuard interface it steers (wireguard.py).                           *)
(*                                                                         *)
(* WireGuard routes by key: each address belongs to the one peer that      *)
(* claimed it last.  The monitor looks at the handshakes every few seconds *)
(* and sets the addresses of the relay peer to those of the peers without  *)
(* a recent direct handshake.  It is one task, started by a bring-up with  *)
(* the config of that cluster and cancelled by a dissolve; a launch that   *)
(* fails leaves the task.  wg-quick down may fail without a word, and the  *)
(* first wg show that fails ends the task for good.                        *)
(*                                                                         *)
(* Abstractions.  A peer entry of a config is its key and its address in   *)
(* one, so an address of the table is named by the entry it was configured *)
(* for.  Clusters share the relay and no entry.  "Handshake in the last    *)
(* 120 s" is a set of entries that changes at any time.                    *)
(***************************************************************************)
EXTENDS Naturals

CONSTANTS
    Clusters,
    Entries,     \* peer entries of all configs
    Listed,      \* Listed[c]: the entries of c, its own one not counted
    Own,         \* Own[c]: the entry of this worker in c
    Servers,     \* entries with role "server"
    Preferred,   \* entries with preferred "relay"
    Relay,       \* the relay peer
    MaxEvents,   \* bound on failing calls and launches
    NoCluster, NoPeer, Ended

ASSUME EntriesAssumption ==
    /\ Listed \in [Clusters -> SUBSET Entries] /\ Own \in [Clusters -> Entries]
    /\ \A c \in Clusters : Own[c] \notin Listed[c]
ASSUME SentinelsAssumption ==
    /\ NoCluster \notin Clusters /\ Ended \notin Clusters
    /\ Relay \notin Entries /\ NoPeer \notin Entries /\ NoPeer # Relay
ASSUME KindsAssumption ==
    Servers \subseteq Entries /\ Preferred \subseteq Entries /\ MaxEvents \in Nat

VARIABLES
    ownListed, \* configs name this worker too, as _find_ring_position expects
    conf,      \* the cluster the interface is up with
    owner,     \* owner[a]: the peer that address a belongs to
    recent,    \* entries with a recent handshake
    task,      \* _relay_task: the cluster whose config it runs with, or Ended
    relayed,   \* its relayed_ips
    wanted,    \* its wanted, while pc = "apply"
    pc,        \* "wait", or "apply" between reading handshakes and wg set
    events     \* failures so far

taskVars == <<task, relayed, wanted, pc>>
vars == <<ownListed, conf, owner, recent, taskVars, events>>

Members(c) == IF ownListed THEN Listed[c] \cup {Own[c]} ELSE Listed[c]

\* Mutant: role "server" is not skipped.
Ring_WithServers(c) == Members(c)

Ring(c) == Members(c) \ Servers
NoOwners == [a \in Entries |-> NoPeer]

\* What WireGuard does when the addresses of a peer are set (external): it
\* takes them from whoever had them and gives up the others it had.
Claim(table, peer, addresses) ==
    [a \in Entries |-> IF a \in addresses THEN peer
                       ELSE IF table[a] = peer THEN NoPeer ELSE table[a]]

\* render_wg_conf: every peer with its address, then the relay with all of them.
RenderedTable(c) ==
    Claim([a \in Entries |-> IF a \in Members(c) THEN a ELSE NoPeer], Relay, Members(c))

Init ==
    /\ ownListed \in BOOLEAN
    /\ conf = NoCluster /\ owner = NoOwners /\ recent = {}
    /\ task = NoCluster /\ relayed = {} /\ wanted = {} /\ pc = "wait"
    /\ events = 0

Disturbed == events < MaxEvents /\ events' = events + 1

-----------------------------------------------------------------------------
(* The handlers around the monitor; they run when it waits. *)

\* _bring_up_cluster: wg-quick up fails where the interface is still up; the
\* task is started unless one is still running.
BringUp(c) ==
    /\ pc = "wait" /\ conf = NoCluster
    /\ conf' = c /\ owner' = RenderedTable(c) /\ recent' = {}
    /\ IF task \in Clusters THEN UNCHANGED <<task, relayed>>
                            ELSE task' = c /\ relayed' = {}
    /\ UNCHANGED <<ownListed, wanted, pc, events>>

\* wg-quick down, whose exit code nobody looks at.
TakeDown ==
    \/ conf' = NoCluster /\ owner' = NoOwners /\ recent' = {} /\ UNCHANGED events
    \/ UNCHANGED <<conf, owner, recent>> /\ Disturbed

\* ... whose launch then fails: the tunnel is taken down, the task stays.
LaunchFails ==
    /\ pc = "wait" /\ conf # NoCluster /\ Disturbed
    /\ \/ conf' = NoCluster /\ owner' = NoOwners /\ recent' = {}
       \/ UNCHANGED <<conf, owner, recent>>
    /\ UNCHANGED <<ownListed, taskVars>>

\* _handle_dissolved
Dissolve ==
    /\ pc = "wait" /\ conf # NoCluster
    /\ TakeDown
    /\ task' = NoCluster /\ relayed' = {}
    /\ UNCHANGED <<ownListed, wanted, pc>>

-----------------------------------------------------------------------------
(* The network (external): WireGuard ignores a peer with the own key. *)

DirectHandshake(e) ==
    /\ conf # NoCluster /\ e \in Members(conf) \ {Own[conf]} /\ e \notin recent
    /\ recent' = recent \cup {e}
    /\ UNCHANGED <<ownListed, conf, owner, taskVars, events>>

HandshakeAges(e) ==
    /\ e \in recent /\ recent' = recent \ {e}
    /\ UNCHANGED <<ownListed, conf, owner, taskVars, events>>

-----------------------------------------------------------------------------
(* _relay_monitor *)

\* Mutant: preferred "relay" is ignored.
Wanted_HandshakesOnly(handshakes) == Ring(task) \ handshakes

Wanted(handshakes) == {e \in Ring(task) : e \in Preferred \/ e \notin handshakes}

\* A wg show that fails reads as no handshake.
LatestHandshakes(handshakes) ==
    (handshakes = recent /\ UNCHANGED events) \/ (handshakes = {} /\ Disturbed)

\* One round up to the comparison.
Check ==
    /\ pc = "wait" /\ task \in Clusters /\ conf # NoCluster
    /\ \E handshakes \in {recent, {}} :
           LatestHandshakes(handshakes) /\ wanted' = Wanted(handshakes)
    /\ pc' = IF wanted' # relayed THEN "apply" ELSE "wait"
    /\ UNCHANGED <<ownListed, conf, owner, recent, task, relayed>>

\* Mutant: what was relayed once is remembered as relayed.
AddRelay_Accumulates ==
    /\ pc = "apply" /\ wanted # {}
    /\ owner' = Claim(owner, Relay, wanted)
    /\ relayed' = relayed \cup wanted /\ pc' = "wait"
    /\ UNCHANGED <<ownListed, conf, recent, task, wanted, events>>

AddRelay ==
    /\ pc = "apply" /\ wanted # {}
    /\ owner' = Claim(owner, Relay, wanted)
    /\ relayed' = wanted /\ pc' = "wait"
    /\ UNCHANGED <<ownListed, conf, recent, task, wanted, events>>

RemoveRelay ==
    /\ pc = "apply" /\ wanted = {}
    /\ owner' = Claim(owner, Relay, {})
    /\ relayed' = {} /\ pc' = "wait"
    /\ UNCHANGED <<ownListed, conf, recent, task, wanted, events>>

\* Mutant: relayed_ips is assigned before the call that fails.
ApplyFails_Remembered ==
    /\ pc = "apply" /\ Disturbed
    /\ relayed' = wanted /\ pc' = "wait"
    /\ UNCHANGED <<ownListed, conf, owner, recent, task, wanted>>

\* wg set fails: logged, and compared again in the next round.
ApplyFails ==
    /\ pc = "apply" /\ Disturbed
    /\ pc' = "wait"
    /\ UNCHANGED <<ownListed, conf, owner, recent, task, relayed, wanted>>

\* The round whose wg show fails ends the task, be the interface gone or not.
MonitorEnds ==
    /\ pc = "wait" /\ task \in Clusters
    /\ (conf = NoCluster /\ UNCHANGED events) \/ Disturbed
    /\ task' = Ended /\ relayed' = {}
    /\ UNCHANGED <<ownListed, conf, owner, recent, wanted, pc>>

-----------------------------------------------------------------------------
HandlerStep == (\E c \in Clusters : BringUp(c)) \/ LaunchFails \/ Dissolve
NetworkStep == \E e \in Entries : DirectHandshake(e) \/ HandshakeAges(e)
Apply == AddRelay \/ RemoveRelay \/ ApplyFails
MonitorStep == Check \/ Apply \/ MonitorEnds

Next == HandlerStep \/ NetworkStep \/ MonitorStep

Spec == Init /\ [][Next]_vars

\* The task wakes up after its interval, and its calls return.
Fairness == WF_vars(MonitorStep)

FairSpec == Spec /\ Fairness

-----------------------------------------------------------------------------
(* Properties *)

\* The type invariant; the server is never routed over the relay by the monitor.
TypeOK ==
    /\ ownListed \in BOOLEAN
    /\ conf \in Clusters \cup {NoCluster} /\ task \in Clusters \cup {NoCluster, Ended}
    /\ owner \in [Entries -> Entries \cup {Relay, NoPeer}]
    /\ recent \subseteq Entries
    /\ relayed \subseteq Entries \ Servers /\ wanted \subseteq Entries \ Servers
    /\ pc \in {"wait", "apply"}
    /\ events \in 0..MaxEvents

\* What the monitor remembers as relayed is routed by the relay, also after
\* calls that failed and after it was kept through a launch that failed.  It
\* compares with this memory only, so a difference would never be repaired
\* (agent.py:425).
RelayedIsRouted ==
    conf # NoCluster /\ task = conf => \A e \in relayed : owner[e] = Relay

\* A ring peer that is marked for the relay is routed by it from the bring-up
\* on, whatever its handshakes do (agent.py:422).
PreferredIsRelayed ==
    conf # NoCluster /\ task = conf =>
        \A e \in Ring(conf) \cap Preferred : owner[e] = Relay

Supervised(e) == conf # NoCluster /\ task = conf /\ e \in Ring(conf)

\* A peer of the ring whose direct path is gone for good is routed by the relay
\* for good, however its path came and went before and whatever call failed, as
\* long as the watch of its cluster goes on (agent.py:396 "ensure the relay
\* routes their IP").
LostPeersAreRelayed ==
    \A e \in Entries :
        <>[](Supervised(e) /\ e \notin recent) => <>[](owner[e] = Relay)

\* A peer whose direct path is there for good is routed directly: "Peers whose
\* direct path recovers are removed from the relay route (WG will re-route
\* direct)" (agent.py:398).  WireGuard gives the address back to nobody.
DirectPeersGoDirect ==
    \A e \in Entries \ Preferred :
        <>[](Supervised(e) /\ e \in recent) => <>[](owner[e] = e)
=============================================================================
