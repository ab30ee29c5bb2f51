------------------------- MODULE RelayMonitorProofs -------------------------
(***************************************************************************)
(* What the relay monitor remembers as relayed is routed by the relay, and *)
(* a peer marked for the relay always is; no peer is ever routed directly. *)
(* For every config, every order of handshakes and every failure.          *)
(***************************************************************************)
EXTENDS RelayMonitor, TLAPS

USE DEF NoOwners, Ring, Members

LEMMA ClaimFacts ==
    ASSUME NEW table \in [Entries -> Entries \cup {Relay, NoPeer}],
           NEW addresses \in SUBSET Entries
    PROVE  /\ Claim(table, Relay, addresses) \in [Entries -> Entries \cup {Relay, NoPeer}]
           /\ \A a \in addresses : Claim(table, Relay, addresses)[a] = Relay
    BY DEF Claim

LEMMA RenderedTableFacts ==
    ASSUME NEW c \in Clusters
    PROVE  /\ RenderedTable(c) \in [Entries -> Entries \cup {Relay, NoPeer}]
           /\ \A a \in Members(c) : RenderedTable(c)[a] = Relay
<1> DEFINE direct == [a \in Entries |-> IF a \in Members(c) THEN a ELSE NoPeer]
<1>1. direct \in [Entries -> Entries \cup {Relay, NoPeer}]
    OBVIOUS
<1>2. Members(c) \in SUBSET Entries
    BY EntriesAssumption
<1> QED
    BY <1>1, <1>2, ClaimFacts DEF RenderedTable

\* While wg set is about to run, the monitor is the one of the interface's
\* life, and what it wants has every marked peer of its config in it.  What it
\* wants or remembers is of its own config.
MonitorInv ==
    /\ relayed \subseteq IF task \in Clusters THEN Ring(task) ELSE {}
    /\ pc = "apply" => /\ task \in Clusters /\ conf # NoCluster
                       /\ wanted \subseteq Ring(task)
                       /\ Ring(task) \cap Preferred \subseteq wanted

RelayInv ==
    TypeOK /\ MonitorInv /\ RelayedIsRouted /\ PreferredIsRelayed

LEMMA RelayInvInit == Init => RelayInv
    BY SentinelsAssumption, KindsAssumption
    DEF Init, RelayInv, TypeOK, MonitorInv, RelayedIsRouted, PreferredIsRelayed

LEMMA HandlerStepInv == ASSUME RelayInv, HandlerStep PROVE RelayInv'
<1> USE DEF RelayInv, TypeOK, MonitorInv, RelayedIsRouted, PreferredIsRelayed
<1>1. ASSUME NEW c \in Clusters, BringUp(c) PROVE RelayInv'
    <2>1. /\ owner' \in [Entries -> Entries \cup {Relay, NoPeer}]
          /\ \A a \in Members(c) : owner'[a] = Relay
        BY <1>1, RenderedTableFacts DEF BringUp
    <2> QED
        BY <1>1, <2>1, SentinelsAssumption DEF BringUp
<1>2. CASE LaunchFails
    BY <1>2, SentinelsAssumption, KindsAssumption
       DEF LaunchFails, Disturbed, taskVars
<1>3. CASE Dissolve
    BY <1>3, SentinelsAssumption, KindsAssumption DEF Dissolve, TakeDown, Disturbed
<1> QED
    BY <1>1, <1>2, <1>3 DEF HandlerStep

LEMMA NetworkStepInv == ASSUME RelayInv, NetworkStep PROVE RelayInv'
<1> USE DEF RelayInv, TypeOK, MonitorInv, RelayedIsRouted, PreferredIsRelayed
<1>1. ASSUME NEW e \in Entries, DirectHandshake(e) \/ HandshakeAges(e) PROVE RelayInv'
    BY <1>1 DEF DirectHandshake, HandshakeAges, taskVars
<1> QED
    BY <1>1 DEF NetworkStep

LEMMA MonitorStepInv == ASSUME RelayInv, MonitorStep PROVE RelayInv'
<1> USE DEF RelayInv, TypeOK, MonitorInv, RelayedIsRouted, PreferredIsRelayed
<1>1. CASE Check
    <2>1. /\ wanted' \subseteq Ring(task) /\ wanted' \subseteq Entries \ Servers
          /\ Ring(task) \cap Preferred \subseteq wanted'
        BY <1>1, EntriesAssumption DEF Check, Wanted
    <2>2. events' \in 0..MaxEvents
        BY <1>1, KindsAssumption DEF Check, LatestHandshakes, Disturbed
    <2> QED
        BY <1>1, <2>1, <2>2 DEF Check
<1>2. CASE AddRelay
    <2>1. /\ owner' \in [Entries -> Entries \cup {Relay, NoPeer}]
          /\ \A a \in wanted : owner'[a] = Relay
        BY <1>2, ClaimFacts DEF AddRelay
    <2> QED
        BY <1>2, <2>1 DEF AddRelay
<1>3. CASE RemoveRelay
    <2>1. owner' \in [Entries -> Entries \cup {Relay, NoPeer}]
        BY <1>3, ClaimFacts DEF RemoveRelay
    <2> QED
        BY <1>3, <2>1 DEF RemoveRelay
<1>4. CASE ApplyFails
    BY <1>4, KindsAssumption DEF ApplyFails, Disturbed
<1>5. CASE MonitorEnds
    BY <1>5, SentinelsAssumption, KindsAssumption DEF MonitorEnds, Disturbed
<1> QED
    BY <1>1, <1>2, <1>3, <1>4, <1>5 DEF MonitorStep, Apply

LEMMA RelayInvariant == Spec => []RelayInv
<1>1. RelayInv /\ [Next]_vars => RelayInv'
    <2> SUFFICES ASSUME RelayInv, [Next]_vars PROVE RelayInv'
        OBVIOUS
    <2>1. CASE Next
        BY <2>1, HandlerStepInv, NetworkStepInv, MonitorStepInv DEF Next
    <2>2. CASE UNCHANGED vars
        BY <2>2 DEF vars, taskVars, RelayInv, TypeOK, MonitorInv, RelayedIsRouted,
                    PreferredIsRelayed
    <2> QED
        BY <2>1, <2>2
<1> QED
    BY <1>1, RelayInvInit, PTL DEF Spec

\* Types, the bound on disturbances and what the monitor may remember of which
\* config (agent.py:401).
THEOREM RelayTypeCorrect == Spec => []TypeOK
    BY RelayInvariant, PTL DEF RelayInv

\* The monitor's memory is true of the interface whenever it is compared
\* (agent.py:425).
THEOREM RelayMemoryIsTrue == Spec => []RelayedIsRouted
    BY RelayInvariant, PTL DEF RelayInv

\* A ring peer marked for the relay never loses its route over it
\* (agent.py:422).
THEOREM MarkedPeersStayRelayed == Spec => []PreferredIsRelayed
    BY RelayInvariant, PTL DEF RelayInv

\* No address ever belongs to its own peer: the relay peer is rendered last and
\* takes all of them (wireguard.py:78), and what it gives up later WireGuard
\* gives back to nobody.  "WG will re-route direct" (agent.py:399) fails in
\* every cluster and on every handshake, not just in the run that shows it.
THEOREM NoAddressGoesDirect ==
    Spec => [](\A e \in Entries : owner[e] \in {Relay, NoPeer} /\ owner[e] # e)
<1> DEFINE Indirect == owner \in [Entries -> {Relay, NoPeer}]
<1>1. Init => Indirect
    BY DEF Init
<1>2. ASSUME NEW c \in Clusters PROVE RenderedTable(c) \in [Entries -> {Relay, NoPeer}]
    <2>1. Members(c) \in SUBSET Entries
        BY EntriesAssumption
    <2> QED
        BY <2>1 DEF RenderedTable, Claim
<1>3. ASSUME Indirect, NEW addresses
      PROVE  Claim(owner, Relay, addresses) \in [Entries -> {Relay, NoPeer}]
    BY <1>3 DEF Claim
<1>4. Indirect /\ [Next]_vars => Indirect'
    <2> SUFFICES ASSUME Indirect, [Next]_vars PROVE Indirect'
        OBVIOUS
    <2>1. \/ owner' = owner \/ owner' = NoOwners
          \/ \E c \in Clusters : owner' = RenderedTable(c)
          \/ \E addresses \in {wanted, {}} : owner' = Claim(owner, Relay, addresses)
        BY DEF Next, HandlerStep, BringUp, LaunchFails, Dissolve, TakeDown, NetworkStep,
               DirectHandshake, HandshakeAges, MonitorStep, Check, Apply, AddRelay,
               RemoveRelay, ApplyFails, MonitorEnds, vars
    <2> QED
        BY <1>2, <1>3, <2>1
<1>5. Indirect => \A e \in Entries : owner[e] \in {Relay, NoPeer} /\ owner[e] # e
    BY SentinelsAssumption
<1> QED
    BY <1>1, <1>4, <1>5, PTL DEF Spec
=============================================================================
