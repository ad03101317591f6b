------------------------- MODULE ChainingBoxProofs -------------------------
(***************************************************************************)
(* The whole system, for every valid configuration and any number of       *)
(* nodes, packets, process deaths and restarts.  What ControlProofs says   *)
(* of the manager and the agents and DataPlaneProofs of the packets holds  *)
(* of them together:                                                       *)
(*                                                                         *)
(*   - every step is a step of Control or leaves its variables alone;      *)
(*   - every step is a step of DataPlane too, once a packet that passes a  *)
(*     node without all its stages, and is let out there, is seen as lost. *)
(***************************************************************************)
EXTENDS ChainingBox, TLAPS

CtlP == INSTANCE ControlProofs

\* What the inductive invariant of DataPlane is to see of the packets: one that was
\* let out early after it met a node without its stages counts as lost.
SeenPc ==
    [p \in Packets |-> IF pc[p] = "bypass" /\ p \in exposed THEN "lost" ELSE pc[p]]

Seen == INSTANCE DataPlaneProofs WITH
    Configs    <- {Cfg},
    cfg        <- Cfg,
    todo_fwd   <- Missing(AllFwdRules, fwd_rules),
    todo_proxy <- Missing(AllProxyRules, proxy_rules),
    pc         <- SeenPc

-----------------------------------------------------------------------------
(***************************************************************************)
(* The operators of Rules are the same in all the instances.               *)
(***************************************************************************)
LEMMA SameCounts ==
    /\ SPICount = Seen!SPICount /\ DP!SPICount = Seen!SPICount
    /\ Ctl!SPICount = Seen!SPICount /\ CtlP!SPICount = Seen!SPICount
BY SMT DEF SPICount, DP!SPICount, Ctl!SPICount, CtlP!SPICount, Seen!SPICount

\* All instances agree on which configurations are valid ...
LEMMA SameConfigs ==
    \A c : /\ Ctl!ValidConfig(c) <=> CtlP!ValidConfig(c)
           /\ DP!ValidConfig(c) <=> Seen!ValidConfig(c)
           /\ ValidConfig(c) <=> Seen!ValidConfig(c)
<1>1. \A c : Ctl!ValidConfig(c) <=> CtlP!ValidConfig(c)
  BY SameCounts DEF Ctl!Ids, Ctl!ChainLen, Ctl!Positions, Ctl!SPIs, Ctl!ValidConfig,
         Ctl!WellFormed, Ctl!NoRepeats, Ctl!FlowsDisjoint, Ctl!DirectLinksUnshared,
         Ctl!DirectLink, CtlP!Ids, CtlP!ChainLen, CtlP!Positions, CtlP!SPIs,
         CtlP!ValidConfig, CtlP!WellFormed, CtlP!NoRepeats, CtlP!FlowsDisjoint,
         CtlP!DirectLinksUnshared, CtlP!DirectLink
<1>2. \A c : DP!ValidConfig(c) <=> Seen!ValidConfig(c)
  BY SameCounts DEF DP!Ids, DP!ChainLen, DP!Positions, DP!SPIs, DP!ValidConfig,
         DP!WellFormed, DP!NoRepeats, DP!FlowsDisjoint, DP!DirectLinksUnshared,
         DP!DirectLink, Seen!Ids, Seen!ChainLen, Seen!Positions, Seen!SPIs,
         Seen!ValidConfig, Seen!WellFormed, Seen!NoRepeats, Seen!FlowsDisjoint,
         Seen!DirectLinksUnshared, Seen!DirectLink
<1>3. \A c : ValidConfig(c) <=> Seen!ValidConfig(c)
  BY SameCounts DEF Ids, ChainLen, Positions, SPIs, ValidConfig, WellFormed,
         NoRepeats, FlowsDisjoint, DirectLinksUnshared, DirectLink, Seen!Ids,
         Seen!ChainLen, Seen!Positions, Seen!SPIs, Seen!ValidConfig,
         Seen!WellFormed, Seen!NoRepeats, Seen!FlowsDisjoint,
         Seen!DirectLinksUnshared, Seen!DirectLink
<1> QED
  BY <1>1, <1>2, <1>3

\* ... on which stages a node has, its peer and the address it announces ...
LEMMA SameLinks ==
    \A c, n : /\ HasIngress(c, n) <=> Seen!HasIngress(c, n)
              /\ DP!HasIngress(c, n) <=> Seen!HasIngress(c, n)
              /\ DP!HasEgress(c, n) <=> Seen!HasEgress(c, n)
              /\ DP!Peer(c, n) = Seen!Peer(c, n)
              /\ DP!HelloAddress(c, n) = Seen!HelloAddress(c, n)
              /\ Ctl!HasIngress(c, n) <=> CtlP!HasIngress(c, n)
              /\ Ctl!HasEgress(c, n) <=> CtlP!HasEgress(c, n)
<1>1. \A c, n : HasIngress(c, n) <=> Seen!HasIngress(c, n)
  BY DEF Ids, ChainLen, DirectLink, HasIngress,
         Seen!Ids, Seen!ChainLen, Seen!DirectLink, Seen!HasIngress
<1>2. \A c, n : /\ DP!HasIngress(c, n) <=> Seen!HasIngress(c, n)
                /\ DP!HelloAddress(c, n) = Seen!HelloAddress(c, n)
  BY DEF DP!Ids, DP!ChainLen, DP!DirectLink, DP!HasIngress, DP!HelloAddress,
         Seen!Ids, Seen!ChainLen, Seen!DirectLink, Seen!HasIngress, Seen!HelloAddress
<1>3. \A c, n : DP!HasEgress(c, n) <=> Seen!HasEgress(c, n)
  BY DEF DP!Ids, DP!ChainLen, DP!DirectLink, DP!HasEgress,
         Seen!Ids, Seen!ChainLen, Seen!DirectLink, Seen!HasEgress
<1>4. \A c, n : DP!Peer(c, n) = Seen!Peer(c, n)
  BY DEF DP!Ids, DP!ChainLen, DP!DirectLink, DP!Peer,
         Seen!Ids, Seen!ChainLen, Seen!DirectLink, Seen!Peer
<1>5. \A c, n : /\ Ctl!HasIngress(c, n) <=> CtlP!HasIngress(c, n)
                /\ Ctl!HasEgress(c, n) <=> CtlP!HasEgress(c, n)
  BY DEF Ctl!Ids, Ctl!ChainLen, Ctl!DirectLink, Ctl!HasIngress, Ctl!HasEgress,
         CtlP!Ids, CtlP!ChainLen, CtlP!DirectLink, CtlP!HasIngress, CtlP!HasEgress
<1> QED
  BY <1>1, <1>2, <1>3, <1>4, <1>5

\* ... and on the rules the manager computes for it.
LEMMA SameRules ==
    \A c, n : /\ FwdRules(c, n) = Seen!FwdRules(c, n)
              /\ CtlP!FwdRules(c, n) = Seen!FwdRules(c, n)
              /\ Ctl!FwdRules(c, n) = Seen!FwdRules(c, n)
              /\ DP!FwdRules(c, n) = Seen!FwdRules(c, n)
              /\ SentProxyRules(c, n) = Seen!SentProxyRules(c, n)
              /\ CtlP!SentProxyRules(c, n) = Seen!SentProxyRules(c, n)
              /\ Ctl!SentProxyRules(c, n) = Seen!SentProxyRules(c, n)
              /\ DP!SentProxyRules(c, n) = Seen!SentProxyRules(c, n)
<1>1. \A c, n : /\ FwdRules(c, n) = Seen!FwdRules(c, n)
                /\ SentProxyRules(c, n) = Seen!SentProxyRules(c, n)
  BY SameCounts DEF Ids, ChainLen, DirectLink, HasIngress, Sph, SphPlusOne,
         HelloAddress, FwdVal, NeedsFwdRule, NeedsProxyRule, FwdRules, ProxyRules,
         SentProxyRules, Seen!Ids, Seen!ChainLen, Seen!DirectLink, Seen!HasIngress,
         Seen!Sph, Seen!SphPlusOne, Seen!HelloAddress, Seen!FwdVal,
         Seen!NeedsFwdRule, Seen!NeedsProxyRule, Seen!FwdRules, Seen!ProxyRules,
         Seen!SentProxyRules
<1>2. \A c, n : /\ CtlP!FwdRules(c, n) = Seen!FwdRules(c, n)
                /\ CtlP!SentProxyRules(c, n) = Seen!SentProxyRules(c, n)
  BY SameCounts DEF CtlP!Ids, CtlP!ChainLen, CtlP!DirectLink, CtlP!HasIngress,
         CtlP!Sph, CtlP!SphPlusOne, CtlP!HelloAddress, CtlP!FwdVal,
         CtlP!NeedsFwdRule, CtlP!NeedsProxyRule, CtlP!FwdRules, CtlP!ProxyRules,
         CtlP!SentProxyRules, Seen!Ids, Seen!ChainLen, Seen!DirectLink,
         Seen!HasIngress, Seen!Sph, Seen!SphPlusOne, Seen!HelloAddress, Seen!FwdVal,
         Seen!NeedsFwdRule, Seen!NeedsProxyRule, Seen!FwdRules, Seen!ProxyRules,
         Seen!SentProxyRules
<1>3. \A c, n : /\ DP!FwdRules(c, n) = Seen!FwdRules(c, n)
                /\ DP!SentProxyRules(c, n) = Seen!SentProxyRules(c, n)
  BY SameCounts DEF DP!Ids, DP!ChainLen, DP!DirectLink, DP!HasIngress, DP!Sph,
         DP!SphPlusOne, DP!HelloAddress, DP!FwdVal, DP!NeedsFwdRule,
         DP!NeedsProxyRule, DP!FwdRules, DP!ProxyRules, DP!SentProxyRules, Seen!Ids,
         Seen!ChainLen, Seen!DirectLink, Seen!HasIngress, Seen!Sph, Seen!SphPlusOne,
         Seen!HelloAddress, Seen!FwdVal, Seen!NeedsFwdRule, Seen!NeedsProxyRule,
         Seen!FwdRules, Seen!ProxyRules, Seen!SentProxyRules
<1>4. \A c, n : /\ Ctl!FwdRules(c, n) = Seen!FwdRules(c, n)
                /\ Ctl!SentProxyRules(c, n) = Seen!SentProxyRules(c, n)
  BY SameCounts DEF Ctl!Ids, Ctl!ChainLen, Ctl!DirectLink, Ctl!HasIngress, Ctl!Sph,
         Ctl!SphPlusOne, Ctl!HelloAddress, Ctl!FwdVal, Ctl!NeedsFwdRule,
         Ctl!NeedsProxyRule, Ctl!FwdRules, Ctl!ProxyRules, Ctl!SentProxyRules,
         Seen!Ids, Seen!ChainLen, Seen!DirectLink, Seen!HasIngress, Seen!Sph,
         Seen!SphPlusOne, Seen!HelloAddress, Seen!FwdVal, Seen!NeedsFwdRule,
         Seen!NeedsProxyRule, Seen!FwdRules, Seen!ProxyRules, Seen!SentProxyRules
<1> QED
  BY <1>1, <1>2, <1>3, <1>4

\* The assumptions of the instances are those of this module.
LEMMA Assumptions ==
    /\ CtlP!RulesAssumption /\ CtlP!ControlAssumption
    /\ Seen!RulesAssumption /\ Seen!DataPlaneAssumption
<1>1. \A c : Ctl!NodesWithRules(c) = CtlP!NodesWithRules(c)
  BY SameRules DEF Ctl!NodesWithRules, CtlP!NodesWithRules
<1> QED
  BY <1>1, SameConfigs, RulesAssumption, ChainingBoxAssumption
  DEF CtlP!RulesAssumption, CtlP!ControlAssumption, Ctl!ControlAssumption,
      Seen!RulesAssumption, DP!DataPlaneAssumption, Seen!DataPlaneAssumption

-----------------------------------------------------------------------------
(***************************************************************************)
(* Control.                                                                *)
(***************************************************************************)
LEMMA SameControl ==
    /\ Ctl!Init => CtlP!Init
    /\ Ctl!Next => CtlP!Next
<1>1. Ctl!Init => CtlP!Init
  BY SameRules DEF Ctl!Init, CtlP!Init, Ctl!NodesWithRules, CtlP!NodesWithRules
<1> USE DEF Ctl!mvars, Ctl!avars, Ctl!svars, Ctl!rvars, CtlP!mvars, CtlP!avars, CtlP!svars,
            CtlP!rvars,
            Ctl!Exit, CtlP!Exit, Ctl!Running, CtlP!Running, Ctl!Alive, CtlP!Alive
<1>2. ASSUME NEW a
      PROVE  /\ Ctl!LoadStages(a) => CtlP!LoadStages(a)
             /\ Ctl!LoadRefused(a) => CtlP!LoadRefused(a)
             /\ Ctl!LoadFails(a) => CtlP!LoadFails(a)
  BY SameLinks
  DEF Ctl!LoadStages, Ctl!LoadRefused, Ctl!LoadFails, Ctl!Occupied, Ctl!Littered,
      CtlP!LoadStages, CtlP!LoadRefused, CtlP!LoadFails, CtlP!Occupied, CtlP!Littered
<1>3. ASSUME NEW a
      PROVE  Ctl!ReceiveInstall(a) => CtlP!ReceiveInstall(a)
  BY SameRules DEF Ctl!ReceiveInstall, CtlP!ReceiveInstall
<1>4. ASSUME NEW a
      PROVE  /\ Ctl!Dial(a) => CtlP!Dial(a)
             /\ Ctl!DialFails(a) => CtlP!DialFails(a)
             /\ Ctl!SendHello(a) => CtlP!SendHello(a)
             /\ Ctl!ReceiveEOF(a) => CtlP!ReceiveEOF(a)
             /\ Ctl!AddFwdRule(a) => CtlP!AddFwdRule(a)
             /\ Ctl!AddProxyRule(a) => CtlP!AddProxyRule(a)
             /\ Ctl!AgentDies(a) => CtlP!AgentDies(a)
             /\ Ctl!AgentRestarts(a) => CtlP!AgentRestarts(a)
  BY DEF Ctl!Dial, Ctl!DialFails, Ctl!SendHello, Ctl!ReceiveEOF, Ctl!AddFwdRule,
         Ctl!AddProxyRule, Ctl!AgentDies, Ctl!AgentRestarts,
         CtlP!Dial, CtlP!DialFails, CtlP!SendHello, CtlP!ReceiveEOF, CtlP!AddFwdRule,
         CtlP!AddProxyRule, CtlP!AgentDies, CtlP!AgentRestarts
<1>5. Ctl!ManagerStep => CtlP!ManagerStep
  BY DEF Ctl!ManagerStep, Ctl!Listen, Ctl!HandleConnection, Ctl!StartInstall,
         Ctl!CheckNode, Ctl!SendInstall, Ctl!SendFails,
         CtlP!ManagerStep, CtlP!Listen, CtlP!HandleConnection, CtlP!StartInstall,
         CtlP!CheckNode, CtlP!SendInstall, CtlP!SendFails
<1>6. /\ Ctl!ManagerDies => CtlP!ManagerDies
      /\ \A c : Ctl!ConcurrentMapAccess(c) => CtlP!ConcurrentMapAccess(c)
  BY DEF Ctl!ManagerDies, Ctl!ConcurrentMapAccess,
         CtlP!ManagerDies, CtlP!ConcurrentMapAccess
<1> QED
  BY <1>1, <1>2, <1>3, <1>4, <1>5, <1>6
  DEF Ctl!Next, Ctl!AgentStep, Ctl!Fault, CtlP!Next, CtlP!AgentStep, CtlP!Fault

\* Steps of packets leave the manager and the agents alone; all others are theirs.
LEMMA ControlSteps == [Next]_vars => [CtlP!Next]_(CtlP!vars)
<1> SUFFICES ASSUME [Next]_vars
             PROVE  CtlP!Next \/ UNCHANGED CtlP!vars
  OBVIOUS
<1>1. CASE ControlStep
  <2>1. Ctl!Next
    BY <1>1 DEF ControlStep, Ctl!Next, Ctl!AgentStep
  <2> QED
    BY <2>1, SameControl
<1>2. ASSUME NEW a \in Nodes, InstallFwdRule(a) \/ InstallProxyRule(a)
      PROVE  CtlP!Next
  <2>1. Ctl!Next
    BY <1>2 DEF InstallFwdRule, InstallProxyRule, Ctl!Next, Ctl!AgentStep
  <2> QED
    BY <2>1, SameControl
<1>3. ASSUME NEW p \in Packets, PacketStep(p)
      PROVE  UNCHANGED CtlP!vars
  BY <1>3 DEF PacketStep, control, CtlP!vars, CtlP!mvars, CtlP!avars, CtlP!svars,
             CtlP!rvars
<1>4. CASE UNCHANGED vars
  BY <1>4 DEF vars, control, CtlP!vars, CtlP!mvars, CtlP!avars, CtlP!svars,
             CtlP!rvars
<1> QED
  BY <1>1, <1>2, <1>3, <1>4 DEF Next

\* The manager and the agents behave as Control says, whatever the packets do, so
\* everything proved of Control holds of the whole system.
THEOREM ImplementsControl == Spec => CtlP!Spec
<1>1. Init => CtlP!Init
  BY SameControl DEF Init
<1> QED
  BY <1>1, ControlSteps, PTL DEF Spec, CtlP!Spec

\* The inductive invariant of Control holds of the whole system.
LEMMA ControlHolds == Spec => []CtlP!IndInv
BY ImplementsControl, CtlP!ControlInvariant, Assumptions, PTL

-----------------------------------------------------------------------------
(***************************************************************************)
(* The invariant of the whole system.                                      *)
(***************************************************************************)
\* Maps and packets are functions (which updates of them rely on).
Functions ==
    /\ pc = [p \in Packets |-> pc[p]]
    /\ \A n \in Nodes :
          /\ nsh_data[n] = [f \in DOMAIN nsh_data[n] |-> nsh_data[n][f]]
          /\ fwd_table[n] = [s \in DOMAIN fwd_table[n] |-> fwd_table[n][s]]

\* As long as some node lacks a stage, every packet under way is exposed.
ExposedInFlight ==
    Loaded \/ \A p \in Packets : pc[p] \in DP!InFlight => p \in exposed

BoxInv ==
    /\ CtlP!IndInv
    /\ Seen!IndInv
    /\ Functions
    /\ ExposedInFlight

\* Initially no rule is installed and no packet has left its source.
LEMMA BoxInit == Init => BoxInv
<1> SUFFICES ASSUME Init
             PROVE  BoxInv
  OBVIOUS
<1>1. CtlP!IndInv
  BY SameControl, CtlP!ControlInit, Assumptions DEF Init
<1>2. /\ nsh_data = [n \in Nodes |-> DP!EmptyMap]
      /\ fwd_table = [n \in Nodes |-> DP!EmptyMap]
      /\ pc = [p \in Packets |-> "source"]
      /\ at = [p \in Packets |-> ZeroAddr]
      /\ sph = [p \in Packets |-> [spi |-> 0, si |-> 0]]
      /\ visited = [p \in Packets |-> <<>>]
      /\ settled = [p \in Packets |-> FALSE]
      /\ exposed = {}
  BY DEF Init, DP!Init
<1>3. SeenPc = [p \in Packets |-> "source"]
  BY <1>2 DEF SeenPc
<1>4. /\ Missing(AllFwdRules, fwd_rules) = [n \in Nodes |-> Seen!FwdRules(Cfg, n)]
      /\ Missing(AllProxyRules, proxy_rules) =
            [n \in Nodes |-> Seen!SentProxyRules(Cfg, n)]
  BY SameRules DEF Init, Ctl!Init, Missing, AllFwdRules, AllProxyRules
<1>5. Seen!Init
  BY <1>2, <1>3, <1>4 DEF Seen!Init, DP!EmptyMap, Seen!EmptyMap
<1>6. Seen!IndInv
  BY <1>5, Seen!InitIndInv, Assumptions
<1>7. Functions
  BY <1>2 DEF Functions, DP!EmptyMap
<1>8. ExposedInFlight
  BY <1>2 DEF ExposedInFlight, DP!InFlight
<1> QED
  BY <1>1, <1>6, <1>7, <1>8 DEF BoxInv

-----------------------------------------------------------------------------
(***************************************************************************)
(* Steps of the manager and the agents.                                    *)
(***************************************************************************)
\* Everything but the installation of a rule leaves the rules that are there.
LEMMA ControlStepFrame ==
    ASSUME ControlStep
    PROVE  /\ UNCHANGED <<fwd_rules, proxy_rules, nsh_data, fwd_table,
                          pc, at, sph, visited, settled>>
           /\ exposed' = exposed \cup IF Loaded' THEN {}
                                      ELSE { p \in Packets : pc[p] \in DP!InFlight }
<1>1. UNCHANGED <<nsh_data, fwd_table, pc, at, sph, visited, settled>>
  BY DEF ControlStep, packet
<1> USE DEF Ctl!rvars, Ctl!Exit
<1>2. ASSUME Ctl!ManagerStep PROVE UNCHANGED <<fwd_rules, proxy_rules>>
  BY <1>2 DEF Ctl!ManagerStep, Ctl!Listen, Ctl!HandleConnection, Ctl!StartInstall,
              Ctl!CheckNode, Ctl!SendInstall, Ctl!SendFails
<1>3. ASSUME Ctl!Fault PROVE UNCHANGED <<fwd_rules, proxy_rules>>
  BY <1>3 DEF Ctl!Fault, Ctl!ManagerDies, Ctl!ConcurrentMapAccess, Ctl!LoadFails,
              Ctl!AgentDies, Ctl!AgentRestarts
<1>4. ASSUME NEW a \in Nodes,
             \/ Ctl!LoadStages(a) \/ Ctl!LoadRefused(a)
             \/ Ctl!Dial(a) \/ Ctl!DialFails(a) \/ Ctl!SendHello(a)
             \/ Ctl!ReceiveInstall(a) \/ Ctl!ReceiveEOF(a)
      PROVE  UNCHANGED <<fwd_rules, proxy_rules>>
  BY <1>4 DEF Ctl!LoadStages, Ctl!LoadRefused, Ctl!Dial, Ctl!DialFails, Ctl!SendHello,
              Ctl!ReceiveInstall, Ctl!ReceiveEOF
<1>5. UNCHANGED <<fwd_rules, proxy_rules>>
  BY <1>2, <1>3, <1>4 DEF ControlStep
<1> QED
  BY <1>1, <1>5 DEF ControlStep

\* A step of the manager or an agent leaves maps and packets alone, and only counts
\* the packets under way while a node lacks a stage as exposed.
LEMMA ControlStepBox ==
    ASSUME BoxInv, ControlStep
    PROVE  /\ Seen!IndInv' /\ Functions' /\ ExposedInFlight'
           /\ UNCHANGED DP!vars
<1>1. UNCHANGED <<fwd_rules, proxy_rules, nsh_data, fwd_table,
                  pc, at, sph, visited, settled>>
  BY ControlStepFrame
<1>2. exposed' = exposed \cup IF Loaded' THEN {}
                               ELSE { p \in Packets : pc[p] \in DP!InFlight }
  BY ControlStepFrame
<1>3. SeenPc' = SeenPc
  <2>1. "bypass" \notin DP!InFlight
    BY DEF DP!InFlight
  <2>2. \A p \in Packets : pc[p] = "bypass" => (p \in exposed' <=> p \in exposed)
    BY <1>2, <2>1
  <2> QED
    BY <1>1, <2>2 DEF SeenPc
<1>4. UNCHANGED Seen!vars
  BY <1>1, <1>3 DEF Seen!vars, Seen!tables, Seen!packet, Missing
<1>5. Seen!IndInv'
  BY <1>4, Seen!NextIndInv, Assumptions DEF BoxInv
<1>6. Functions'
  BY <1>1 DEF BoxInv, Functions
<1>7. ExposedInFlight'
  BY <1>1, <1>2 DEF ExposedInFlight
<1>8. UNCHANGED DP!vars
  BY <1>1 DEF DP!vars, DP!tables, DP!packet, Missing
<1> QED
  BY <1>5, <1>6, <1>7, <1>8

\* An update of a map that has the value already, or no room, changes nothing.
LEMMA IdleUpdate ==
    ASSUME NEW m, m = [x \in DOMAIN m |-> m[x]], NEW size, NEW k, NEW v,
           k \in DOMAIN m \/ ~DP!Room(m, size),
           k \in DOMAIN m => m[k] = v
    PROVE  DP!MapUpdate(m, size, k, v) = m
<1>1. CASE k \in DOMAIN m
  <2>1. DOMAIN m \cup {k} = DOMAIN m
    BY <1>1
  <2> QED
    BY <1>1, <2>1 DEF DP!MapUpdate
<1>2. CASE k \notin DOMAIN m
  BY <1>2 DEF DP!MapUpdate
<1> QED
  BY <1>1, <1>2

\* An updated map is a function again ...
LEMMA UpdateIsFunction ==
    ASSUME NEW m, m = [x \in DOMAIN m |-> m[x]], NEW size, NEW k, NEW v, NEW u,
           u = DP!MapUpdate(m, size, k, v)
    PROVE  u = [x \in DOMAIN u |-> u[x]]
BY DEF DP!MapUpdate

\* ... and the same one in both instances of DataPlane.
LEMMA SameUpdate ==
    \A m, size :
        /\ DP!Room(m, size) <=> Seen!Room(m, size)
        /\ \A k, v : DP!MapUpdate(m, size, k, v) = Seen!MapUpdate(m, size, k, v)
BY DEF DP!MapUpdate, DP!Room, Seen!MapUpdate, Seen!Room,
       DP!Cardinality, Seen!Cardinality

\* What an agent that adds a forwarding rule does.
LEMMA FwdRuleFacts ==
    ASSUME CtlP!IndInv, NEW a \in Nodes, InstallFwdRule(a)
    PROVE  \E r \in FwdRules(Cfg, a) :
              /\ fwd_rules' = [fwd_rules EXCEPT ![a] = @ \cup {r}]
              /\ fwd_rules = [n \in Nodes |-> fwd_rules[n]]
              /\ fwd_table' = [fwd_table EXCEPT
                                  ![a] = DP!MapUpdate(@, FwdTableSize, r.key, r.val)]
              /\ UNCHANGED <<stages, proxy_rules, nsh_data, pc, at, sph, visited,
                             settled, exposed>>
<1>1. PICK r \in todo_fwd[a] :
        /\ Ctl!AddFwdRule(a)
        /\ todo_fwd'[a] = todo_fwd[a] \ {r}
        /\ fwd_table' = [fwd_table EXCEPT
                            ![a] = DP!MapUpdate(@, FwdTableSize, r.key, r.val)]
        /\ UNCHANGED <<nsh_data, packet, exposed>>
  BY DEF InstallFwdRule
<1>2. PICK s \in todo_fwd[a] :
        /\ fwd_rules' = [fwd_rules EXCEPT ![a] = @ \cup {s}]
        /\ todo_fwd' = [todo_fwd EXCEPT ![a] = @ \ {s}]
  BY <1>1 DEF Ctl!AddFwdRule
<1>3. /\ todo_fwd = [n \in Nodes |-> todo_fwd[n]]
      /\ fwd_rules = [n \in Nodes |-> fwd_rules[n]]
      /\ todo_fwd[a] \subseteq FwdRules(Cfg, a)
  BY SameRules DEF CtlP!IndInv, CtlP!Shape, CtlP!TypeOK
<1>4. s = r
  BY <1>1, <1>2, <1>3
<1>5. UNCHANGED <<stages, proxy_rules>>
  BY <1>1 DEF Ctl!AddFwdRule, Ctl!svars
<1> QED
  BY <1>1, <1>2, <1>3, <1>4, <1>5 DEF packet

\* Proxy rules come last, also when they are added again.
LEMMA ProxyRuleFacts ==
    ASSUME CtlP!IndInv, NEW a \in Nodes, InstallProxyRule(a)
    PROVE  /\ fwd_rules[a] = FwdRules(Cfg, a)
           /\ \E r \in SentProxyRules(Cfg, a) :
              /\ proxy_rules' = [proxy_rules EXCEPT ![a] = @ \cup {r}]
              /\ proxy_rules = [n \in Nodes |-> proxy_rules[n]]
              /\ nsh_data' = [nsh_data EXCEPT
                                  ![a] = DP!MapUpdate(@, NshDataSize, r.key, r.val)]
              /\ UNCHANGED <<stages, fwd_rules, fwd_table, pc, at, sph, visited,
                             settled, exposed>>
<1>1. PICK r \in todo_proxy[a] :
        /\ Ctl!AddProxyRule(a)
        /\ todo_proxy'[a] = todo_proxy[a] \ {r}
        /\ nsh_data' = [nsh_data EXCEPT
                            ![a] = DP!MapUpdate(@, NshDataSize, r.key, r.val)]
        /\ UNCHANGED <<fwd_table, packet, exposed>>
  BY DEF InstallProxyRule
<1>2. PICK s \in todo_proxy[a] :
        /\ todo_fwd[a] = {}
        /\ proxy_rules' = [proxy_rules EXCEPT ![a] = @ \cup {s}]
        /\ todo_proxy' = [todo_proxy EXCEPT ![a] = @ \ {s}]
  BY <1>1 DEF Ctl!AddProxyRule
<1>3. /\ todo_proxy = [n \in Nodes |-> todo_proxy[n]]
      /\ proxy_rules = [n \in Nodes |-> proxy_rules[n]]
      /\ todo_proxy[a] \subseteq SentProxyRules(Cfg, a)
  BY SameRules DEF CtlP!IndInv, CtlP!Shape, CtlP!TypeOK
<1>4. s = r
  BY <1>1, <1>2, <1>3
<1>5. fwd_rules[a] = FwdRules(Cfg, a)
  BY <1>2, SameRules DEF CtlP!IndInv, CtlP!InstallAddsUp
<1>6. UNCHANGED <<stages, fwd_rules>>
  BY <1>1 DEF Ctl!AddProxyRule, Ctl!svars
<1> QED
  BY <1>1, <1>2, <1>3, <1>4, <1>5, <1>6 DEF packet

\* The configuration as DataPlane sees it is valid.
LEMMA SeenConfig == Seen!IndInv => Seen!ValidConfig(Cfg)
BY Seen!CfgValid, Assumptions DEF Seen!IndInv

\* handleInstall of a second agent writes a forwarding rule that is there already, which
\* changes nothing; otherwise it takes the step of DataPlane.
LEMMA FwdRuleBox ==
    ASSUME BoxInv, NEW a \in Nodes, InstallFwdRule(a)
    PROVE  /\ Seen!IndInv' /\ Functions' /\ ExposedInFlight'
           /\ DP!Next \/ UNCHANGED DP!vars
<1> DEFINE todo == Missing(AllFwdRules, fwd_rules)
<1>1. PICK r \in FwdRules(Cfg, a) :
        /\ fwd_rules' = [fwd_rules EXCEPT ![a] = @ \cup {r}]
        /\ fwd_rules = [n \in Nodes |-> fwd_rules[n]]
        /\ fwd_table' = [fwd_table EXCEPT
                            ![a] = DP!MapUpdate(@, FwdTableSize, r.key, r.val)]
        /\ UNCHANGED <<stages, proxy_rules, nsh_data, pc, at, sph, visited,
                       settled, exposed>>
  BY FwdRuleFacts DEF BoxInv
<1>2. UNCHANGED <<SeenPc, Missing(AllProxyRules, proxy_rules)>>
  BY <1>1 DEF SeenPc, Missing
<1>3. /\ Seen!TypeOK /\ Seen!FwdInv
      /\ fwd_table = [n \in Nodes |-> fwd_table[n]]
      /\ fwd_table[a] = [s \in DOMAIN fwd_table[a] |-> fwd_table[a][s]]
  BY DEF BoxInv, Functions, Seen!IndInv, Seen!TypeOK
<1>4. Functions' /\ ExposedInFlight'
  <2>1. \A n \in Nodes :
          fwd_table'[n] = IF n = a THEN DP!MapUpdate(fwd_table[a], FwdTableSize, r.key, r.val)
                                   ELSE fwd_table[n]
    BY <1>1, <1>3
  <2>2. fwd_table'[a] = [s \in DOMAIN fwd_table'[a] |-> fwd_table'[a][s]]
    BY <1>3, <2>1, UpdateIsFunction
  <2>3. \A n \in Nodes : fwd_table'[n] = [s \in DOMAIN fwd_table'[n] |-> fwd_table'[n][s]]
    BY <2>1, <2>2 DEF BoxInv, Functions
  <2>4. Functions'
    BY <1>1, <2>3 DEF BoxInv, Functions
  <2> QED
    BY <1>1, <2>4 DEF BoxInv, ExposedInFlight, Loaded
<1>5. CASE r \in todo[a]
  <2>1. todo' = [todo EXCEPT ![a] = @ \ {r}]
    BY <1>1 DEF Missing, AllFwdRules
  <2>2. Seen!AddFwdRule(a)
    BY <1>1, <1>2, <1>5, <2>1, SameUpdate DEF Seen!AddFwdRule, Seen!packet
  <2>3. DP!AddFwdRule(a)
    BY <1>1, <1>2, <1>5, <2>1 DEF DP!AddFwdRule, DP!packet
  <2> HIDE DEF todo
  <2>4. Seen!IndInv'
    BY <2>2, Seen!AddFwdRuleIndInv, Assumptions DEF BoxInv
  <2>5. DP!Next
    BY <2>3 DEF DP!Next, DP!Install
  <2> QED
    BY <1>4, <2>4, <2>5
<1>6. CASE r \notin todo[a]
  <2>1. r \in fwd_rules[a]
    BY <1>6 DEF Missing, AllFwdRules
  <2>2. todo' = todo
    BY <1>1, <2>1 DEF Missing
  <2>3. r \in Seen!FwdRules(Cfg, a) \ todo[a]
    BY <1>6, SameRules
  <2> HIDE DEF todo
  <2>4. /\ r.key \in DOMAIN fwd_table[a] \/ ~Seen!Room(fwd_table[a], FwdTableSize)
        /\ r.key \in DOMAIN fwd_table[a] => fwd_table[a][r.key] = r.val
    BY <1>3, <2>3, Seen!InstalledFwdRule, Assumptions DEF todo
  <2>5. DP!MapUpdate(fwd_table[a], FwdTableSize, r.key, r.val) = fwd_table[a]
    BY <1>3, <2>4, SameUpdate, IdleUpdate
  <2>6. fwd_table' = fwd_table
    BY <1>1, <1>3, <2>5
  <2>7. UNCHANGED Seen!vars /\ UNCHANGED DP!vars
    BY <1>1, <1>2, <2>2, <2>6 DEF todo, Seen!vars, Seen!tables, Seen!packet,
       DP!vars, DP!tables, DP!packet
  <2>8. Seen!IndInv'
    BY <2>7, Seen!NextIndInv, Assumptions DEF BoxInv
  <2> QED
    BY <1>4, <2>7, <2>8
<1> QED
  BY <1>5, <1>6

\* Proxy rules come after all the forwarding rules of the node, as in DataPlane.
LEMMA ProxyRuleBox ==
    ASSUME BoxInv, NEW a \in Nodes, InstallProxyRule(a)
    PROVE  /\ Seen!IndInv' /\ Functions' /\ ExposedInFlight'
           /\ DP!Next \/ UNCHANGED DP!vars
<1> DEFINE todo == Missing(AllProxyRules, proxy_rules)
<1>0. Missing(AllFwdRules, fwd_rules)[a] = {}
  BY ProxyRuleFacts DEF BoxInv, Missing, AllFwdRules
<1>1. PICK r \in SentProxyRules(Cfg, a) :
        /\ proxy_rules' = [proxy_rules EXCEPT ![a] = @ \cup {r}]
        /\ proxy_rules = [n \in Nodes |-> proxy_rules[n]]
        /\ nsh_data' = [nsh_data EXCEPT
                            ![a] = DP!MapUpdate(@, NshDataSize, r.key, r.val)]
        /\ UNCHANGED <<stages, fwd_rules, fwd_table, pc, at, sph, visited,
                       settled, exposed>>
  BY ProxyRuleFacts DEF BoxInv
<1>2. UNCHANGED <<SeenPc, Missing(AllFwdRules, fwd_rules)>>
  BY <1>1 DEF SeenPc, Missing
<1>3. /\ Seen!TypeOK /\ Seen!NshInv /\ Seen!ProxyInv
      /\ nsh_data = [n \in Nodes |-> nsh_data[n]]
      /\ nsh_data[a] = [s \in DOMAIN nsh_data[a] |-> nsh_data[a][s]]
  BY DEF BoxInv, Functions, Seen!IndInv, Seen!TypeOK
<1>4. Functions' /\ ExposedInFlight'
  <2>1. \A n \in Nodes :
          nsh_data'[n] = IF n = a THEN DP!MapUpdate(nsh_data[a], NshDataSize, r.key, r.val)
                                   ELSE nsh_data[n]
    BY <1>1, <1>3
  <2>2. nsh_data'[a] = [s \in DOMAIN nsh_data'[a] |-> nsh_data'[a][s]]
    BY <1>3, <2>1, UpdateIsFunction
  <2>3. \A n \in Nodes : nsh_data'[n] = [s \in DOMAIN nsh_data'[n] |-> nsh_data'[n][s]]
    BY <2>1, <2>2 DEF BoxInv, Functions
  <2>4. Functions'
    BY <1>1, <2>3 DEF BoxInv, Functions
  <2> QED
    BY <1>1, <2>4 DEF BoxInv, ExposedInFlight, Loaded
<1>5. CASE r \in todo[a]
  <2>1. todo' = [todo EXCEPT ![a] = @ \ {r}]
    BY <1>1 DEF Missing, AllProxyRules
  <2>2. Seen!AddProxyRule(a)
    BY <1>0, <1>1, <1>2, <1>5, <2>1, SameUpdate DEF Seen!AddProxyRule, Seen!packet
  <2>3. DP!AddProxyRule(a)
    BY <1>0, <1>1, <1>2, <1>5, <2>1 DEF DP!AddProxyRule, DP!packet
  <2> HIDE DEF todo
  <2>4. Seen!IndInv'
    BY <2>2, Seen!AddProxyRuleIndInv, Assumptions DEF BoxInv
  <2>5. DP!Next
    BY <2>3 DEF DP!Next, DP!Install
  <2> QED
    BY <1>4, <2>4, <2>5
<1>6. CASE r \notin todo[a]
  <2>1. r \in proxy_rules[a]
    BY <1>6 DEF Missing, AllProxyRules
  <2>2. todo' = todo
    BY <1>1, <2>1 DEF Missing
  <2>3. r \in Seen!SentProxyRules(Cfg, a) \ todo[a]
    BY <1>6, SameRules
  <2> HIDE DEF todo
  <2>4. /\ r.key \in DOMAIN nsh_data[a] \/ ~Seen!Room(nsh_data[a], NshDataSize)
        /\ r.key \in DOMAIN nsh_data[a] => nsh_data[a][r.key] = r.val
    BY <1>3, <2>3, Seen!InstalledProxyRule, Assumptions DEF todo
  <2>5. DP!MapUpdate(nsh_data[a], NshDataSize, r.key, r.val) = nsh_data[a]
    BY <1>3, <2>4, SameUpdate, IdleUpdate
  <2>6. nsh_data' = nsh_data
    BY <1>1, <1>3, <2>5
  <2>7. UNCHANGED Seen!vars /\ UNCHANGED DP!vars
    BY <1>1, <1>2, <2>2, <2>6 DEF todo, Seen!vars, Seen!tables, Seen!packet,
       DP!vars, DP!tables, DP!packet
  <2>8. Seen!IndInv'
    BY <2>7, Seen!NextIndInv, Assumptions DEF BoxInv
  <2> QED
    BY <1>4, <2>7, <2>8
<1> QED
  BY <1>5, <1>6

-----------------------------------------------------------------------------
(***************************************************************************)
(* Steps of packets.                                                       *)
(***************************************************************************)
LEMMA SeenMove ==
    ASSUME Functions, NEW p \in Packets, NEW w, pc' = [pc EXCEPT ![p] = w],
           \A q \in Packets : q # p => (q \in exposed' <=> q \in exposed)
    PROVE  /\ SeenPc' = [SeenPc EXCEPT
                            ![p] = IF w = "bypass" /\ p \in exposed' THEN "lost" ELSE w]
           /\ pc' = [q \in Packets |-> pc'[q]]
           /\ pc'[p] = w
           /\ \A q \in Packets : q # p => pc'[q] = pc[q]
           /\ SeenPc'[p] = IF w = "bypass" /\ p \in exposed' THEN "lost" ELSE w
           /\ pc[p] # "bypass" => SeenPc[p] = pc[p]
<1>1. pc = [q \in Packets |-> pc[q]]
  BY DEF Functions
<1>2. /\ pc' = [q \in Packets |-> pc'[q]]
      /\ pc'[p] = w
      /\ \A q \in Packets : q # p => pc'[q] = pc[q]
  BY <1>1
<1>3. \A q \in Packets :
        SeenPc'[q] = IF q = p THEN IF w = "bypass" /\ p \in exposed' THEN "lost" ELSE w
                     ELSE SeenPc[q]
  BY <1>2 DEF SeenPc
<1>4. SeenPc' = [q \in Packets |-> SeenPc'[q]] /\ SeenPc = [q \in Packets |-> SeenPc[q]]
  BY DEF SeenPc
<1>5. pc[p] # "bypass" => SeenPc[p] = pc[p]
  BY DEF SeenPc
<1> QED
  BY <1>2, <1>3, <1>4, <1>5

\* Packets do not change what is yet to be installed.
LEMMA PacketFrame ==
    ASSUME UNCHANGED control
    PROVE  /\ UNCHANGED <<stages, fwd_rules, proxy_rules>>
           /\ UNCHANGED <<Missing(AllFwdRules, fwd_rules),
                          Missing(AllProxyRules, proxy_rules)>>
           /\ Loaded' <=> Loaded
BY DEF control, Missing, Loaded

\* The instances agree on what the classifier does with a flow.
LEMMA SameClassifier ==
    /\ DP!Installed <=> Seen!Installed
    /\ \A f : DP!ChainsOf(f) = Seen!ChainsOf(f)
    /\ \A c : DP!ClassifierSph(c) = Seen!ClassifierSph(c)
BY DEF DP!Installed, Seen!Installed, DP!ChainsOf, Seen!ChainsOf, DP!Ids, Seen!Ids,
       DP!ClassifierSph, Seen!ClassifierSph

\* A packet may enter while stages are missing, and is then counted as exposed.
LEMMA ClassifyBox ==
    ASSUME BoxInv, NEW p \in Packets, UNCHANGED control, Classify(p)
    PROVE  /\ Seen!IndInv' /\ Functions' /\ ExposedInFlight'
           /\ DP!Next
<1>1. /\ DP!ClassifyMatch(p)
      /\ exposed' = IF Loaded THEN exposed ELSE exposed \cup {p}
  BY DEF Classify
<1>2. /\ pc[p] = "source" /\ pc' = [pc EXCEPT ![p] = "wire"]
      /\ UNCHANGED <<nsh_data, fwd_table, visited>>
  BY <1>1 DEF DP!ClassifyMatch, DP!Move, DP!tables
<1>3. /\ SeenPc' = [SeenPc EXCEPT ![p] = "wire"] /\ SeenPc[p] = "source"
      /\ pc' = [q \in Packets |-> pc'[q]] /\ pc'[p] = "wire"
      /\ \A q \in Packets : q # p => pc'[q] = pc[q]
  BY <1>1, <1>2, SeenMove DEF BoxInv
<1>4. Seen!ClassifyMatch(p)
  BY <1>1, <1>2, <1>3, PacketFrame, SameClassifier, SameLinks
  DEF DP!ClassifyMatch, Seen!ClassifyMatch, Seen!Move, Seen!tables
<1>5. Seen!IndInv'
  BY <1>4, Seen!ClassifyMatchIndInv, Assumptions DEF BoxInv
<1>6. Functions'
  BY <1>2, <1>3 DEF BoxInv, Functions
<1>7. ExposedInFlight'
  BY <1>1, <1>3, PacketFrame DEF BoxInv, ExposedInFlight
<1>8. DP!Next
  BY <1>1 DEF DP!Next
<1> QED
  BY <1>5, <1>6, <1>7, <1>8

\* A packet under way that moves is exposed afterwards if it was before.
LEMMA MoveBox ==
    ASSUME BoxInv, NEW p \in Packets, NEW w, UNCHANGED <<stages, exposed>>,
           pc[p] \in DP!InFlight, pc' = [pc EXCEPT ![p] = w],
           UNCHANGED <<nsh_data, fwd_table>>
    PROVE  Functions' /\ ExposedInFlight'
<1>1. /\ pc' = [q \in Packets |-> pc'[q]]
      /\ \A q \in Packets : q # p => pc'[q] = pc[q]
  BY DEF BoxInv, Functions
<1>2. Functions'
  BY <1>1 DEF BoxInv, Functions
<1>3. ExposedInFlight'
  BY <1>1 DEF BoxInv, ExposedInFlight, Loaded
<1> QED
  BY <1>2, <1>3

\* Dec stores the header and hands the packet to the function, as in DataPlane.
LEMMA DecapBox ==
    ASSUME BoxInv, NEW p \in Packets, NEW n \in Nodes,
           UNCHANGED control, UNCHANGED exposed, DP!DecapNsh(n, p)
    PROVE  Seen!IndInv' /\ Functions' /\ ExposedInFlight'
<1>1. /\ pc[p] = "wire" /\ pc' = [pc EXCEPT ![p] = "sf"]
      /\ nsh_data' = [nsh_data EXCEPT
                        ![n] = DP!MapUpdate(@, NshDataSize, FlowOf[p], sph[p])]
      /\ fwd_table' = fwd_table
  BY DEF DP!DecapNsh, DP!Move
<1>2. /\ SeenPc' = [SeenPc EXCEPT ![p] = "sf"] /\ SeenPc[p] = "wire"
      /\ pc' = [q \in Packets |-> pc'[q]]
      /\ \A q \in Packets : q # p => pc'[q] = pc[q]
  BY <1>1, SeenMove DEF BoxInv
<1>3. Seen!DecapNsh(n, p)
  BY <1>1, <1>2, PacketFrame, SameLinks, SameUpdate
  DEF DP!DecapNsh, Seen!DecapNsh, Seen!Move
<1>4. Seen!IndInv'
  BY <1>3, Seen!DecapNshIndInv, Assumptions DEF BoxInv
<1>5. Functions'
  <2>1. /\ nsh_data = [m \in Nodes |-> nsh_data[m]]
        /\ nsh_data[n] = [f \in DOMAIN nsh_data[n] |-> nsh_data[n][f]]
    BY DEF BoxInv, Functions, Seen!IndInv, Seen!TypeOK
  <2>2. \A m \in Nodes :
          nsh_data'[m] = IF m = n THEN DP!MapUpdate(nsh_data[n], NshDataSize, FlowOf[p], sph[p])
                                  ELSE nsh_data[m]
    BY <1>1, <2>1
  <2>3. nsh_data'[n] = [f \in DOMAIN nsh_data'[n] |-> nsh_data'[n][f]]
    BY <2>1, <2>2, UpdateIsFunction
  <2>4. \A m \in Nodes : nsh_data'[m] = [f \in DOMAIN nsh_data'[m] |-> nsh_data'[m][f]]
    BY <2>2, <2>3 DEF BoxInv, Functions
  <2> QED
    BY <1>1, <1>2, <2>4 DEF BoxInv, Functions
<1>6. ExposedInFlight'
  BY <1>1, <1>2, PacketFrame DEF BoxInv, ExposedInFlight, DP!InFlight
<1> QED
  BY <1>4, <1>5, <1>6

\* A function passes the packet on or drops it, as in DataPlane.
LEMMA ServeBox ==
    ASSUME BoxInv, NEW p \in Packets, UNCHANGED control, UNCHANGED exposed, DP!Serve(p)
    PROVE  Seen!IndInv' /\ Functions' /\ ExposedInFlight'
<1>1. /\ pc[p] = "sf"
      /\ pc' = [pc EXCEPT ![p] = "encap"] \/ pc' = pc
      /\ UNCHANGED <<nsh_data, fwd_table>>
  BY DEF DP!Serve, DP!Move, DP!tables
<1>2. SeenPc[p] = "sf"
  BY <1>1 DEF SeenPc
<1>3. /\ pc' = pc => SeenPc' = SeenPc
      /\ pc' = [pc EXCEPT ![p] = "encap"] => SeenPc' = [SeenPc EXCEPT ![p] = "encap"]
  BY SeenMove DEF BoxInv, SeenPc
<1>4. Seen!Serve(p)
  BY <1>1, <1>2, <1>3, PacketFrame, SameLinks
  DEF DP!Serve, Seen!Serve, DP!Move, Seen!Move, Seen!tables
<1>5. Seen!IndInv'
  BY <1>4, Seen!ServeIndInv, Assumptions DEF BoxInv
<1>6. pc' = [pc EXCEPT ![p] = "encap"] => Functions' /\ ExposedInFlight'
  BY <1>1, PacketFrame, MoveBox DEF DP!InFlight
<1>7. pc' = pc => Functions' /\ ExposedInFlight'
  BY <1>1, PacketFrame DEF BoxInv, Functions, ExposedInFlight
<1> QED
  BY <1>1, <1>5, <1>6, <1>7

\* A packet that is let out by Enc after it met a node without its stages counts as lost.
LEMMA EncapLookupBox ==
    ASSUME BoxInv, NEW p \in Packets, UNCHANGED control, UNCHANGED exposed,
           DP!EncapLookup(p)
    PROVE  Seen!IndInv' /\ Functions' /\ ExposedInFlight'
<1>1. PICK w \in {"bypass", "si_zero", "route"} :
        /\ pc[p] = "encap" /\ pc' = [pc EXCEPT ![p] = w]
        /\ UNCHANGED <<nsh_data, fwd_table, at, visited, settled>>
        /\ w = "bypass" => FlowOf[p] \notin DOMAIN nsh_data[at[p]] /\ sph' = sph
        /\ w = "si_zero" => /\ FlowOf[p] \in DOMAIN nsh_data[at[p]] /\ sph' = sph
                            /\ DP!SiExhausted(nsh_data[at[p]][FlowOf[p]])
        /\ w = "route" =>
              /\ FlowOf[p] \in DOMAIN nsh_data[at[p]]
              /\ ~DP!SiExhausted(nsh_data[at[p]][FlowOf[p]])
              /\ sph' = [sph EXCEPT ![p] = [nsh_data[at[p]][FlowOf[p]] EXCEPT !.si = @ - 1]]
  BY DEF DP!EncapLookup, DP!Move, DP!tables
<1>2. /\ SeenPc' = [SeenPc EXCEPT
                       ![p] = IF w = "bypass" /\ p \in exposed THEN "lost" ELSE w]
      /\ SeenPc[p] = "encap"
  BY <1>1, SeenMove DEF BoxInv
<1>3. CASE w = "bypass" /\ p \in exposed
  <2>1. /\ Seen!Move(p, "lost") /\ SeenPc[p] \in Seen!InFlight
        /\ UNCHANGED <<Cfg, Seen!tables, at, sph, visited, settled>>
    BY <1>1, <1>2, <1>3, PacketFrame DEF Seen!Move, Seen!InFlight, Seen!tables
  <2> QED
    BY <1>1, <2>1, PacketFrame, MoveBox, Seen!GoneIndInv, Assumptions
    DEF BoxInv, DP!InFlight
<1>4. CASE ~(w = "bypass" /\ p \in exposed)
  <2>1. Seen!EncapLookup(p)
    BY <1>1, <1>2, <1>4, PacketFrame
    DEF Seen!EncapLookup, Seen!Move, Seen!tables, DP!SiExhausted, Seen!SiExhausted
  <2>2. Seen!IndInv'
    BY <2>1, Seen!EncapLookupIndInv, Assumptions DEF BoxInv
  <2> QED
    BY <1>1, <2>2, PacketFrame, MoveBox DEF DP!InFlight
<1> QED
  BY <1>3, <1>4

\* Enc's second lookup decides between the end of the chain and Fwd.
LEMMA EncapRouteBox ==
    ASSUME BoxInv, NEW p \in Packets, UNCHANGED control, UNCHANGED exposed,
           DP!EncapRoute(p)
    PROVE  Seen!IndInv' /\ Functions' /\ ExposedInFlight'
<1>1. PICK w \in {"ended", "forward", "lost"} :
        /\ pc[p] = "route" /\ pc' = [pc EXCEPT ![p] = w]
        /\ UNCHANGED <<nsh_data, fwd_table, at, sph, visited, settled>>
        /\ w = "ended" <=> /\ sph[p] \in DOMAIN fwd_table[at[p]]
                           /\ fwd_table[at[p]][sph[p]].end
  BY DEF DP!EncapRoute, DP!Move, DP!tables
<1>2. SeenPc' = [SeenPc EXCEPT ![p] = w] /\ SeenPc[p] = "route"
  BY <1>1, SeenMove DEF BoxInv
<1>3. Seen!EncapRoute(p)
  BY <1>1, <1>2, PacketFrame DEF Seen!EncapRoute, Seen!Move, Seen!tables
<1>4. Seen!IndInv'
  BY <1>3, Seen!EncapRouteIndInv, Assumptions DEF BoxInv
<1> QED
  BY <1>1, <1>4, PacketFrame, MoveBox DEF DP!InFlight

\* Fwd sends the packet to the next function or drops it.
LEMMA SfcForwardingBox ==
    ASSUME BoxInv, NEW p \in Packets, UNCHANGED control, UNCHANGED exposed,
           DP!SfcForwarding(p)
    PROVE  Seen!IndInv' /\ Functions' /\ ExposedInFlight'
<1>1. PICK w \in {"no_rule", "second_end", "wire"} :
        /\ pc[p] = "forward" /\ pc' = [pc EXCEPT ![p] = w]
        /\ UNCHANGED <<nsh_data, fwd_table, sph, visited, settled>>
        /\ w = "no_rule" => sph[p] \notin DOMAIN fwd_table[at[p]] /\ at' = at
        /\ w = "second_end" => /\ sph[p] \in DOMAIN fwd_table[at[p]] /\ at' = at
                               /\ fwd_table[at[p]][sph[p]].end
        /\ w = "wire" =>
              /\ sph[p] \in DOMAIN fwd_table[at[p]] /\ ~fwd_table[at[p]][sph[p]].end
              /\ at' = [at EXCEPT ![p] = fwd_table[at[p]][sph[p]].addr]
  BY DEF DP!SfcForwarding, DP!Move, DP!tables
<1>2. SeenPc' = [SeenPc EXCEPT ![p] = w] /\ SeenPc[p] = "forward"
  BY <1>1, SeenMove DEF BoxInv
<1>3. Seen!SfcForwarding(p)
  BY <1>1, <1>2, PacketFrame DEF Seen!SfcForwarding, Seen!Move, Seen!tables
<1>4. Seen!IndInv'
  BY <1>3, Seen!SfcForwardingIndInv, Assumptions DEF BoxInv
<1> QED
  BY <1>1, <1>4, PacketFrame, MoveBox DEF DP!InFlight

\* Functions and the network drop packets, and so does Fwd where it is missing; where
\* Enc is missing the packet leaves, which it does exposed.
LEMMA GoneBox ==
    ASSUME BoxInv, NEW p \in Packets, UNCHANGED control, UNCHANGED exposed,
           DP!Consume(p) \/ DP!Lose(p) \/ Unstaged(p)
    PROVE  /\ Seen!IndInv' /\ Functions' /\ ExposedInFlight'
           /\ Loaded => DP!Consume(p) \/ DP!Lose(p)
<1>1. Unstaged(p) => ~Loaded /\ p \in exposed
  <2> SUFFICES ASSUME Unstaged(p)
               PROVE  ~Loaded /\ p \in exposed
    OBVIOUS
  <2>1. at[p] \notin stages /\ pc[p] \in {"encap", "forward"}
    BY DEF Unstaged
  <2>2. at[p] \in Nodes
    <3>1. SeenPc[p] = pc[p]
      BY <2>1 DEF SeenPc
    <3> QED
      BY <2>1, <3>1, Seen!HeldInNodes, Assumptions DEF BoxInv
  <2> QED
    BY <2>1, <2>2 DEF Loaded, BoxInv, ExposedInFlight, DP!InFlight
<1>2. PICK w \in {"consumed", "lost", "bypass"} :
        /\ pc[p] \in DP!InFlight /\ pc' = [pc EXCEPT ![p] = w]
        /\ UNCHANGED <<nsh_data, fwd_table, at, sph, visited, settled>>
        /\ w = "bypass" => p \in exposed
  BY <1>1 DEF DP!Consume, DP!Lose, Unstaged, DP!Move, DP!tables, DP!InFlight
<1>3. PICK v \in {"consumed", "lost"} : SeenPc' = [SeenPc EXCEPT ![p] = v]
  BY <1>2, SeenMove DEF BoxInv
<1>4. SeenPc[p] \in Seen!InFlight
  BY <1>2 DEF SeenPc, DP!InFlight, Seen!InFlight
<1>5. Seen!Move(p, v) /\ UNCHANGED <<Cfg, Seen!tables, at, sph, visited, settled>>
  BY <1>2, <1>3, PacketFrame DEF Seen!Move, Seen!tables
<1>6. Seen!IndInv'
  BY <1>4, <1>5, Seen!GoneIndInv, Assumptions DEF BoxInv
<1> QED
  BY <1>1, <1>2, <1>6, PacketFrame, MoveBox

\* Every step of a packet keeps the invariant, and is one of DataPlane while all stages
\* are there.
LEMMA PacketBox ==
    ASSUME BoxInv, NEW p \in Packets, PacketStep(p)
    PROVE  /\ Seen!IndInv' /\ Functions' /\ ExposedInFlight'
           /\ Loaded => DP!Next
<1>1. UNCHANGED control
  BY DEF PacketStep
<1>2. CASE Classify(p)
  BY <1>1, <1>2, ClassifyBox
<1>3. CASE DP!Process(p) /\ UNCHANGED exposed
  <2>1. Seen!IndInv' /\ Functions' /\ ExposedInFlight'
    BY <1>1, <1>3, DecapBox, ServeBox, EncapLookupBox, EncapRouteBox, SfcForwardingBox
    DEF DP!Process
  <2> QED
    BY <1>3, <2>1 DEF DP!Next
<1>4. CASE (DP!Consume(p) \/ DP!Lose(p) \/ Unstaged(p)) /\ UNCHANGED exposed
  BY <1>1, <1>4, GoneBox DEF DP!Next
<1> QED
  BY <1>2, <1>3, <1>4 DEF PacketStep, Staged

-----------------------------------------------------------------------------
\* Every step of the whole system keeps the invariant.
LEMMA BoxStep == BoxInv /\ [Next]_vars => BoxInv'
<1> SUFFICES ASSUME BoxInv, [Next]_vars
             PROVE  BoxInv'
  OBVIOUS
<1>1. CtlP!IndInv'
  BY ControlSteps, CtlP!ControlStep, Assumptions DEF BoxInv
<1>2. CASE ControlStep
  BY <1>1, <1>2, ControlStepBox DEF BoxInv
<1>3. ASSUME NEW a \in Nodes, InstallFwdRule(a) \/ InstallProxyRule(a)
      PROVE  BoxInv'
  BY <1>1, <1>3, FwdRuleBox, ProxyRuleBox DEF BoxInv
<1>4. ASSUME NEW p \in Packets, PacketStep(p)
      PROVE  BoxInv'
  BY <1>1, <1>4, PacketBox DEF BoxInv
<1>5. CASE UNCHANGED vars
  <2>1. UNCHANGED Seen!vars
    BY <1>5 DEF vars, control, packet, SeenPc, Missing, Seen!vars, Seen!tables,
                Seen!packet
  <2>2. Seen!IndInv'
    BY <2>1, Seen!NextIndInv, Assumptions DEF BoxInv
  <2>3. Functions' /\ ExposedInFlight'
    BY <1>5 DEF vars, control, packet, BoxInv, Functions, ExposedInFlight, Loaded
  <2> QED
    BY <1>1, <2>2, <2>3 DEF BoxInv
<1> QED
  BY <1>2, <1>3, <1>4, <1>5 DEF Next

\* The invariant of the whole system holds throughout.
THEOREM BoxInvariant == Spec => []BoxInv
BY BoxInit, BoxStep, PTL DEF Spec

-----------------------------------------------------------------------------
(***************************************************************************)
(* The theorems.                                                           *)
(***************************************************************************)

\* However agents and the manager die and are started again, and whatever stages and
\* rules are there: no packet is processed by a function of another chain, or out of
\* order.
THEOREM AlwaysInOrder == Spec => []InOrder
<1>1. BoxInv => InOrder
  BY Seen!InvariantOrders, Assumptions
  DEF BoxInv, InOrder, DP!InOrder, Seen!InOrder, DP!ChainsOf, Seen!ChainsOf,
      DP!Ids, Seen!Ids, DP!ChainLen, Seen!ChainLen
<1> QED
  BY <1>1, BoxInvariant, PTL

\* An installation that stopped half way never lets Enc end a chain early.
THEOREM AlwaysComplete == Spec => []EndedComplete
<1>1. BoxInv => EndedComplete
  <2>1. \A p \in Packets : pc[p] = "ended" => SeenPc[p] = "ended"
    BY DEF SeenPc
  <2> QED
    BY <2>1, Seen!InvariantCompletes, Assumptions
    DEF BoxInv, EndedComplete, DP!EndedComplete, Seen!EndedComplete,
        DP!ChainsOf, Seen!ChainsOf, DP!Ids, Seen!Ids, DP!ChainLen, Seen!ChainLen
<1> QED
  BY <1>1, BoxInvariant, PTL

\* With maps that are large enough, a packet that never met a node without its stages
\* is dropped by the stages, or let out early, only if it entered before all rules had
\* been added: an agent's death costs no packet that it does not meet.
THEOREM AlwaysDependable ==
    ASSUME Seen!Ample
    PROVE  Spec => []Dependable
<1>1. BoxInv => Dependable
  <2> SUFFICES ASSUME BoxInv, NEW p \in Packets, p \notin exposed
               PROVE  /\ pc[p] \in {"si_zero", "no_rule", "second_end"} => ~settled[p]
                      /\ pc[p] = "bypass" => ~settled[p] /\ ~HasIngress(Cfg, at[p])
    BY DEF Dependable
  <2>1. SeenPc[p] = pc[p]
    BY DEF SeenPc
  <2>2. pc[p] \in {"bypass", "no_rule", "second_end"} => at[p] \in Nodes
    BY <2>1, Seen!GoneInNodes, Assumptions DEF BoxInv, Seen!Gone
  <2>3. \A n \in Nodes : Seen!Room(nsh_data[n], NshDataSize) /\ Seen!Room(fwd_table[n], FwdTableSize)
    BY Seen!AlwaysRoom, Assumptions DEF BoxInv
  <2>4. Seen!BypassCause /\ Seen!DropCause
    BY DEF BoxInv, Seen!IndInv
  <2> QED
    BY <2>1, <2>2, <2>3, <2>4, SameLinks DEF Seen!BypassCause, Seen!DropCause
<1> QED
  BY <1>1, BoxInvariant, PTL

\* While every node has its stages, agents that install rules a second time or in part
\* and processes that come and go do nothing to maps and packets that DataPlane, and
\* with it every theorem about DataPlane, does not allow for.
THEOREM DataPlaneAllTheWhile == Spec => DataPlaneWhileLoaded
<1>1. Init => DP!Init
  BY DEF Init
<1>2. BoxInv /\ [Next]_vars => [Loaded /\ Loaded' => DP!Next]_(DP!vars)
  <2> SUFFICES ASSUME BoxInv, [Next]_vars, Loaded
               PROVE  DP!Next \/ UNCHANGED DP!vars
    OBVIOUS
  <2>1. CASE ControlStep
    BY <2>1, ControlStepBox
  <2>2. ASSUME NEW a \in Nodes, InstallFwdRule(a) \/ InstallProxyRule(a)
        PROVE  DP!Next \/ UNCHANGED DP!vars
    BY <2>2, FwdRuleBox, ProxyRuleBox
  <2>3. ASSUME NEW p \in Packets, PacketStep(p)
        PROVE  DP!Next
    BY <2>3, PacketBox
  <2>4. CASE UNCHANGED vars
    BY <2>4 DEF vars, control, packet, Missing, DP!vars, DP!tables, DP!packet
  <2> QED
    BY <2>1, <2>2, <2>3, <2>4 DEF Next
<1> QED
  BY <1>1, <1>2, BoxInvariant, PTL DEF Spec, DataPlaneWhileLoaded
=============================================================================
