---------------------------- MODULE ChainingBox ----------------------------
(***************************************************************************)
(* The whole system for one chains configuration: the manager and the      *)
(* agents of Control, which load stages, send and install rules, die and   *)
(* are started again, and the packets of DataPlane, which travel through   *)
(* whatever stages and rules are there at the time.                        *)
(*                                                                         *)
(* The two meet in three places.  A rule that handleInstall adds is an     *)
(* update of a map the stages read.  Maps are pinned: they outlive the     *)
(* agent, and programs that are loaded later find them.  And an agent that *)
(* loads its stages, or fails to, changes the hooks under the packets.     *)
(***************************************************************************)
EXTENDS Rules, FiniteSets

CONSTANTS
    Cfg, MaxTries, Restartable, MaxRuns, MaxFaults,   \* of Control
    Packets, FlowOf, NshDataSize, FwdTableSize        \* of DataPlane

VARIABLES
    mgr, connected, unchecked, unsent, agent, run, tries, hellos, mail, stages,
    equipped, todo_fwd, todo_proxy, fwd_rules, proxy_rules, faults,      \* of Control
    nsh_data, fwd_table, pc, at, sph, visited, settled,        \* of DataPlane
    exposed     \* packets that were under way while some node did not have all
                \* its stages (history)

Ctl == INSTANCE Control

\* To the data plane, a rule is yet to come as long as it has not been added once;
\* that an agent adds it again does not matter.
AllFwdRules   == [n \in Nodes |-> FwdRules(Cfg, n)]
AllProxyRules == [n \in Nodes |-> SentProxyRules(Cfg, n)]

Missing(rules, added) == [n \in Nodes |-> rules[n] \ added[n]]

DP == INSTANCE DataPlane WITH
    Configs    <- {Cfg},
    cfg        <- Cfg,
    todo_fwd   <- Missing(AllFwdRules, fwd_rules),
    todo_proxy <- Missing(AllProxyRules, proxy_rules)

ASSUME ChainingBoxAssumption == Ctl!ControlAssumption /\ DP!DataPlaneAssumption

control == <<mgr, connected, unchecked, unsent, agent, run, tries, hellos, mail,
             stages, equipped, todo_fwd, todo_proxy, fwd_rules, proxy_rules, faults>>
packet  == <<pc, at, sph, visited, settled>>
vars    == <<control, nsh_data, fwd_table, packet, exposed>>

Init ==
    /\ Ctl!Init
    /\ DP!Init
    /\ exposed = {}

-----------------------------------------------------------------------------
(***************************************************************************)
(* Steps of the manager and the agents.                                    *)
(***************************************************************************)

\* One round of the loops of handleInstall: the map of the node changes too.
InstallFwdRule(a) ==
    \E r \in todo_fwd[a] :
        /\ Ctl!AddFwdRule(a)
        /\ todo_fwd'[a] = todo_fwd[a] \ {r}
        /\ fwd_table' = [fwd_table EXCEPT
                            ![a] = DP!MapUpdate(@, FwdTableSize, r.key, r.val)]
        /\ UNCHANGED <<nsh_data, packet, exposed>>

InstallProxyRule(a) ==
    \E r \in todo_proxy[a] :
        /\ Ctl!AddProxyRule(a)
        /\ todo_proxy'[a] = todo_proxy[a] \ {r}
        /\ nsh_data' = [nsh_data EXCEPT
                            ![a] = DP!MapUpdate(@, NshDataSize, r.key, r.val)]
        /\ UNCHANGED <<fwd_table, packet, exposed>>

Loaded == stages = Nodes

\* Variant: the maps are not pinned, and stages that are loaded anew start empty.
UnpinnedControlStep ==
    /\ \/ /\ \/ Ctl!ManagerStep
             \/ Ctl!Fault
             \/ \E a \in Nodes :
                  \/ Ctl!LoadRefused(a) \/ Ctl!Dial(a) \/ Ctl!DialFails(a)
                  \/ Ctl!SendHello(a) \/ Ctl!ReceiveInstall(a) \/ Ctl!ReceiveEOF(a)
          /\ UNCHANGED <<nsh_data, fwd_table>>
       \/ \E a \in Nodes :
             /\ Ctl!LoadStages(a)
             /\ nsh_data' = [nsh_data EXCEPT ![a] = DP!EmptyMap]
             /\ fwd_table' = [fwd_table EXCEPT ![a] = DP!EmptyMap]
    /\ exposed' = exposed \cup IF Loaded' THEN {}
                               ELSE { p \in Packets : pc[p] \in DP!InFlight }
    /\ UNCHANGED packet

\* Everything else the two programs do leaves maps and packets alone, but may take
\* the stages away from under the packets.
ControlStep ==
    /\ \/ Ctl!ManagerStep
       \/ Ctl!Fault
       \/ \E a \in Nodes :
            \/ Ctl!LoadStages(a) \/ Ctl!LoadRefused(a)
            \/ Ctl!Dial(a) \/ Ctl!DialFails(a) \/ Ctl!SendHello(a)
            \/ Ctl!ReceiveInstall(a) \/ Ctl!ReceiveEOF(a)
    /\ exposed' = exposed \cup IF Loaded' THEN {}
                               ELSE { p \in Packets : pc[p] \in DP!InFlight }
    /\ UNCHANGED <<nsh_data, fwd_table, packet>>

-----------------------------------------------------------------------------
(***************************************************************************)
(* Packets.  A node that is not in stages may have some of its stages:     *)
(* they are attached, and taken off, one command at a time.                *)
(***************************************************************************)
Classify(p) ==
    /\ DP!ClassifyMatch(p)
    /\ exposed' = IF Loaded THEN exposed ELSE exposed \cup {p}

\* The stages that are there do what they do in DataPlane.
Staged(p) == DP!Process(p) \/ DP!Consume(p) \/ DP!Lose(p)

\* Without Enc the frame the function sends leaves as it is; without Fwd an NSH
\* frame leaves that is addressed to nobody.
Unstaged(p) ==
    /\ at[p] \notin stages
    /\ \/ pc[p] = "encap" /\ pc' = [pc EXCEPT ![p] = "bypass"]
       \/ pc[p] = "forward" /\ pc' = [pc EXCEPT ![p] = "lost"]
    /\ UNCHANGED <<nsh_data, fwd_table, at, sph, visited, settled>>

PacketStep(p) ==
    /\ UNCHANGED control
    /\ \/ Classify(p)
       \/ Staged(p) /\ UNCHANGED exposed
       \/ Unstaged(p) /\ UNCHANGED exposed

-----------------------------------------------------------------------------
Next ==
    \/ ControlStep
    \/ \E a \in Nodes : InstallFwdRule(a) \/ InstallProxyRule(a)
    \/ \E p \in Packets : PacketStep(p)

Spec == Init /\ [][Next]_vars

-----------------------------------------------------------------------------
(***************************************************************************)
(* Properties.                                                             *)
(***************************************************************************)

\* Whatever part of the rules has arrived, whichever agents or the manager have
\* died, and whichever stages are attached: a packet is only ever processed by the
\* functions of its chain, in their order.
InOrder == DP!InOrder

\* And it leaves as one that is done with its chain only if it is: rules that are
\* missing after an installation that stopped half way never shorten a chain.
EndedComplete == DP!EndedComplete

\* The chain recovers by itself from an agent that dies and is started again.  A
\* packet that never met a node without its stages is dropped by the stages only if
\* it entered before every rule had been added, and let out early only behind a
\* direct link whose proxy rule was still to come.  The manager, which sends its
\* rules once, is not needed: the rules outlive the agent and the stages.
Dependable ==
    \A p \in Packets \ exposed :
        /\ pc[p] \in {"si_zero", "no_rule", "second_end"} => ~settled[p]
        /\ pc[p] = "bypass" => ~settled[p] /\ ~HasIngress(Cfg, at[p])

\* While every node has its stages, every step of manager, agents and packets is a
\* step of DataPlane or leaves its variables alone: agents that install their rules
\* a second time, or in part, do nothing that DataPlane does not allow.
DataPlaneWhileLoaded ==
    DP!Init /\ [][Loaded /\ Loaded' => DP!Next]_(DP!vars)
=============================================================================
