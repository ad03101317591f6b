------------------------------ MODULE Control ------------------------------
(***************************************************************************)
(* The manager and the agents of one deployment: agents load their stages, *)
(* dial the manager and say Hello; the manager sleeps for three seconds,   *)
(* checks once that every node is connected and then sends each node its   *)
(* rules; agents install them in a goroutine of their own.  Agents and the *)
(* manager may die at any point.                                           *)
(*                                                                         *)
(* A process of an agent makes at most one connection, so connections are  *)
(* named by the agent and the number of its process.  A connection that    *)
(* the manager's listener accepted stays readable after the agent died.    *)
(***************************************************************************)
EXTENDS Rules, FiniteSets

CONSTANTS
    Cfg,         \* the chains configuration read by cb_deploy and cb_manager
    MaxTries,    \* failed dials before an agent gives up (10)
    Restartable, \* bound: nodes whose agent may be started again
    MaxRuns,     \* bound: processes such a node sees
    MaxFaults    \* bound: process deaths and failed loads

ASSUME ControlAssumption ==
    /\ ValidConfig(Cfg)
    /\ NodesWithRules(Cfg) # {}
    /\ Restartable \subseteq Nodes
    /\ MaxTries \in Nat \ {0}
    /\ MaxRuns \in Nat \ {0}
    /\ MaxFaults \in Nat

VARIABLES
    mgr,          \* where main() of cb_manager is
    connected,    \* connectedAgents: the connection of each node, 0 if none
    unchecked,    \* nodes the check of InstallConfiguration has yet to look up
    unsent,       \* nodes batchInstallRules has yet to serve
    agent,        \* where main() of each cb_agent is
    run,          \* the number of each agent's process
    tries,        \* failed dials of each agent
    hellos,       \* connections with a Hello that HandleConnection has yet to read
    mail,         \* connections with an Install that the agent has yet to read
    stages,       \* nodes on which every stage the agent was asked for is loaded
    equipped,     \* nodes on which some process has loaded every stage (history)
    todo_fwd,     \* per node, what the handleInstall goroutine has yet to do
    todo_proxy,
    fwd_rules,    \* per node, the rules in the pinned maps
    proxy_rules,
    faults        \* process deaths and failed loads so far

mvars == <<mgr, connected, unchecked, unsent>>
avars == <<agent, run, tries>>
svars == <<stages, equipped>>
rvars == <<todo_fwd, todo_proxy, fwd_rules, proxy_rules>>
vars  == <<mvars, avars, hellos, mail, svars, rvars, faults>>

\* "failed": InstallConfiguration returned an error, which main only prints.
ManagerStates == {"down", "listening", "checking", "sending", "done", "failed", "dead"}
AgentStates   == {"new", "dialing", "dialed", "listening", "exited"}

Running == mgr \in {"listening", "checking", "sending", "done", "failed"}

Alive(a) == agent[a] # "exited"

-----------------------------------------------------------------------------
Init ==
    /\ mgr = "down"
    /\ connected = [a \in Nodes |-> 0]
    /\ unchecked = Nodes
    /\ unsent = NodesWithRules(Cfg)
    /\ agent = [a \in Nodes |-> "new"]
    /\ run = [a \in Nodes |-> 1]
    /\ tries = [a \in Nodes |-> 0]
    /\ hellos = {}
    /\ mail = {}
    /\ stages = {}
    /\ equipped = {}
    /\ todo_fwd = [a \in Nodes |-> {}]
    /\ todo_proxy = [a \in Nodes |-> {}]
    /\ fwd_rules = [a \in Nodes |-> {}]
    /\ proxy_rules = [a \in Nodes |-> {}]
    /\ faults = 0

-----------------------------------------------------------------------------
(***************************************************************************)
(* Agents.                                                                 *)
(***************************************************************************)

\* The process ends, and the handleInstall goroutine with it.
Exit(a) ==
    /\ agent' = [agent EXCEPT ![a] = "exited"]
    /\ todo_fwd' = [todo_fwd EXCEPT ![a] = {}]
    /\ todo_proxy' = [todo_proxy EXCEPT ![a] = {}]
    /\ UNCHANGED <<run, tries, fwd_rules, proxy_rules>>

\* The programs an earlier process attached are in the way of a new one.
Occupied(a) == a \in stages /\ (HasIngress(Cfg, a) \/ HasEgress(Cfg, a))

\* So may be the ones that are left of them: a process that fails does not detach
\* everything (StageLoading has the details).
Littered(a) ==
    a \notin stages /\ run[a] > 1 /\ (HasIngress(Cfg, a) \/ HasEgress(Cfg, a))

\* NewCBAgent loads the stages of both directions.
LoadStages(a) ==
    /\ agent[a] = "new"
    /\ ~Occupied(a)
    /\ agent' = [agent EXCEPT ![a] = "dialing"]
    /\ stages' = stages \cup {a}
    /\ equipped' = equipped \cup {a}
    /\ UNCHANGED <<mvars, run, tries, hellos, mail, rvars, faults>>

\* Variant: the result of loading the stages is not looked at.
IgnoredLoadFailure(a) ==
    /\ agent[a] = "new"
    /\ faults < MaxFaults
    /\ faults' = faults + 1
    /\ agent' = [agent EXCEPT ![a] = "dialing"]
    /\ stages' \in {stages, stages \ {a}}
    /\ UNCHANGED <<mvars, run, tries, hellos, mail, equipped, rvars>>

\* The loader fails at what an earlier process left, detaches it, and main exits.
LoadRefused(a) ==
    /\ agent[a] = "new"
    /\ Occupied(a) \/ Littered(a)
    /\ stages' = stages \ {a}
    /\ Exit(a)
    /\ UNCHANGED <<mvars, hellos, mail, equipped, faults>>

\* It fails for another reason, with or without detaching anything.
LoadFails(a) ==
    /\ agent[a] = "new"
    /\ faults < MaxFaults
    /\ faults' = faults + 1
    /\ stages' \in {stages, stages \ {a}}
    /\ Exit(a)
    /\ UNCHANGED <<mvars, hellos, mail, equipped>>

\* ManagerConnect: the dial succeeds once the manager listens ...
Dial(a) ==
    /\ agent[a] = "dialing"
    /\ Running
    /\ agent' = [agent EXCEPT ![a] = "dialed"]
    /\ UNCHANGED <<mvars, run, tries, hellos, mail, svars, rvars, faults>>

\* Variant: one dial too many.
OneMoreDialFails(a) ==
    /\ agent[a] = "dialing"
    /\ ~Running
    /\ tries' = [tries EXCEPT ![a] = @ + 1]
    /\ agent' = [agent EXCEPT ![a] = IF tries'[a] > MaxTries THEN "exited" ELSE @]
    /\ UNCHANGED <<mvars, run, hellos, mail, svars, rvars, faults>>

\* ... and is retried until it has failed MaxTries times.
DialFails(a) ==
    /\ agent[a] = "dialing"
    /\ ~Running
    /\ tries' = [tries EXCEPT ![a] = @ + 1]
    /\ agent' = [agent EXCEPT ![a] = IF tries'[a] >= MaxTries THEN "exited" ELSE @]
    /\ UNCHANGED <<mvars, run, hellos, mail, svars, rvars, faults>>

SendHello(a) ==
    /\ agent[a] = "dialed"
    /\ agent' = [agent EXCEPT ![a] = "listening"]
    /\ hellos' = IF Running THEN hellos \cup {<<a, run[a]>>} ELSE hellos
    /\ UNCHANGED <<mvars, run, tries, mail, svars, rvars, faults>>

\* ManagerListen: an Install message starts a goroutine ...
ReceiveInstall(a) ==
    /\ agent[a] = "listening"
    /\ <<a, run[a]>> \in mail
    /\ mail' = mail \ {<<a, run[a]>>}
    /\ todo_fwd' = [todo_fwd EXCEPT ![a] = FwdRules(Cfg, a)]
    /\ todo_proxy' = [todo_proxy EXCEPT ![a] = SentProxyRules(Cfg, a)]
    /\ UNCHANGED <<mvars, avars, hellos, svars, fwd_rules, proxy_rules, faults>>

\* Variant: the error of Decode is not looked at.
DeafToEOF(a) ==
    /\ agent[a] = "listening"
    /\ mgr = "dead"
    /\ UNCHANGED vars

\* ... and the end of the stream ends the agent.
ReceiveEOF(a) ==
    /\ agent[a] = "listening"
    /\ mgr = "dead"
    /\ <<a, run[a]>> \notin mail
    /\ Exit(a)
    /\ UNCHANGED <<mvars, hellos, mail, svars, faults>>

\* handleInstall, one rule at a time: forwarding rules, then proxy rules.
AddFwdRule(a) ==
    /\ \E r \in todo_fwd[a] :
        /\ fwd_rules' = [fwd_rules EXCEPT ![a] = @ \cup {r}]
        /\ todo_fwd' = [todo_fwd EXCEPT ![a] = @ \ {r}]
    /\ UNCHANGED <<mvars, avars, hellos, mail, svars, todo_proxy, proxy_rules, faults>>

\* Variant: proxy rules are added without waiting for the forwarding rules.
EarlyProxyRule(a) ==
    /\ \E r \in todo_proxy[a] :
        /\ proxy_rules' = [proxy_rules EXCEPT ![a] = @ \cup {r}]
        /\ todo_proxy' = [todo_proxy EXCEPT ![a] = @ \ {r}]
    /\ UNCHANGED <<mvars, avars, hellos, mail, svars, todo_fwd, fwd_rules, faults>>

AddProxyRule(a) ==
    /\ todo_fwd[a] = {}
    /\ \E r \in todo_proxy[a] :
        /\ proxy_rules' = [proxy_rules EXCEPT ![a] = @ \cup {r}]
        /\ todo_proxy' = [todo_proxy EXCEPT ![a] = @ \ {r}]
    /\ UNCHANGED <<mvars, avars, hellos, mail, svars, todo_fwd, fwd_rules, faults>>

\* The process of an agent dies, or is started again.
AgentDies(a) ==
    /\ Alive(a)
    /\ faults < MaxFaults
    /\ faults' = faults + 1
    /\ Exit(a)
    /\ UNCHANGED <<mvars, hellos, mail, svars>>

AgentRestarts(a) ==
    /\ ~Alive(a)
    /\ a \in Restartable
    /\ run[a] < MaxRuns
    /\ agent' = [agent EXCEPT ![a] = "new"]
    /\ run' = [run EXCEPT ![a] = @ + 1]
    /\ tries' = [tries EXCEPT ![a] = 0]
    /\ UNCHANGED <<mvars, hellos, mail, svars, rvars, faults>>

-----------------------------------------------------------------------------
(***************************************************************************)
(* Manager.                                                                *)
(***************************************************************************)
Listen ==
    /\ mgr = "down"
    /\ mgr' = "listening"
    /\ UNCHANGED <<connected, unchecked, unsent, avars, hellos, mail, svars, rvars, faults>>

\* The goroutine of connection c reads the Hello and enters the connection into
\* connectedAgents, replacing an earlier one of the same node.
HandleConnection(c) ==
    /\ Running
    /\ hellos' = hellos \ {c}
    /\ connected' = [connected EXCEPT ![c[1]] = c[2]]
    /\ UNCHANGED <<mgr, unchecked, unsent, avars, mail, svars, rvars, faults>>

\* connectedAgents is a Go map that nothing protects: a write that overlaps with
\* another goroutine's write, or with the reads of InstallConfiguration, may end
\* the manager with a fatal error.
ConcurrentMapAccess(c) ==
    /\ Running
    /\ mgr \in {"checking", "sending"} \/ hellos # {c}
    /\ mgr' = "dead"
    /\ UNCHANGED <<connected, unchecked, unsent, avars, hellos, mail, svars, rvars, faults>>

\* Three seconds are over.
StartInstall ==
    /\ mgr = "listening"
    /\ mgr' = "checking"
    /\ UNCHANGED <<connected, unchecked, unsent, avars, hellos, mail, svars, rvars, faults>>

\* Variant: a missing node is passed over.
LenientCheckNode(a) ==
    /\ mgr = "checking"
    /\ unchecked' = unchecked \ {a}
    /\ mgr' = IF unchecked' = {} THEN "sending" ELSE mgr
    /\ UNCHANGED <<connected, unsent, avars, hellos, mail, svars, rvars, faults>>

\* Variant: a missing node is waited for.
PatientCheckNode(a) ==
    /\ mgr = "checking"
    /\ connected[a] # 0
    /\ unchecked' = unchecked \ {a}
    /\ mgr' = IF unchecked' = {} THEN "sending" ELSE mgr
    /\ UNCHANGED <<connected, unsent, avars, hellos, mail, svars, rvars, faults>>

\* The check of InstallConfiguration: one node of cfg.Functions after the other, in
\* the order of the file, which may be any.
CheckNode(a) ==
    /\ mgr = "checking"
    /\ \/ /\ connected[a] # 0
          /\ unchecked' = unchecked \ {a}
          /\ mgr' = IF unchecked' = {} THEN "sending" ELSE mgr
       \/ /\ connected[a] = 0
          /\ mgr' = "failed"
          /\ UNCHANGED unchecked
    /\ UNCHANGED <<connected, unsent, avars, hellos, mail, svars, rvars, faults>>

\* Variant: the loop ends after its first node.
HastySendInstall(a) ==
    /\ mgr = "sending"
    /\ unsent' = unsent \ {a}
    /\ mgr' = "done"
    /\ mail' = mail \cup {<<a, connected[a]>>}
    /\ UNCHANGED <<connected, unchecked, avars, hellos, svars, rvars, faults>>

\* batchInstallRules, one node after the other in the order of a Go map.
SendInstall(a) ==
    /\ mgr = "sending"
    /\ unsent' = unsent \ {a}
    /\ mgr' = IF unsent' = {} THEN "done" ELSE mgr
    /\ mail' = mail \cup {<<a, connected[a]>>}
    /\ UNCHANGED <<connected, unchecked, avars, hellos, svars, rvars, faults>>

\* The peer of the connection is gone and the kernel knows it: the first error
\* ends the installation.
SendFails(a) ==
    /\ mgr = "sending"
    /\ ~(Alive(a) /\ run[a] = connected[a])
    /\ mgr' = "failed"
    /\ UNCHANGED <<connected, unchecked, unsent, avars, hellos, mail, svars, rvars, faults>>

ManagerDies ==
    /\ Running
    /\ faults < MaxFaults
    /\ faults' = faults + 1
    /\ mgr' = "dead"
    /\ UNCHANGED <<connected, unchecked, unsent, avars, hellos, mail, svars, rvars>>

-----------------------------------------------------------------------------
ManagerStep ==
    \/ Listen
    \/ \E c \in hellos : HandleConnection(c)
    \/ StartInstall
    \/ \E a \in unchecked : CheckNode(a)
    \/ \E a \in unsent : SendInstall(a) \/ SendFails(a)

AgentStep(a) ==
    \/ LoadStages(a) \/ LoadRefused(a) \/ Dial(a) \/ DialFails(a) \/ SendHello(a)
    \/ ReceiveInstall(a) \/ ReceiveEOF(a)
    \/ AddFwdRule(a) \/ AddProxyRule(a)

Fault ==
    \/ ManagerDies
    \/ \E c \in hellos : ConcurrentMapAccess(c)
    \/ \E a \in Nodes : LoadFails(a) \/ AgentDies(a) \/ AgentRestarts(a)

Next == ManagerStep \/ (\E a \in Nodes : AgentStep(a)) \/ Fault

Spec == Init /\ [][Next]_vars

\* The manager's goroutines, the agents' main loops and the install goroutines
\* are scheduled; nothing orders them, and deaths and restarts need not happen.
Fairness ==
    /\ WF_vars(Listen)
    /\ WF_vars(StartInstall)
    /\ WF_vars(\E c \in hellos : HandleConnection(c))
    /\ WF_vars(\E a \in unchecked : CheckNode(a))
    /\ WF_vars(\E a \in unsent : SendInstall(a) \/ SendFails(a))
    /\ \A a \in Nodes : WF_vars(AgentStep(a))

FairSpec == Spec /\ Fairness

-----------------------------------------------------------------------------
(***************************************************************************)
(* Properties.                                                             *)
(***************************************************************************)

\* The state is of the shape the two programs and their connections have.
TypeOK ==
    /\ mgr \in ManagerStates
    /\ connected \in [Nodes -> 0 .. MaxRuns]
    /\ unchecked \subseteq Nodes
    /\ unsent \subseteq NodesWithRules(Cfg)
    /\ agent \in [Nodes -> AgentStates]
    /\ run \in [Nodes -> 1 .. MaxRuns]
    /\ tries \in [Nodes -> 0 .. MaxTries]
    /\ hellos \subseteq Nodes \X (1 .. MaxRuns)
    /\ mail \subseteq Nodes \X (1 .. MaxRuns)
    /\ stages \subseteq equipped /\ equipped \subseteq Nodes
    /\ \A a \in Nodes :
          /\ todo_fwd[a] \cup fwd_rules[a] \subseteq FwdRules(Cfg, a)
          /\ todo_proxy[a] \cup proxy_rules[a] \subseteq SentProxyRules(Cfg, a)
    /\ faults \in 0 .. MaxFaults

\* No node has a rule before every node has had all its stages attached once: rules
\* never lead packets to a node on which no process of cb_agent ever got its Dec
\* stage attached, whatever died in between and however often a process that failed
\* to load its stages was started again.  (That the stages are still there cannot be
\* said: an agent that is started again takes them off before it has new ones.)
RulesNeedStages ==
    (\E a \in Nodes : fwd_rules[a] # {}) => equipped = Nodes

\* The pinned maps never hold a proxy rule of a node without all its forwarding
\* rules, even when handleInstall was cut short and done again: an NSH entry that
\* Enc finds there leads on.
ProxyAfterFwd ==
    \A a \in Nodes :
        proxy_rules[a] # {} => fwd_rules[a] = FwdRules(Cfg, a)

\* "We will only install rules once we make sure we can reach every node": an
\* installation that fails has not begun.
AllOrNothing == mgr = "failed" => unsent = NodesWithRules(Cfg)

\* That is so unless a process dies: agents that come late, give up dialling or are
\* started again do not make the manager stop half way.
FailsCleanly == faults = 0 => AllOrNothing

\* Unless a process dies, an installation that starts to send reaches every node.
InstallCompletes ==
    (mgr = "sending") ~>
        \/ faults > 0
        \/ \A a \in Nodes : /\ fwd_rules[a] = FwdRules(Cfg, a)
                            /\ proxy_rules[a] = ProxyRules(Cfg, a)

\* The manager does not wait for ever for an agent that died.
ManagerDecides == <>(mgr \in {"done", "failed", "dead"})

\* An agent does not wait for ever for a manager that died: its process ends.
AgentsFollow ==
    \A a \in Nodes : (mgr = "dead") ~> (agent[a] = "exited")

-----------------------------------------------------------------------------
(***************************************************************************)
(* The inductive invariant behind the safety properties.                   *)
(***************************************************************************)

\* Rules are maps from all nodes, and an agent that still dials has tries left.
Shape ==
    /\ todo_fwd = [a \in Nodes |-> todo_fwd[a]]
    /\ todo_proxy = [a \in Nodes |-> todo_proxy[a]]
    /\ fwd_rules = [a \in Nodes |-> fwd_rules[a]]
    /\ proxy_rules = [a \in Nodes |-> proxy_rules[a]]
    /\ \A a \in Nodes : /\ agent[a] = "new" => tries[a] = 0
                        /\ agent[a] = "dialing" => tries[a] < MaxTries

\* An Install was sent, and what may have come of it since.
Begun ==
    \/ unsent # NodesWithRules(Cfg)
    \/ mail # {}
    \/ \E a \in Nodes :
          todo_fwd[a] \cup todo_proxy[a] \cup fwd_rules[a] \cup proxy_rules[a] # {}

\* Nothing is sent before the check is through, and a node that was looked up stays
\* connected: a later process replaces its connection and removes none.
CheckedFirst ==
    /\ mgr = "sending" \/ Begun => unchecked = {}
    /\ \A a \in Nodes \ unchecked : connected[a] # 0

\* Only a process that has loaded its stages comes to dial, so a connection, or a
\* Hello, of a node says that one of its processes has.
LoadedFirst ==
    /\ \A a \in Nodes :
          agent[a] \in {"dialing", "dialed", "listening"} \/ connected[a] # 0 =>
             a \in equipped
    /\ \A c \in hellos : c[1] \in equipped

\* A handleInstall that has something left to do leaves no forwarding rule out.
InstallAddsUp ==
    \A a \in Nodes :
        todo_fwd[a] \cup todo_proxy[a] # {} =>
            FwdRules(Cfg, a) = fwd_rules[a] \cup todo_fwd[a]

\* Unless a process died, every connection is the one of the process that runs now.
ConnectionsLive ==
    faults = 0 /\ mgr # "dead" =>
        /\ \A a \in Nodes :
              connected[a] # 0 => agent[a] = "listening" /\ run[a] = connected[a]
        /\ \A c \in hellos : agent[c[1]] = "listening" /\ run[c[1]] = c[2]

IndInv ==
    /\ TypeOK /\ Shape
    /\ CheckedFirst /\ LoadedFirst
    /\ InstallAddsUp /\ ProxyAfterFwd
    /\ ConnectionsLive /\ FailsCleanly
=============================================================================
