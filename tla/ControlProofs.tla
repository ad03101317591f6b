--------------------------- MODULE ControlProofs ---------------------------
(***************************************************************************)
(* The safety of Control for every valid configuration, any number of      *)
(* nodes, process deaths and restarts.                                     *)
(***************************************************************************)
EXTENDS Control, TLAPS

\* Before any process has started, the invariant holds.
LEMMA ControlInit == Init => IndInv
<1> SUFFICES ASSUME Init
             PROVE  IndInv
  OBVIOUS
<1> USE ControlAssumption DEF Init
<1>1. TypeOK
  BY DEF TypeOK, ManagerStates, AgentStates
<1>2. Shape /\ CheckedFirst /\ LoadedFirst
  BY DEF Shape, CheckedFirst, Begun, LoadedFirst
<1>3. InstallAddsUp /\ ProxyAfterFwd /\ ConnectionsLive /\ FailsCleanly
  BY DEF InstallAddsUp, ProxyAfterFwd, ConnectionsLive, FailsCleanly, AllOrNothing
<1> QED
  BY <1>1, <1>2, <1>3 DEF IndInv

\* Every step of the manager, an agent or the connection between them keeps it.
LEMMA ControlStep == IndInv /\ [Next]_vars => IndInv'
<1> SUFFICES ASSUME IndInv, [Next]_vars
             PROVE  IndInv'
  OBVIOUS
<1> USE ControlAssumption DEF IndInv, ManagerStates, AgentStates
<1>1. ASSUME NEW a \in Nodes, LoadStages(a)
      PROVE  IndInv'
  <2> USE <1>1 DEF LoadStages, mvars, avars, svars, rvars
  <2>1. TypeOK'
    BY DEF TypeOK
  <2>2. Shape'
    BY DEF TypeOK, Shape
  <2>3. LoadedFirst'
    BY DEF TypeOK, LoadedFirst
  <2>4. ConnectionsLive'
    BY DEF TypeOK, ConnectionsLive
  <2>5. CheckedFirst' /\ InstallAddsUp' /\ ProxyAfterFwd' /\ FailsCleanly'
    BY DEF CheckedFirst, Begun, InstallAddsUp, Shape, ProxyAfterFwd, FailsCleanly,
           AllOrNothing
  <2> QED
    BY <2>1, <2>2, <2>3, <2>4, <2>5
<1>2. ASSUME NEW a \in Nodes, LoadRefused(a)
      PROVE  IndInv'
  <2> USE <1>2 DEF LoadRefused, mvars, avars, svars, rvars, Exit, Occupied, Littered
  <2>1. TypeOK'
    BY DEF TypeOK
  <2>2. Shape'
    BY DEF TypeOK, Shape
  <2>3. CheckedFirst'
    BY DEF TypeOK, CheckedFirst, Begun
  <2>4. LoadedFirst'
    BY DEF TypeOK, LoadedFirst
  <2>5. InstallAddsUp'
    BY DEF TypeOK, InstallAddsUp, Shape
  <2>6. ConnectionsLive'
    BY DEF TypeOK, ConnectionsLive
  <2>7. ProxyAfterFwd' /\ FailsCleanly'
    BY DEF ProxyAfterFwd, Shape, InstallAddsUp, FailsCleanly, AllOrNothing
  <2> QED
    BY <2>1, <2>2, <2>3, <2>4, <2>5, <2>6, <2>7
<1>3. ASSUME NEW a \in Nodes, LoadFails(a)
      PROVE  IndInv'
  <2> USE <1>3 DEF LoadFails, mvars, avars, svars, rvars, Exit
  <2>1. TypeOK'
    BY DEF TypeOK
  <2>2. Shape'
    BY DEF TypeOK, Shape
  <2>3. CheckedFirst'
    BY DEF TypeOK, CheckedFirst, Begun
  <2>4. LoadedFirst'
    BY DEF TypeOK, LoadedFirst
  <2>5. InstallAddsUp'
    BY DEF TypeOK, InstallAddsUp, Shape
  <2>6. ConnectionsLive'
    BY DEF TypeOK, ConnectionsLive
  <2>7. FailsCleanly'
    BY DEF TypeOK, FailsCleanly, AllOrNothing
  <2>8. ProxyAfterFwd'
    BY DEF ProxyAfterFwd, Shape, InstallAddsUp
  <2> QED
    BY <2>1, <2>2, <2>3, <2>4, <2>5, <2>6, <2>7, <2>8
<1>4. ASSUME NEW a \in Nodes, Dial(a)
      PROVE  IndInv'
  <2> USE <1>4 DEF Dial, mvars, avars, svars, rvars
  <2>1. TypeOK'
    BY DEF TypeOK
  <2>2. Shape'
    BY DEF TypeOK, Shape
  <2>3. LoadedFirst'
    BY DEF TypeOK, LoadedFirst
  <2>4. ConnectionsLive'
    BY DEF TypeOK, ConnectionsLive
  <2>5. CheckedFirst' /\ InstallAddsUp' /\ ProxyAfterFwd' /\ FailsCleanly'
    BY DEF CheckedFirst, Begun, InstallAddsUp, Shape, ProxyAfterFwd, FailsCleanly,
           AllOrNothing
  <2> QED
    BY <2>1, <2>2, <2>3, <2>4, <2>5
<1>5. ASSUME NEW a \in Nodes, DialFails(a)
      PROVE  IndInv'
  <2> USE <1>5 DEF DialFails, mvars, avars, svars, rvars
  <2>1. TypeOK'
    <3>1. tries \in [Nodes -> 0 .. MaxTries] /\ agent \in [Nodes -> AgentStates]
      BY DEF TypeOK
    <3>2. agent[a] = "dialing" /\ tries[a] < MaxTries
      BY DEF Shape
    <3>3. tries' \in [Nodes -> 0 .. MaxTries]
      BY <3>1, <3>2
    <3>4. agent' \in [Nodes -> AgentStates]
      BY <3>1
    <3> QED
      BY <3>3, <3>4 DEF TypeOK
  <2>2. Shape'
    BY DEF TypeOK, Shape
  <2>3. LoadedFirst'
    BY DEF TypeOK, LoadedFirst
  <2>4. ConnectionsLive'
    BY DEF TypeOK, ConnectionsLive
  <2>5. CheckedFirst' /\ InstallAddsUp' /\ ProxyAfterFwd' /\ FailsCleanly'
    BY DEF CheckedFirst, Begun, InstallAddsUp, Shape, ProxyAfterFwd, FailsCleanly,
           AllOrNothing
  <2> QED
    BY <2>1, <2>2, <2>3, <2>4, <2>5
<1>6. ASSUME NEW a \in Nodes, SendHello(a)
      PROVE  IndInv'
  <2> USE <1>6 DEF SendHello, mvars, avars, svars, rvars, Running
  <2>1. TypeOK'
    BY DEF TypeOK
  <2>2. Shape'
    BY DEF TypeOK, Shape
  <2>3. LoadedFirst'
    BY DEF TypeOK, LoadedFirst
  <2>4. ConnectionsLive'
    BY DEF TypeOK, ConnectionsLive
  <2>5. CheckedFirst' /\ InstallAddsUp' /\ ProxyAfterFwd' /\ FailsCleanly'
    BY DEF CheckedFirst, Begun, InstallAddsUp, Shape, ProxyAfterFwd, FailsCleanly,
           AllOrNothing
  <2> QED
    BY <2>1, <2>2, <2>3, <2>4, <2>5
<1>7. ASSUME NEW a \in Nodes, ReceiveInstall(a)
      PROVE  IndInv'
  <2> USE <1>7 DEF ReceiveInstall, mvars, avars, svars, rvars
  <2>1. TypeOK'
    BY DEF TypeOK
  <2>2. Shape'
    BY DEF TypeOK, Shape
  <2>3. CheckedFirst'
    BY DEF TypeOK, CheckedFirst, Begun
  <2>4. InstallAddsUp'
    BY DEF TypeOK, InstallAddsUp, Shape
  <2>5. LoadedFirst' /\ ProxyAfterFwd' /\ ConnectionsLive' /\ FailsCleanly'
    BY DEF LoadedFirst, ProxyAfterFwd, Shape, InstallAddsUp,
           ConnectionsLive, FailsCleanly, AllOrNothing
  <2> QED
    BY <2>1, <2>2, <2>3, <2>4, <2>5
<1>8. ASSUME NEW a \in Nodes, ReceiveEOF(a)
      PROVE  IndInv'
  <2> USE <1>8 DEF ReceiveEOF, mvars, avars, svars, rvars, Exit
  <2>1. TypeOK'
    BY DEF TypeOK
  <2>2. Shape'
    BY DEF TypeOK, Shape
  <2>3. CheckedFirst'
    BY DEF TypeOK, CheckedFirst, Begun
  <2>4. LoadedFirst'
    BY DEF TypeOK, LoadedFirst
  <2>5. InstallAddsUp'
    BY DEF TypeOK, InstallAddsUp, Shape
  <2>6. ConnectionsLive'
    BY DEF TypeOK, ConnectionsLive
  <2>7. ProxyAfterFwd' /\ FailsCleanly'
    BY DEF ProxyAfterFwd, Shape, InstallAddsUp, FailsCleanly, AllOrNothing
  <2> QED
    BY <2>1, <2>2, <2>3, <2>4, <2>5, <2>6, <2>7
<1>9. ASSUME NEW a \in Nodes, AddFwdRule(a)
      PROVE  IndInv'
  <2> USE <1>9 DEF AddFwdRule, mvars, avars, svars, rvars
  <2>1. TypeOK'
    BY DEF TypeOK
  <2>2. Shape'
    BY DEF TypeOK, Shape
  <2>3. CheckedFirst'
    BY DEF TypeOK, CheckedFirst, Begun
  <2>4. InstallAddsUp'
    BY DEF TypeOK, InstallAddsUp, Shape
  <2>5. ProxyAfterFwd'
    <3> PICK r \in todo_fwd[a] :
          fwd_rules' = [fwd_rules EXCEPT ![a] = @ \cup {r}]
      OBVIOUS
    <3>1. r \in FwdRules(Cfg, a)
      BY DEF TypeOK
    <3>2. \A b \in Nodes : fwd_rules[b] = FwdRules(Cfg, b) => fwd_rules'[b] = fwd_rules[b]
      BY <3>1 DEF Shape
    <3> QED
      BY <3>2 DEF ProxyAfterFwd
  <2>6. LoadedFirst' /\ ConnectionsLive' /\ FailsCleanly'
    BY DEF LoadedFirst, ConnectionsLive, FailsCleanly, AllOrNothing
  <2> QED
    BY <2>1, <2>2, <2>3, <2>4, <2>5, <2>6
<1>10. ASSUME NEW a \in Nodes, AddProxyRule(a)
      PROVE  IndInv'
  <2> USE <1>10 DEF AddProxyRule, mvars, avars, svars, rvars
  <2>1. TypeOK'
    BY DEF TypeOK
  <2>2. Shape'
    BY DEF TypeOK, Shape
  <2>3. CheckedFirst'
    BY DEF TypeOK, CheckedFirst, Begun
  <2>4. InstallAddsUp'
    BY DEF TypeOK, InstallAddsUp, Shape
  <2>5. ProxyAfterFwd'
    <3>1. fwd_rules[a] = FwdRules(Cfg, a)
      BY DEF InstallAddsUp
    <3>2. \A b \in Nodes \ {a} : proxy_rules'[b] = proxy_rules[b]
      BY DEF Shape
    <3> QED
      BY <3>1, <3>2 DEF ProxyAfterFwd
  <2>6. LoadedFirst' /\ ConnectionsLive' /\ FailsCleanly'
    BY DEF LoadedFirst, ConnectionsLive, FailsCleanly, AllOrNothing
  <2> QED
    BY <2>1, <2>2, <2>3, <2>4, <2>5, <2>6
<1>11. ASSUME NEW a \in Nodes, AgentDies(a)
      PROVE  IndInv'
  <2> USE <1>11 DEF AgentDies, mvars, avars, svars, rvars, Exit, Alive
  <2>1. TypeOK'
    BY DEF TypeOK
  <2>2. Shape'
    BY DEF TypeOK, Shape
  <2>3. CheckedFirst'
    BY DEF TypeOK, CheckedFirst, Begun
  <2>4. LoadedFirst'
    BY DEF TypeOK, LoadedFirst
  <2>5. InstallAddsUp'
    BY DEF TypeOK, InstallAddsUp, Shape
  <2>6. ConnectionsLive'
    BY DEF TypeOK, ConnectionsLive
  <2>7. FailsCleanly'
    BY DEF TypeOK, FailsCleanly, AllOrNothing
  <2>8. ProxyAfterFwd'
    BY DEF ProxyAfterFwd, Shape, InstallAddsUp
  <2> QED
    BY <2>1, <2>2, <2>3, <2>4, <2>5, <2>6, <2>7, <2>8
<1>12. ASSUME NEW a \in Nodes, AgentRestarts(a)
      PROVE  IndInv'
  <2> USE <1>12 DEF AgentRestarts, mvars, avars, svars, rvars, Alive
  <2>1. TypeOK'
    BY DEF TypeOK
  <2>2. Shape'
    BY DEF TypeOK, Shape
  <2>3. LoadedFirst'
    BY DEF TypeOK, LoadedFirst
  <2>4. ConnectionsLive'
    BY DEF TypeOK, ConnectionsLive
  <2>5. CheckedFirst' /\ InstallAddsUp' /\ ProxyAfterFwd' /\ FailsCleanly'
    BY DEF CheckedFirst, Begun, InstallAddsUp, Shape, ProxyAfterFwd, FailsCleanly,
           AllOrNothing
  <2> QED
    BY <2>1, <2>2, <2>3, <2>4, <2>5
<1>13. CASE Listen
  <2> USE <1>13 DEF Listen, mvars, avars, svars, rvars
  <2>1. TypeOK'
    BY DEF TypeOK
  <2>2. CheckedFirst'
    BY DEF TypeOK, CheckedFirst, Begun
  <2>3. ConnectionsLive'
    BY DEF TypeOK, ConnectionsLive
  <2>4. FailsCleanly'
    BY DEF TypeOK, FailsCleanly, AllOrNothing
  <2>5. Shape' /\ LoadedFirst' /\ InstallAddsUp' /\ ProxyAfterFwd'
    BY DEF Shape, LoadedFirst, InstallAddsUp, ProxyAfterFwd
  <2> QED
    BY <2>1, <2>2, <2>3, <2>4, <2>5
<1>14. ASSUME NEW c \in hellos, HandleConnection(c)
      PROVE  IndInv'
  <2> USE <1>14 DEF HandleConnection, mvars, avars, svars, rvars, Running
  <2>1. TypeOK'
    BY DEF TypeOK
  <2>2. CheckedFirst'
    BY DEF TypeOK, CheckedFirst, Begun
  <2>3. LoadedFirst'
    BY DEF TypeOK, LoadedFirst
  <2>4. ConnectionsLive'
    BY DEF TypeOK, ConnectionsLive
  <2>5. Shape' /\ InstallAddsUp' /\ ProxyAfterFwd' /\ FailsCleanly'
    BY DEF Shape, InstallAddsUp, ProxyAfterFwd, FailsCleanly, AllOrNothing
  <2> QED
    BY <2>1, <2>2, <2>3, <2>4, <2>5
<1>15. ASSUME NEW c \in hellos, ConcurrentMapAccess(c)
      PROVE  IndInv'
  <2> USE <1>15 DEF ConcurrentMapAccess, mvars, avars, svars, rvars, Running
  <2>1. TypeOK'
    BY DEF TypeOK
  <2>2. CheckedFirst'
    BY DEF TypeOK, CheckedFirst, Begun
  <2>3. ConnectionsLive'
    BY DEF TypeOK, ConnectionsLive
  <2>4. FailsCleanly'
    BY DEF TypeOK, FailsCleanly, AllOrNothing
  <2>5. Shape' /\ LoadedFirst' /\ InstallAddsUp' /\ ProxyAfterFwd'
    BY DEF Shape, LoadedFirst, InstallAddsUp, ProxyAfterFwd
  <2> QED
    BY <2>1, <2>2, <2>3, <2>4, <2>5
<1>16. CASE StartInstall
  <2> USE <1>16 DEF StartInstall, mvars, avars, svars, rvars
  <2>1. TypeOK'
    BY DEF TypeOK
  <2>2. CheckedFirst'
    BY DEF TypeOK, CheckedFirst, Begun
  <2>3. ConnectionsLive'
    BY DEF TypeOK, ConnectionsLive
  <2>4. FailsCleanly'
    BY DEF TypeOK, FailsCleanly, AllOrNothing
  <2>5. Shape' /\ LoadedFirst' /\ InstallAddsUp' /\ ProxyAfterFwd'
    BY DEF Shape, LoadedFirst, InstallAddsUp, ProxyAfterFwd
  <2> QED
    BY <2>1, <2>2, <2>3, <2>4, <2>5
<1>17. ASSUME NEW a \in unchecked, CheckNode(a)
      PROVE  IndInv'
  <2> USE <1>17 DEF CheckNode, mvars, avars, svars, rvars
  <2>1. TypeOK'
    BY DEF TypeOK
  <2>2. CheckedFirst'
    BY DEF TypeOK, CheckedFirst, Begun
  <2>3. ConnectionsLive'
    BY DEF TypeOK, ConnectionsLive
  <2>4. FailsCleanly'
    BY DEF TypeOK, FailsCleanly, AllOrNothing, CheckedFirst, Begun
  <2>5. Shape' /\ LoadedFirst' /\ InstallAddsUp' /\ ProxyAfterFwd'
    BY DEF Shape, LoadedFirst, InstallAddsUp, ProxyAfterFwd
  <2> QED
    BY <2>1, <2>2, <2>3, <2>4, <2>5
<1>18. ASSUME NEW a \in unsent, SendInstall(a)
      PROVE  IndInv'
  <2> USE <1>18 DEF SendInstall, mvars, avars, svars, rvars
  <2>1. TypeOK'
    BY DEF TypeOK, CheckedFirst, NodesWithRules
  <2>2. CheckedFirst'
    BY DEF TypeOK, CheckedFirst, Begun
  <2>3. ConnectionsLive'
    BY DEF TypeOK, ConnectionsLive
  <2>4. FailsCleanly'
    BY DEF TypeOK, FailsCleanly, AllOrNothing
  <2>5. Shape' /\ LoadedFirst' /\ InstallAddsUp' /\ ProxyAfterFwd'
    BY DEF Shape, LoadedFirst, InstallAddsUp, ProxyAfterFwd
  <2> QED
    BY <2>1, <2>2, <2>3, <2>4, <2>5
<1>19. ASSUME NEW a \in unsent, SendFails(a)
      PROVE  IndInv'
  <2> USE <1>19 DEF SendFails, mvars, avars, svars, rvars, Alive
  <2>1. TypeOK'
    BY DEF TypeOK
  <2>2. CheckedFirst'
    BY DEF TypeOK, CheckedFirst, Begun
  <2>3. ConnectionsLive'
    BY DEF TypeOK, ConnectionsLive
  <2>4. FailsCleanly'
    BY DEF TypeOK, FailsCleanly, AllOrNothing, CheckedFirst, Begun,
           ConnectionsLive, NodesWithRules
  <2>5. Shape' /\ LoadedFirst' /\ InstallAddsUp' /\ ProxyAfterFwd'
    BY DEF Shape, LoadedFirst, InstallAddsUp, ProxyAfterFwd
  <2> QED
    BY <2>1, <2>2, <2>3, <2>4, <2>5
<1>20. CASE ManagerDies
  <2> USE <1>20 DEF ManagerDies, mvars, avars, svars, rvars, Running
  <2>1. TypeOK'
    BY DEF TypeOK
  <2>2. CheckedFirst'
    BY DEF TypeOK, CheckedFirst, Begun
  <2>3. ConnectionsLive'
    BY DEF TypeOK, ConnectionsLive
  <2>4. FailsCleanly'
    BY DEF TypeOK, FailsCleanly, AllOrNothing
  <2>5. Shape' /\ LoadedFirst' /\ InstallAddsUp' /\ ProxyAfterFwd'
    BY DEF Shape, LoadedFirst, InstallAddsUp, ProxyAfterFwd
  <2> QED
    BY <2>1, <2>2, <2>3, <2>4, <2>5
<1>21. CASE UNCHANGED vars
  BY <1>21 DEF vars, mvars, avars, svars, rvars, TypeOK, Shape, CheckedFirst, Begun,
     LoadedFirst, InstallAddsUp, ProxyAfterFwd, ConnectionsLive,
     FailsCleanly, AllOrNothing
<1> QED
  BY <1>1, <1>2, <1>3, <1>4, <1>5, <1>6, <1>7, <1>8, <1>9, <1>10, <1>11, <1>12,
     <1>13, <1>14, <1>15, <1>16, <1>17, <1>18, <1>19, <1>20, <1>21
  DEF Next, ManagerStep, AgentStep, Fault

\* The inductive invariant holds throughout.
LEMMA ControlInvariant == Spec => []IndInv
BY ControlInit, ControlStep, PTL DEF Spec

\* The state stays of the shape of the two programs: in particular Install messages
\* only go to connections that exist, and no agent dials more than MaxTries times.
THEOREM ControlTypes == Spec => []TypeOK
BY ControlInvariant, PTL DEF IndInv

\* InstallConfiguration looks up every node before it sends anything, and a node can
\* be connected only after one of its processes loaded all its stages: no rule is ever
\* there before, also when the first processes of a node failed to load theirs.
THEOREM RulesAfterStages == Spec => []RulesNeedStages
<1>1. IndInv => RulesNeedStages
  <2> SUFFICES ASSUME IndInv, NEW a \in Nodes, fwd_rules[a] # {}
               PROVE  equipped = Nodes
    BY DEF RulesNeedStages
  <2>1. unchecked = {}
    BY DEF IndInv, CheckedFirst, Begun
  <2>2. \A b \in Nodes : connected[b] # 0
    BY <2>1 DEF IndInv, CheckedFirst
  <2> QED
    BY <2>2 DEF IndInv, LoadedFirst, TypeOK
<1> QED
  BY <1>1, ControlInvariant, PTL

\* handleInstall adds proxy rules last, and dying and starting over does not change
\* that for what is in the pinned maps.
THEOREM ProxyRulesLast == Spec => []ProxyAfterFwd
BY ControlInvariant, PTL DEF IndInv

\* Without a fault batchInstallRules never meets a connection that is gone, so an
\* installation fails in the check or not at all.
THEOREM InstallFailsCleanly == Spec => []FailsCleanly
BY ControlInvariant, PTL DEF IndInv
=============================================================================
