-------------------------- MODULE DataPlaneProofs --------------------------
(***************************************************************************)
(* Proofs about DataPlane for every set of valid configurations, every     *)
(* number of packets and every size of the two maps; and that it           *)
(* implements ServiceChain if the maps are large enough.                   *)
(***************************************************************************)
EXTENDS DataPlane, RulesProofs, FiniteSetTheorems

\* What bpf_map_update_elem does to a hash map, whether or not it succeeds.
LEMMA MapUpdateFacts ==
    ASSUME NEW m, NEW size, NEW k, NEW v, NEW u, u = MapUpdate(m, size, k, v)
    PROVE  /\ DOMAIN m \subseteq DOMAIN u
           /\ DOMAIN u \subseteq DOMAIN m \cup {k}
           /\ \A x \in DOMAIN u : x # k => u[x] = m[x]
           /\ k \in DOMAIN u => (u[k] = v \/ (k \in DOMAIN m /\ u[k] = m[k]))
           /\ k \in DOMAIN u \/ ~Room(u, size)
           /\ ~Room(m, size) => ~Room(u, size)
<1>1. CASE k \in DOMAIN m
  <2>1. u = [x \in DOMAIN m \cup {k} |-> IF x = k THEN v ELSE m[x]]
    BY <1>1 DEF MapUpdate
  <2>2. DOMAIN u = DOMAIN m
    BY <1>1, <2>1
  <2> QED
    BY <2>1, <2>2 DEF Room
<1>2. CASE k \notin DOMAIN m /\ Room(m, size)
  <2>1. u = [x \in DOMAIN m \cup {k} |-> IF x = k THEN v ELSE m[x]]
    BY <1>2 DEF MapUpdate
  <2> QED
    BY <1>2, <2>1
<1>3. CASE k \notin DOMAIN m /\ ~Room(m, size)
  BY <1>3 DEF MapUpdate
<1> QED
  BY <1>1, <1>2, <1>3

\* What IndInv says about one packet.
PacketOK(p) ==
    /\ pc[p] \in {"source", "plain"} => visited[p] = <<>>
    /\ pc[p] \notin {"source", "plain"} =>
          \E c \in Ids(cfg) : FlowOf[p] \in cfg.flows[c] /\ PacketAt(p, c, Len(visited[p]))
    /\ pc[p] = "bypass" =>
          \/ ~Room(nsh_data[at[p]], NshDataSize)
          \/ ~HasIngress(cfg, at[p]) /\ ~settled[p]
    /\ pc[p] # "si_zero"
    /\ pc[p] \in {"no_rule", "second_end"} =>
          ~settled[p] \/ ~Room(fwd_table[at[p]], FwdTableSize)

\* PacketOK collects, for one packet, what three parts of IndInv say of all.
LEMMA PacketOKs ==
    (\A p \in Packets : PacketOK(p)) <=> (PacketInv /\ BypassCause /\ DropCause)
BY DEF PacketOK, PacketInv, BypassCause, DropCause

\* The manager works on a valid configuration.
LEMMA CfgValid == ASSUME TypeOK PROVE ValidConfig(cfg)
BY DataPlaneAssumption DEF TypeOK

\* Installing rules and storing headers never invalidates what is known of a packet
\* that does not move.
LEMMA PacketFrame ==
    ASSUME TypeOK, cfg' = cfg, NEW q \in Packets, PacketOK(q),
           pc'[q] = pc[q], at'[q] = at[q], sph'[q] = sph[q],
           visited'[q] = visited[q], settled'[q] = settled[q],
           \A n \in Nodes :
              /\ DOMAIN nsh_data[n] \subseteq DOMAIN nsh_data'[n]
              /\ ~Room(nsh_data[n], NshDataSize) => ~Room(nsh_data'[n], NshDataSize)
              /\ ~Room(fwd_table[n], FwdTableSize) => ~Room(fwd_table'[n], FwdTableSize)
    PROVE  PacketOK(q)'
<1>1. CASE pc[q] \in {"source", "plain"}
  BY <1>1 DEF PacketOK
<1>2. CASE pc[q] \notin {"source", "plain"}
  <2>1. PICK c \in Ids(cfg) :
          FlowOf[q] \in cfg.flows[c] /\ PacketAt(q, c, Len(visited[q]))
    BY <1>2 DEF PacketOK
  <2>2. at[q] \in Nodes
    <3>1. pc[q] \in InFlight \cup Gone
      BY <1>2 DEF TypeOK
    <3>2. ValidConfig(cfg)
      BY CfgValid
    <3>3. ASSUME NEW k, HeldBy(q, c, k) PROVE at[q] \in Nodes
      BY <3>2, <3>3, ValidPosition DEF HeldBy
    <3> QED
      BY <2>1, <3>1, <3>3 DEF PacketAt, InFlight
  <2>3. PacketAt(q, c, Len(visited[q]))'
    BY <2>1, <2>2 DEF PacketAt, Through, Remembered, HeldBy
  <2> QED
    BY <1>2, <2>1, <2>2, <2>3 DEF PacketOK
<1> QED
  BY <1>1, <1>2

\* In the initial state no packet and no map entry is there.
LEMMA InitIndInv == Init => IndInv
<1> SUFFICES ASSUME Init PROVE IndInv
  OBVIOUS
<1>1. TypeOK
  <2>1. [spi |-> 0, si |-> 0] \in SPH
    <3>1. 0 \in SPIs
      <4>1. SPICount \in Nat /\ 0 < SPICount
        BY SMT DEF SPICount
      <4> QED
        BY <4>1 DEF SPIs
    <3>2. 0 \in SIs
      BY SMT DEF SIs
    <3> QED
      BY <3>1, <3>2 DEF SPH
  <2>2. \A n \in Nodes : SentProxyRules(cfg, n) \subseteq ProxyRules(cfg, n)
    BY DEF SentProxyRules
  <2>3. visited \in [Packets -> Seq(Nodes)]
    BY DEF Init
  <2>4. \A n \in Nodes : DOMAIN nsh_data[n] = {} /\ DOMAIN fwd_table[n] = {}
    BY DEF Init, EmptyMap
  <2> QED
    BY <2>1, <2>2, <2>3, <2>4 DEF Init, TypeOK
<1>2. NshInv
  BY DEF Init, NshInv, EmptyMap
<1>3. FwdInv
  BY DEF Init, FwdInv, EmptyMap
<1>4. ProxyInv
  BY DEF Init, ProxyInv
<1>5. SettledInv
  BY DEF Init, SettledInv
<1>6. PacketInv /\ BypassCause /\ DropCause
  BY DEF Init, PacketInv, BypassCause, DropCause
<1> QED
  BY <1>1, <1>2, <1>3, <1>4, <1>5, <1>6 DEF IndInv

\* A forwarding rule is written to the map, or the map is full.
LEMMA AddFwdRuleIndInv ==
    ASSUME IndInv, NEW n \in Nodes, AddFwdRule(n)
    PROVE  IndInv'
<1>1. PICK r \in todo_fwd[n] :
        /\ fwd_table' = [fwd_table EXCEPT
                            ![n] = MapUpdate(@, FwdTableSize, r.key, r.val)]
        /\ todo_fwd' = [todo_fwd EXCEPT ![n] = @ \ {r}]
        /\ UNCHANGED <<cfg, nsh_data, todo_proxy, packet>>
  BY DEF AddFwdRule
<1>2. UNCHANGED <<cfg, nsh_data, todo_proxy, pc, at, sph, visited, settled>>
  BY <1>1 DEF packet
<1>3. TypeOK /\ ValidConfig(cfg)
  BY CfgValid DEF IndInv
<1>4. r \in FwdRules(cfg, n)
  BY <1>3 DEF TypeOK
<1>5. r.key \in SPH /\ r.val \in FwdEntry /\ r = [key |-> r.key, val |-> r.val]
  BY <1>3, <1>4, FwdRuleType
<1>6. /\ fwd_table' = [m \in Nodes |-> fwd_table'[m]]
      /\ fwd_table'[n] = MapUpdate(fwd_table[n], FwdTableSize, r.key, r.val)
      /\ \A m \in Nodes : m # n => fwd_table'[m] = fwd_table[m]
  BY <1>1, <1>3 DEF TypeOK
<1>7. /\ DOMAIN fwd_table[n] \subseteq DOMAIN fwd_table'[n]
      /\ DOMAIN fwd_table'[n] \subseteq DOMAIN fwd_table[n] \cup {r.key}
      /\ \A x \in DOMAIN fwd_table'[n] : x # r.key => fwd_table'[n][x] = fwd_table[n][x]
      /\ r.key \in DOMAIN fwd_table'[n] =>
            \/ fwd_table'[n][r.key] = r.val
            \/ r.key \in DOMAIN fwd_table[n] /\ fwd_table'[n][r.key] = fwd_table[n][r.key]
      /\ r.key \in DOMAIN fwd_table'[n] \/ ~Room(fwd_table'[n], FwdTableSize)
      /\ ~Room(fwd_table[n], FwdTableSize) => ~Room(fwd_table'[n], FwdTableSize)
  BY <1>6, MapUpdateFacts
<1>8. /\ todo_fwd' = [m \in Nodes |-> todo_fwd'[m]]
      /\ todo_fwd'[n] = todo_fwd[n] \ {r}
      /\ \A m \in Nodes : m # n => todo_fwd'[m] = todo_fwd[m]
  BY <1>1, <1>3 DEF TypeOK
<1>9. TypeOK'
  <2>1. /\ DOMAIN fwd_table'[n] \subseteq SPH
        /\ \A s \in DOMAIN fwd_table'[n] : fwd_table'[n][s] \in FwdEntry
    BY <1>3, <1>5, <1>7 DEF TypeOK
  <2> QED
    BY <1>2, <1>3, <1>6, <1>8, <2>1 DEF TypeOK
<1>10. FwdInv'
  <2>1. \A s \in DOMAIN fwd_table'[n] :
            [key |-> s, val |-> fwd_table'[n][s]] \in FwdRules(cfg, n)
    BY <1>4, <1>5, <1>7 DEF IndInv, FwdInv
  <2>2. \A q \in FwdRules(cfg, n) \ todo_fwd'[n] :
            q.key \in DOMAIN fwd_table'[n] \/ ~Room(fwd_table'[n], FwdTableSize)
    BY <1>7, <1>8 DEF IndInv, FwdInv
  <2> QED
    BY <1>2, <1>6, <1>8, <2>1, <2>2 DEF IndInv, FwdInv
<1>11. NshInv' /\ ProxyInv'
  BY <1>2 DEF IndInv, NshInv, ProxyInv
<1>12. SettledInv'
  BY <1>1, <1>2 DEF IndInv, SettledInv, Installed
<1>13. ASSUME NEW q \in Packets PROVE PacketOK(q)'
  <2>1. PacketOK(q)
    BY PacketOKs DEF IndInv
  <2> QED
    BY <1>2, <1>3, <1>6, <1>7, <2>1, PacketFrame
<1>14. (PacketInv /\ BypassCause /\ DropCause)'
  BY <1>13 DEF PacketOK, PacketInv, BypassCause, DropCause
<1> QED
  BY <1>9, <1>10, <1>11, <1>12, <1>14 DEF IndInv

\* A stored header is determined by its flow and its node.
LEMMA StoredHeader ==
    ASSUME TypeOK, NshInv, NEW n \in Nodes, NEW f \in DOMAIN nsh_data[n],
           NEW c \in Ids(cfg), NEW k \in 1 .. ChainLen(cfg, c),
           cfg.chains[c][k] = n, f \in cfg.flows[c]
    PROVE  nsh_data[n][f] = Reached(c, k)
<1>1. ValidConfig(cfg)
  BY CfgValid
<1>2. PICK d \in Ids(cfg) : \E l \in 1 .. ChainLen(cfg, d) :
        f \in cfg.flows[d] /\ cfg.chains[d][l] = n /\ nsh_data[n][f] = Reached(d, l)
  BY DEF NshInv
<1>3. PICK l \in 1 .. ChainLen(cfg, d) :
        f \in cfg.flows[d] /\ cfg.chains[d][l] = n /\ nsh_data[n][f] = Reached(d, l)
  BY <1>2
<1>4. c = d
  BY <1>1, <1>3 DEF ValidConfig, FlowsDisjoint
<1>5. k = l
  BY <1>1, <1>3, <1>4 DEF ValidConfig, NoRepeats
<1> QED
  BY <1>3, <1>4, <1>5

\* What a write of flow f's header at this node does to nsh_data, whether an agent
\* or the Dec stage makes it.
LEMMA NshWrite ==
    ASSUME TypeOK, NshInv, cfg' = cfg, NEW n \in Nodes,
           NEW c \in Ids(cfg), NEW k \in 1 .. ChainLen(cfg, c),
           cfg.chains[c][k] = n, NEW f \in cfg.flows[c],
           nsh_data' = [nsh_data EXCEPT
                            ![n] = MapUpdate(@, NshDataSize, f, Reached(c, k))]
    PROVE  /\ nsh_data' = [m \in Nodes |-> nsh_data'[m]]
           /\ \A m \in Nodes :
                 /\ DOMAIN nsh_data[m] \subseteq DOMAIN nsh_data'[m]
                 /\ ~Room(nsh_data[m], NshDataSize) => ~Room(nsh_data'[m], NshDataSize)
                 /\ DOMAIN nsh_data'[m] \subseteq Flows
                 /\ \A g \in DOMAIN nsh_data'[m] : nsh_data'[m][g] \in SPH
           /\ f \in DOMAIN nsh_data'[n] \/ ~Room(nsh_data'[n], NshDataSize)
           /\ NshStep
           /\ NshInv'
<1>1. ValidConfig(cfg)
  BY CfgValid
<1>2. c \in SPIs /\ k \in Positions /\ cfg.flows[c] \subseteq Flows
  BY <1>1, ValidPosition
<1>3. Reached(c, k) \in SPH
  BY <1>2, SphValue
<1>4. /\ nsh_data' = [m \in Nodes |-> nsh_data'[m]]
      /\ nsh_data'[n] = MapUpdate(nsh_data[n], NshDataSize, f, Reached(c, k))
      /\ \A m \in Nodes : m # n => nsh_data'[m] = nsh_data[m]
  BY DEF TypeOK
<1>5. /\ DOMAIN nsh_data[n] \subseteq DOMAIN nsh_data'[n]
      /\ DOMAIN nsh_data'[n] \subseteq DOMAIN nsh_data[n] \cup {f}
      /\ \A x \in DOMAIN nsh_data'[n] : x # f => nsh_data'[n][x] = nsh_data[n][x]
      /\ f \in DOMAIN nsh_data'[n] =>
            \/ nsh_data'[n][f] = Reached(c, k)
            \/ f \in DOMAIN nsh_data[n] /\ nsh_data'[n][f] = nsh_data[n][f]
      /\ f \in DOMAIN nsh_data'[n] \/ ~Room(nsh_data'[n], NshDataSize)
      /\ ~Room(nsh_data[n], NshDataSize) => ~Room(nsh_data'[n], NshDataSize)
  <2>1. nsh_data'[n] = MapUpdate(nsh_data[n], NshDataSize, f, Reached(c, k))
    BY <1>4
  <2> QED
    BY ONLY <2>1, MapUpdateFacts
<1>6. /\ DOMAIN nsh_data'[n] \subseteq Flows
      /\ \A g \in DOMAIN nsh_data'[n] : nsh_data'[n][g] \in SPH
  <2>1. /\ DOMAIN nsh_data[n] \subseteq Flows
        /\ \A g \in DOMAIN nsh_data[n] : nsh_data[n][g] \in SPH
    BY DEF TypeOK
  <2>2. DOMAIN nsh_data'[n] \subseteq Flows
    BY <1>2, <1>5, <2>1
  <2>3. ASSUME NEW g \in DOMAIN nsh_data'[n] PROVE nsh_data'[n][g] \in SPH
    <3>1. CASE g = f
      BY <1>3, <1>5, <2>1, <3>1
    <3>2. CASE g # f
      BY <1>5, <2>1, <3>2
    <3> QED
      BY <3>1, <3>2
  <2> QED
    BY <2>2, <2>3
<1>7. \A m \in Nodes :
        /\ DOMAIN nsh_data[m] \subseteq DOMAIN nsh_data'[m]
        /\ ~Room(nsh_data[m], NshDataSize) => ~Room(nsh_data'[m], NshDataSize)
        /\ DOMAIN nsh_data'[m] \subseteq Flows
        /\ \A g \in DOMAIN nsh_data'[m] : nsh_data'[m][g] \in SPH
  BY <1>4, <1>5, <1>6 DEF TypeOK
<1>8. ASSUME NEW m \in Nodes, NEW g \in DOMAIN nsh_data'[m]
      PROVE  \E d \in Ids(cfg) : \E l \in 1 .. ChainLen(cfg, d) :
                g \in cfg.flows[d] /\ cfg.chains[d][l] = m /\ nsh_data'[m][g] = Reached(d, l)
  <2>1. CASE g \in DOMAIN nsh_data[m] /\ nsh_data'[m][g] = nsh_data[m][g]
    BY <2>1 DEF NshInv
  <2>2. CASE m = n /\ g = f /\ nsh_data'[m][g] = Reached(c, k)
    BY <2>2
  <2> QED
    BY <1>4, <1>5, <1>8, <2>1, <2>2
<1>9. NshInv'
  BY <1>8 DEF NshInv
<1>10. NshStep
  <2>1. f \in DOMAIN nsh_data[n] => nsh_data[n][f] = Reached(c, k)
    BY StoredHeader
  <2> QED
    BY <1>4, <1>5, <2>1 DEF NshStep
<1> QED
  BY <1>4, <1>5, <1>7, <1>9, <1>10

\* A proxy rule is written to the map, or the map is full.
LEMMA AddProxyRuleIndInv ==
    ASSUME IndInv, NEW n \in Nodes, AddProxyRule(n)
    PROVE  IndInv'
<1>1. PICK r \in todo_proxy[n] :
        /\ nsh_data' = [nsh_data EXCEPT
                            ![n] = MapUpdate(@, NshDataSize, r.key, r.val)]
        /\ todo_proxy' = [todo_proxy EXCEPT ![n] = @ \ {r}]
        /\ UNCHANGED <<cfg, fwd_table, todo_fwd, packet>>
  BY DEF AddProxyRule
<1>2. UNCHANGED <<cfg, fwd_table, todo_fwd, pc, at, sph, visited, settled>>
  BY <1>1 DEF packet
<1>3. TypeOK /\ ValidConfig(cfg) /\ NshInv
  BY CfgValid DEF IndInv
<1>4. r \in ProxyRules(cfg, n)
  BY <1>3 DEF TypeOK
<1>5. PICK c \in Ids(cfg) : \E k \in 1 .. ChainLen(cfg, c) :
        r.key \in cfg.flows[c] /\ cfg.chains[c][k] = n /\ r.val = Reached(c, k)
  BY <1>3, <1>4, ProxyRuleValue
<1>6. PICK k \in 1 .. ChainLen(cfg, c) :
        r.key \in cfg.flows[c] /\ cfg.chains[c][k] = n /\ r.val = Reached(c, k)
  BY <1>5
<1>7. /\ nsh_data' = [m \in Nodes |-> nsh_data'[m]]
      /\ \A m \in Nodes :
            /\ DOMAIN nsh_data[m] \subseteq DOMAIN nsh_data'[m]
            /\ ~Room(nsh_data[m], NshDataSize) => ~Room(nsh_data'[m], NshDataSize)
            /\ DOMAIN nsh_data'[m] \subseteq Flows
            /\ \A g \in DOMAIN nsh_data'[m] : nsh_data'[m][g] \in SPH
      /\ r.key \in DOMAIN nsh_data'[n] \/ ~Room(nsh_data'[n], NshDataSize)
      /\ NshInv'
  BY <1>1, <1>2, <1>3, <1>6, NshWrite
<1>8. /\ todo_proxy' = [m \in Nodes |-> todo_proxy'[m]]
      /\ todo_proxy'[n] = todo_proxy[n] \ {r}
      /\ \A m \in Nodes : m # n => todo_proxy'[m] = todo_proxy[m]
  BY <1>1, <1>3 DEF TypeOK
<1>9. TypeOK'
  BY <1>2, <1>3, <1>7, <1>8 DEF TypeOK
<1>10. FwdInv'
  BY <1>2 DEF IndInv, FwdInv
<1>11. ProxyInv'
  <2>1. \A q \in SentProxyRules(cfg, n) \ todo_proxy'[n] :
            q.key \in DOMAIN nsh_data'[n] \/ ~Room(nsh_data'[n], NshDataSize)
    BY <1>7, <1>8 DEF IndInv, ProxyInv
  <2> QED
    BY <1>2, <1>7, <1>8, <2>1 DEF IndInv, ProxyInv
<1>12. SettledInv'
  BY <1>1, <1>2 DEF IndInv, SettledInv, Installed
<1>13. ASSUME NEW q \in Packets PROVE PacketOK(q)'
  <2>1. PacketOK(q)
    BY PacketOKs DEF IndInv
  <2> QED
    BY <1>2, <1>3, <1>7, <2>1, PacketFrame
<1>14. (PacketInv /\ BypassCause /\ DropCause)'
  BY <1>13 DEF PacketOK, PacketInv, BypassCause, DropCause
<1> QED
  BY <1>7, <1>9, <1>10, <1>11, <1>12, <1>14 DEF IndInv

\* A step that moves one packet and leaves the maps alone has to care for that
\* packet only.
LEMMA PacketStep ==
    ASSUME IndInv, NEW p \in Packets,
           UNCHANGED <<cfg, nsh_data, fwd_table, todo_fwd, todo_proxy>>,
           \A q \in Packets : q # p =>
              /\ pc'[q] = pc[q] /\ at'[q] = at[q] /\ sph'[q] = sph[q]
              /\ visited'[q] = visited[q] /\ settled'[q] = settled[q],
           pc' \in [Packets -> {"source"} \cup InFlight \cup Gone],
           at' \in [Packets -> Nodes \cup {ZeroAddr}],
           sph' \in [Packets -> SPH],
           visited' \in [Packets -> Seq(Nodes)],
           settled' \in [Packets -> BOOLEAN],
           settled'[p] => Installed,
           PacketOK(p)'
    PROVE  IndInv'
<1>1. TypeOK
  BY DEF IndInv
<1>2. TypeOK'
  BY <1>1 DEF TypeOK
<1>3. NshInv' /\ FwdInv' /\ ProxyInv'
  BY DEF IndInv, NshInv, FwdInv, ProxyInv
<1>4. SettledInv'
  BY DEF IndInv, SettledInv, Installed
<1>5. ASSUME NEW q \in Packets PROVE PacketOK(q)'
  <2>1. CASE q = p
    BY <2>1
  <2>2. CASE q # p
    <3>1. PacketOK(q)
      BY PacketOKs DEF IndInv
    <3> QED
      BY <1>1, <2>2, <3>1, PacketFrame
  <2> QED
    BY <2>1, <2>2
<1>6. (PacketInv /\ BypassCause /\ DropCause)'
  BY <1>5 DEF PacketOK, PacketInv, BypassCause, DropCause
<1> QED
  BY <1>2, <1>3, <1>4, <1>6 DEF IndInv

\* A packet in a chain: its chain, its position, and what it says of the state.
LEMMA PacketFacts ==
    ASSUME IndInv, NEW p \in Packets
    PROVE  /\ PacketOK(p)
           /\ ValidConfig(cfg)
           /\ pc[p] \in {"source"} \cup InFlight \cup Gone
           /\ visited[p] \in Seq(Nodes)
           /\ Len(visited[p]) \in Nat
           /\ settled[p] => Installed
<1>1. TypeOK
  BY DEF IndInv
<1>2. visited[p] \in Seq(Nodes) /\ pc[p] \in {"source"} \cup InFlight \cup Gone
  BY <1>1 DEF TypeOK
<1> QED
  BY <1>1, <1>2, CfgValid, PacketOKs DEF IndInv, SettledInv

\* A classified packet is on its way to the first function.
LEMMA ClassifyMatchIndInv ==
    ASSUME IndInv, NEW p \in Packets, ClassifyMatch(p)
    PROVE  IndInv'
<1>1. PICK c \in ChainsOf(FlowOf[p]) :
        /\ sph' = [sph EXCEPT ![p] = ClassifierSph(c)]
        /\ at' = [at EXCEPT ![p] = HelloAddress(cfg, cfg.chains[c][1])]
  BY DEF ClassifyMatch
<1>2. c \in Ids(cfg) /\ FlowOf[p] \in cfg.flows[c]
  BY DEF ChainsOf
<1>3. /\ UNCHANGED <<cfg, nsh_data, fwd_table, todo_fwd, todo_proxy, visited>>
      /\ pc' = [pc EXCEPT ![p] = "wire"]
      /\ settled' = [settled EXCEPT ![p] = Installed]
      /\ pc[p] = "source"
  BY DEF ClassifyMatch, tables, Move
<1>4. TypeOK /\ ValidConfig(cfg)
  BY CfgValid DEF IndInv
<1>5. 1 \in 1 .. ChainLen(cfg, c)
  <2>1. ChainLen(cfg, c) \in Positions
    BY <1>2, <1>4 DEF ValidConfig, WellFormed
  <2> QED
    BY <2>1 DEF Positions
<1>6. /\ c \in SPIs /\ 1 \in Positions
      /\ cfg.chains[c][1] \in Nodes
      /\ ChainLen(cfg, c) \in Nat
  BY <1>2, <1>4, <1>5, ValidPosition
<1>7. ClassifierSph(c) = Reached(c, 1)
  BY SMT DEF ClassifierSph, Reached
<1>8. Reached(c, 1) \in SPH
  BY <1>6, SphValue
<1>9. HasIngress(cfg, cfg.chains[c][1])
  <2>1. ~DirectLink(cfg, c, 1 - 1)
    BY <1>6 DEF DirectLink
  <2> QED
    BY <1>2, <1>4, <1>5, <2>1, StagesMatchLinks
<1>10. HelloAddress(cfg, cfg.chains[c][1]) = cfg.chains[c][1]
  BY <1>9 DEF HelloAddress
<1>11. /\ pc'[p] = "wire" /\ at'[p] = cfg.chains[c][1] /\ sph'[p] = Reached(c, 1)
       /\ visited'[p] = <<>> /\ settled'[p] = Installed
  <2>1. visited[p] = <<>>
    BY <1>3, PacketFacts DEF PacketOK
  <2> QED
    BY <1>1, <1>3, <1>4, <1>7, <1>10, <2>1 DEF TypeOK
<1>12. PacketAt(p, c, 0)'
  <2>1. Through(p, c, 0)'
    BY <1>3, <1>6, <1>11 DEF Through
  <2>2. HeldBy(p, c, 0 + 1)'
    BY <1>3, <1>5, <1>11 DEF HeldBy
  <2> QED
    BY <1>3, <1>9, <1>11, <2>1, <2>2 DEF PacketAt, Gone
<1>13. PacketOK(p)'
  <2>1. Len(visited'[p]) = 0
    BY <1>11
  <2> QED
    BY <1>2, <1>3, <1>11, <1>12, <2>1 DEF PacketOK
<1>14. /\ pc' \in [Packets -> {"source"} \cup InFlight \cup Gone]
       /\ at' \in [Packets -> Nodes \cup {ZeroAddr}]
       /\ sph' \in [Packets -> SPH]
       /\ visited' \in [Packets -> Seq(Nodes)]
       /\ settled' \in [Packets -> BOOLEAN]
  <2>1. pc' \in [Packets -> {"source"} \cup InFlight \cup Gone]
    BY <1>3, <1>4 DEF TypeOK, InFlight
  <2>2. at' \in [Packets -> Nodes \cup {ZeroAddr}]
    BY <1>1, <1>4, <1>6, <1>10 DEF TypeOK
  <2>3. sph' \in [Packets -> SPH]
    BY <1>1, <1>4, <1>7, <1>8 DEF TypeOK
  <2>4. settled' \in [Packets -> BOOLEAN]
    BY <1>3, <1>4 DEF TypeOK, Installed
  <2> QED
    BY <1>3, <1>4, <2>1, <2>2, <2>3, <2>4 DEF TypeOK
<1>15. \A q \in Packets : q # p =>
          /\ pc'[q] = pc[q] /\ at'[q] = at[q] /\ sph'[q] = sph[q]
          /\ visited'[q] = visited[q] /\ settled'[q] = settled[q]
  BY <1>1, <1>3, <1>4 DEF TypeOK
<1> QED
  BY <1>3, <1>11, <1>13, <1>14, <1>15, PacketStep

\* Steps after which a packet is gone, wherever it was.
LEMMA GoneIndInv ==
    ASSUME IndInv, NEW p \in Packets, NEW w \in {"consumed", "lost"},
           pc[p] \in InFlight, Move(p, w),
           UNCHANGED <<cfg, tables, at, sph, visited, settled>>
    PROVE  IndInv'
<1>1. /\ UNCHANGED <<cfg, nsh_data, fwd_table, todo_fwd, todo_proxy,
                     at, sph, visited, settled>>
      /\ pc' = [pc EXCEPT ![p] = w]
  BY DEF tables, Move
<1>2. TypeOK /\ ValidConfig(cfg) /\ PacketOK(p)
  BY CfgValid, PacketFacts DEF IndInv
<1>3. PICK c \in Ids(cfg) :
        FlowOf[p] \in cfg.flows[c] /\ PacketAt(p, c, Len(visited[p]))
  BY <1>2 DEF PacketOK, InFlight
<1>4. at[p] \in Nodes
  BY <1>2, <1>3, ValidPosition DEF PacketAt, HeldBy, InFlight
<1>5. pc'[p] = w
  BY <1>1, <1>2 DEF TypeOK
<1>6. PacketOK(p)'
  <2>1. Through(p, c, Len(visited[p]))'
    BY <1>1, <1>3 DEF PacketAt, Through
  <2>2. PacketAt(p, c, Len(visited[p]))'
    BY <1>1, <1>4, <1>5, <2>1 DEF PacketAt
  <2> QED
    BY <1>1, <1>3, <1>5, <2>2 DEF PacketOK
<1>7. pc' \in [Packets -> {"source"} \cup InFlight \cup Gone]
  BY <1>1, <1>2 DEF TypeOK, Gone
<1>8. \A q \in Packets : q # p => pc'[q] = pc[q]
  BY <1>1, <1>2 DEF TypeOK
<1>9. settled[p] => Installed
  BY PacketFacts
<1>10. /\ at \in [Packets -> Nodes \cup {ZeroAddr}]
       /\ sph \in [Packets -> SPH]
       /\ visited \in [Packets -> Seq(Nodes)]
       /\ settled \in [Packets -> BOOLEAN]
  BY <1>2 DEF TypeOK
<1> QED
  BY <1>1, <1>6, <1>7, <1>8, <1>9, <1>10, PacketStep

\* A packet of no chain is passed on.
LEMMA ClassifyPassIndInv ==
    ASSUME IndInv, NEW p \in Packets, ClassifyPass(p)
    PROVE  IndInv'
<1>1. /\ UNCHANGED <<cfg, nsh_data, fwd_table, todo_fwd, todo_proxy,
                     at, sph, visited, settled>>
      /\ pc' = [pc EXCEPT ![p] = "plain"]
      /\ pc[p] = "source"
  BY DEF ClassifyPass, tables, Move
<1>2. TypeOK /\ PacketOK(p)
  BY PacketFacts DEF IndInv
<1>3. pc'[p] = "plain"
  BY <1>1, <1>2 DEF TypeOK
<1>4. PacketOK(p)'
  BY <1>1, <1>2, <1>3 DEF PacketOK
<1>5. pc' \in [Packets -> {"source"} \cup InFlight \cup Gone]
  BY <1>1, <1>2 DEF TypeOK, Gone
<1>6. \A q \in Packets : q # p => pc'[q] = pc[q]
  BY <1>1, <1>2 DEF TypeOK
<1>7. settled[p] => Installed
  BY PacketFacts
<1>8. /\ at \in [Packets -> Nodes \cup {ZeroAddr}]
      /\ sph \in [Packets -> SPH]
      /\ visited \in [Packets -> Seq(Nodes)]
      /\ settled \in [Packets -> BOOLEAN]
  BY <1>2 DEF TypeOK
<1> QED
  BY <1>1, <1>4, <1>5, <1>6, <1>7, <1>8, PacketStep

\* The steps of a packet that is under way: the place, the address, the header and
\* the history of this packet are all that may change.
LEMMA MoveStep ==
    ASSUME IndInv, NEW p \in Packets,
           NEW w \in InFlight \cup Gone, pc' = [pc EXCEPT ![p] = w],
           NEW a \in Nodes, at' = at \/ at' = [at EXCEPT ![p] = a],
           NEW s \in SPH, sph' = sph \/ sph' = [sph EXCEPT ![p] = s],
           NEW v \in Seq(Nodes), visited' = visited \/ visited' = [visited EXCEPT ![p] = v],
           UNCHANGED <<cfg, nsh_data, fwd_table, todo_fwd, todo_proxy, settled>>,
           PacketOK(p)'
    PROVE  IndInv'
<1>1. TypeOK
  BY DEF IndInv
<1>2. /\ pc \in [Packets -> {"source"} \cup InFlight \cup Gone]
      /\ at \in [Packets -> Nodes \cup {ZeroAddr}]
      /\ sph \in [Packets -> SPH]
      /\ visited \in [Packets -> Seq(Nodes)]
      /\ settled \in [Packets -> BOOLEAN]
  BY <1>1 DEF TypeOK
<1>3. pc' \in [Packets -> {"source"} \cup InFlight \cup Gone]
  BY <1>2
<1>4. at' \in [Packets -> Nodes \cup {ZeroAddr}]
  BY <1>2
<1>5. sph' \in [Packets -> SPH]
  BY <1>2
<1>6. visited' \in [Packets -> Seq(Nodes)]
  BY <1>2
<1>7. \A q \in Packets : q # p =>
          /\ pc'[q] = pc[q] /\ at'[q] = at[q] /\ sph'[q] = sph[q]
          /\ visited'[q] = visited[q] /\ settled'[q] = settled[q]
  BY <1>2
<1>8. settled'[p] => Installed
  BY PacketFacts
<1> QED
  BY <1>2, <1>3, <1>4, <1>5, <1>6, <1>7, <1>8, PacketStep

\* Dec stores the header the packet brought, which is the one its flow has here.
LEMMA DecapNshIndInv ==
    ASSUME IndInv, NEW n \in Nodes, NEW p \in Packets, DecapNsh(n, p)
    PROVE  IndInv'
<1> DEFINE k == Len(visited[p]) + 1
<1>1. /\ pc[p] = "wire" /\ HasIngress(cfg, n) /\ at[p] = n
      /\ nsh_data' = [nsh_data EXCEPT
                        ![n] = MapUpdate(@, NshDataSize, FlowOf[p], sph[p])]
      /\ pc' = [pc EXCEPT ![p] = "sf"]
      /\ UNCHANGED <<cfg, fwd_table, todo_fwd, todo_proxy, at, sph, visited, settled>>
  BY DEF DecapNsh, Move
<1>2. TypeOK /\ NshInv /\ ValidConfig(cfg) /\ PacketOK(p)
  BY CfgValid, PacketFacts DEF IndInv
<1>3. PICK c \in Ids(cfg) :
        FlowOf[p] \in cfg.flows[c] /\ PacketAt(p, c, Len(visited[p]))
  BY <1>1, <1>2 DEF PacketOK
<1>4. /\ k \in 1 .. ChainLen(cfg, c) /\ cfg.chains[c][k] = n
      /\ sph[p] = Reached(c, k)
  BY <1>1, <1>3 DEF PacketAt, HeldBy
<1>5. /\ nsh_data' = [m \in Nodes |-> nsh_data'[m]]
      /\ \A m \in Nodes :
            /\ DOMAIN nsh_data[m] \subseteq DOMAIN nsh_data'[m]
            /\ ~Room(nsh_data[m], NshDataSize) => ~Room(nsh_data'[m], NshDataSize)
            /\ DOMAIN nsh_data'[m] \subseteq Flows
            /\ \A g \in DOMAIN nsh_data'[m] : nsh_data'[m][g] \in SPH
      /\ FlowOf[p] \in DOMAIN nsh_data'[n] \/ ~Room(nsh_data'[n], NshDataSize)
      /\ NshInv'
  <2> HIDE DEF k
  <2> QED
    BY <1>1, <1>2, <1>3, <1>4, NshWrite
<1>6. /\ pc'[p] = "sf" /\ at'[p] = n
      /\ \A q \in Packets : q # p => pc'[q] = pc[q] /\ at'[q] = at[q]
  BY <1>1, <1>2 DEF TypeOK
<1>7. TypeOK'
  <2>1. pc' \in [Packets -> {"source"} \cup InFlight \cup Gone]
    BY <1>1, <1>2 DEF TypeOK, InFlight
  <2>2. at' \in [Packets -> Nodes \cup {ZeroAddr}]
    BY <1>1, <1>2 DEF TypeOK
  <2> QED
    BY <1>1, <1>2, <1>5, <2>1, <2>2 DEF TypeOK
<1>8. FwdInv'
  BY <1>1 DEF IndInv, FwdInv
<1>9. ProxyInv'
  BY <1>1, <1>5 DEF IndInv, ProxyInv
<1>10. SettledInv'
  BY <1>1 DEF IndInv, SettledInv, Installed
<1>11. ASSUME NEW q \in Packets PROVE PacketOK(q)'
  <2>1. CASE q = p
    <3>1. Through(p, c, Len(visited[p]))'
      BY <1>1, <1>3 DEF PacketAt, Through
    <3>2. HeldBy(p, c, Len(visited[p]) + 1)'
      BY <1>1, <1>4, <1>6 DEF HeldBy
    <3>3. Remembered(p)'
      BY <1>1, <1>5, <1>6 DEF Remembered
    <3>4. PacketAt(p, c, Len(visited[p]))'
      BY <1>1, <1>6, <3>1, <3>2, <3>3 DEF PacketAt, Gone
    <3> QED
      BY <1>1, <1>3, <1>6, <2>1, <3>4 DEF PacketOK
  <2>2. CASE q # p
    <3>1. PacketOK(q)
      BY PacketOKs DEF IndInv
    <3> QED
      BY <1>1, <1>2, <1>5, <1>6, <2>2, <3>1, PacketFrame
  <2> QED
    BY <2>1, <2>2
<1>12. (PacketInv /\ BypassCause /\ DropCause)'
  BY <1>11 DEF PacketOK, PacketInv, BypassCause, DropCause
<1> QED
  BY <1>5, <1>7, <1>8, <1>9, <1>10, <1>12 DEF IndInv

\* The function hands the packet to Enc, or to its neighbour over the direct link.
LEMMA ServeIndInv ==
    ASSUME IndInv, NEW p \in Packets, Serve(p)
    PROVE  IndInv'
<1>0. PICK k \in Nat : k = Len(visited[p]) + 1
  BY PacketFacts
<1>1. /\ pc[p] = "sf"
      /\ visited' = [visited EXCEPT ![p] = Append(@, at[p])]
      /\ UNCHANGED <<cfg, nsh_data, fwd_table, todo_fwd, todo_proxy, sph, settled>>
  BY DEF Serve, tables
<1>2. /\ TypeOK /\ ValidConfig(cfg) /\ PacketOK(p)
      /\ visited[p] \in Seq(Nodes) /\ Len(visited[p]) \in Nat
  BY CfgValid, PacketFacts DEF IndInv
<1>3. PICK c \in Ids(cfg) :
        FlowOf[p] \in cfg.flows[c] /\ PacketAt(p, c, Len(visited[p]))
  BY <1>1, <1>2 DEF PacketOK
<1>4. /\ k \in 1 .. ChainLen(cfg, c) /\ at[p] = cfg.chains[c][k] /\ Remembered(p)
      /\ Through(p, c, Len(visited[p]))
  BY <1>0, <1>1, <1>3 DEF PacketAt, HeldBy
<1>5. at[p] \in Nodes /\ ChainLen(cfg, c) \in Nat
  BY <1>2, <1>4, ValidPosition
<1>6. /\ visited'[p] = Append(visited[p], at[p])
      /\ visited'[p] \in Seq(Nodes)
      /\ Len(visited'[p]) = k
  BY <1>0, <1>1, <1>2, <1>5 DEF TypeOK
<1>7. Through(p, c, k)'
  <2>1. \A i \in 1 .. k : visited'[p][i] = cfg.chains[c][i]
    BY <1>0, <1>2, <1>4, <1>5, <1>6 DEF Through
  <2> QED
    BY <1>1, <1>4, <1>5, <1>6, <2>1 DEF Through
<1>8. sph[p] \in SPH
  BY <1>2 DEF TypeOK
<1>9. CASE HasEgress(cfg, at[p])
  <2>1. pc' = [pc EXCEPT ![p] = "encap"] /\ at' = at
    BY <1>9 DEF Serve, Move
  <2>2. pc'[p] = "encap" /\ "encap" \in InFlight
    BY <1>2, <2>1 DEF TypeOK, InFlight
  <2>3. PacketAt(p, c, k)'
    <3>1. HeldBy(p, c, k)'
      BY <1>1, <1>4, <2>1 DEF HeldBy
    <3>2. Remembered(p)'
      BY <1>1, <1>4, <2>1 DEF Remembered
    <3> QED
      BY <1>1, <1>7, <1>9, <2>1, <2>2, <3>1, <3>2 DEF PacketAt, Gone
  <2>4. PacketOK(p)'
    BY <1>1, <1>3, <1>6, <2>2, <2>3 DEF PacketOK
  <2> QED
    BY <1>1, <1>2, <1>5, <1>6, <1>8, <2>1, <2>2, <2>4, MoveStep
<1>10. CASE ~HasEgress(cfg, at[p])
  <2>1. pc' = pc /\ at' = [at EXCEPT ![p] = Peer(cfg, at[p])]
    BY <1>10 DEF Serve
  <2>2. k + 1 \in 1 .. ChainLen(cfg, c) /\ Peer(cfg, at[p]) = cfg.chains[c][k+1]
    BY <1>2, <1>4, <1>10, PeerIsNext
  <2>3. cfg.chains[c][k+1] \in Nodes
    BY <1>2, <2>2, ValidPosition
  <2>4. ~HasIngress(cfg, cfg.chains[c][k+1])
    <3>1. DirectLink(cfg, c, k)
      BY <1>2, <1>4, <1>10, StagesMatchLinks
    <3>2. (k + 1) - 1 = k
      OBVIOUS
    <3>3. DirectLink(cfg, c, (k + 1) - 1)
      BY <3>1, <3>2
    <3> QED
      BY <1>2, <2>2, <3>3, StagesMatchLinks
  <2>5. at'[p] = cfg.chains[c][k+1] /\ pc'[p] = "sf" /\ "sf" \in InFlight
    BY <1>1, <1>2, <2>1, <2>2 DEF TypeOK, InFlight
  <2>6. pc' = [pc EXCEPT ![p] = "sf"]
    BY <1>1, <1>2, <2>1 DEF TypeOK
  <2>7. PacketAt(p, c, k)'
    <3>1. HeldBy(p, c, k + 1)'
      BY <1>1, <2>2, <2>5 DEF HeldBy
    <3>2. Remembered(p)'
      BY <1>1, <2>4, <2>5 DEF Remembered
    <3> QED
      BY <1>1, <1>7, <2>5, <3>1, <3>2 DEF PacketAt, Gone
  <2>8. PacketOK(p)'
    BY <1>1, <1>3, <1>6, <2>5, <2>7 DEF PacketOK
  <2> QED
    BY <1>1, <1>2, <1>6, <1>8, <2>1, <2>2, <2>3, <2>5, <2>6, <2>8, MoveStep
<1> QED
  BY <1>9, <1>10

\* What the entry of fwd_table for a packet's header says, if it is there.
LEMMA FwdLookup ==
    ASSUME IndInv, NEW p \in Packets, NEW c \in Ids(cfg), NEW k,
           HeldBy(p, c, k), HasEgress(cfg, at[p]), sph[p] = Sph(c, k)
    PROVE  /\ sph[p] \in DOMAIN fwd_table[at[p]] =>
                 fwd_table[at[p]][sph[p]] = FwdVal(cfg, c, k)
           /\ settled[p] /\ Room(fwd_table[at[p]], FwdTableSize) =>
                 sph[p] \in DOMAIN fwd_table[at[p]]
<1>1. k \in 1 .. ChainLen(cfg, c) /\ at[p] = cfg.chains[c][k]
  BY DEF HeldBy
<1>2. TypeOK /\ ValidConfig(cfg) /\ FwdInv /\ (settled[p] => Installed)
  BY PacketFacts DEF IndInv
<1>3. at[p] \in Nodes
  BY <1>1, <1>2, ValidPosition
<1>4. ASSUME sph[p] \in DOMAIN fwd_table[at[p]]
      PROVE  fwd_table[at[p]][sph[p]] = FwdVal(cfg, c, k)
  <2> DEFINE r == [key |-> sph[p], val |-> fwd_table[at[p]][sph[p]]]
  <2>1. r \in FwdRules(cfg, at[p])
    BY <1>2, <1>3, <1>4 DEF FwdInv
  <2>2. r.key = Sph(c, k)
    OBVIOUS
  <2>3. r.val = FwdVal(cfg, c, k)
    <3> HIDE DEF r
    <3> QED
      BY <1>1, <1>2, <2>1, <2>2, FwdRuleUnique
  <2> QED
    BY <2>3
<1>5. ASSUME settled[p], Room(fwd_table[at[p]], FwdTableSize)
      PROVE  sph[p] \in DOMAIN fwd_table[at[p]]
  <2> DEFINE r == [key |-> Sph(c, k), val |-> FwdVal(cfg, c, k)]
  <2>1. r \in FwdRules(cfg, at[p])
    BY <1>1, <1>2, FwdRuleWhereEgress
  <2>2. todo_fwd[at[p]] = {}
    BY <1>2, <1>3, <1>5 DEF Installed
  <2>3. r.key \in DOMAIN fwd_table[at[p]]
    BY <1>2, <1>3, <1>5, <2>1, <2>2 DEF FwdInv
  <2> QED
    BY <2>3
<1> QED
  BY <1>4, <1>5

\* Enc sends a packet away only for the two reasons of BypassCause, never finds an
\* exhausted SI, and otherwise holds the key of the packet's position.
LEMMA EncapLookupIndInv ==
    ASSUME IndInv, NEW p \in Packets, EncapLookup(p)
    PROVE  IndInv'
<1>0. PICK k \in Nat : k = Len(visited[p])
  BY PacketFacts
<1>1. /\ pc[p] = "encap"
      /\ UNCHANGED <<cfg, nsh_data, fwd_table, todo_fwd, todo_proxy,
                     at, visited, settled>>
  BY DEF EncapLookup, tables
<1>2. /\ TypeOK /\ ValidConfig(cfg) /\ PacketOK(p) /\ NshInv /\ ProxyInv
      /\ visited[p] \in Seq(Nodes) /\ (settled[p] => Installed)
  BY PacketFacts DEF IndInv
<1>3. PICK c \in Ids(cfg) : FlowOf[p] \in cfg.flows[c] /\ PacketAt(p, c, k)
  BY <1>0, <1>1, <1>2 DEF PacketOK
<1>4. /\ k \in 1 .. ChainLen(cfg, c) /\ at[p] = cfg.chains[c][k]
      /\ HasEgress(cfg, at[p]) /\ Remembered(p) /\ Through(p, c, k)
  BY <1>1, <1>3 DEF PacketAt, HeldBy
<1>5. /\ at[p] \in Nodes /\ c \in SPIs /\ k \in Positions
      /\ \A d \in Ids(cfg) : ChainLen(cfg, d) \in Nat
  BY <1>2, <1>4, ValidPosition, ChainLenNat
<1>6. Through(p, c, k)' /\ Len(visited'[p]) = k
  BY <1>0, <1>1, <1>4 DEF Through
<1>7. sph[p] \in SPH
  BY <1>2 DEF TypeOK
<1>8. CASE FlowOf[p] \notin DOMAIN nsh_data[at[p]]
  <2>1. pc' = [pc EXCEPT ![p] = "bypass"] /\ sph' = sph
    BY <1>8 DEF EncapLookup, Move
  <2>2. pc'[p] = "bypass" /\ "bypass" \in Gone
    BY <1>2, <2>1 DEF TypeOK, Gone
  <2>3. ~Room(nsh_data[at[p]], NshDataSize) \/ (~HasIngress(cfg, at[p]) /\ ~settled[p])
    <3>1. CASE HasIngress(cfg, at[p])
      BY <1>4, <1>8, <3>1 DEF Remembered
    <3>2. CASE ~HasIngress(cfg, at[p]) /\ settled[p]
      <4>1. PICK r \in SentProxyRules(cfg, at[p]) : r.key = FlowOf[p]
        BY <1>2, <1>3, <1>4, <3>2, ProxyRuleWhereNoIngress
      <4>2. todo_proxy[at[p]] = {}
        BY <1>2, <1>5, <3>2 DEF Installed
      <4> QED
        BY <1>2, <1>5, <1>8, <4>1, <4>2 DEF ProxyInv
    <3> QED
      BY <3>1, <3>2
  <2>4. PacketAt(p, c, k)'
    BY <1>1, <1>5, <1>6, <2>2 DEF PacketAt
  <2>5. PacketOK(p)'
    BY <1>1, <1>3, <1>6, <2>2, <2>3, <2>4 DEF PacketOK
  <2> QED
    BY <1>1, <1>2, <1>5, <1>7, <2>1, <2>2, <2>5, MoveStep
<1>9. CASE FlowOf[p] \in DOMAIN nsh_data[at[p]]
  <2> DEFINE s == nsh_data[at[p]][FlowOf[p]]
  <2>1. s = Reached(c, k)
    BY <1>2, <1>3, <1>4, <1>5, <1>9, StoredHeader
  <2>2. s.si # 0 /\ [s EXCEPT !.si = @ - 1] = Sph(c, k) /\ Sph(c, k) \in SPH
    BY <1>5, <2>1, SphValue
  <2>3. pc' = [pc EXCEPT ![p] = "route"] /\ sph' = [sph EXCEPT ![p] = Sph(c, k)]
    BY <1>9, <2>2 DEF EncapLookup, Move, SiExhausted
  <2>4. pc'[p] = "route" /\ "route" \in InFlight /\ sph'[p] = Sph(c, k)
    BY <1>2, <2>3 DEF TypeOK, InFlight
  <2>5. HeldBy(p, c, k)'
    BY <1>1, <1>4 DEF HeldBy
  <2>6. PacketAt(p, c, k)'
    BY <1>1, <1>4, <1>6, <2>4, <2>5 DEF PacketAt, Gone
  <2>7. PacketOK(p)'
    BY <1>1, <1>3, <1>6, <2>4, <2>6 DEF PacketOK
  <2> QED
    BY <1>1, <1>2, <1>5, <2>2, <2>3, <2>4, <2>7, MoveStep
<1> QED
  BY <1>8, <1>9

\* Enc ends the chain exactly at its last function.
LEMMA EncapRouteIndInv ==
    ASSUME IndInv, NEW p \in Packets, EncapRoute(p)
    PROVE  IndInv'
<1> DEFINE t == fwd_table[at[p]]
<1>0. PICK k \in Nat : k = Len(visited[p])
  BY PacketFacts
<1>1. /\ pc[p] = "route"
      /\ UNCHANGED <<cfg, nsh_data, fwd_table, todo_fwd, todo_proxy,
                     at, sph, visited, settled>>
  BY DEF EncapRoute, tables
<1>2. TypeOK /\ ValidConfig(cfg) /\ PacketOK(p) /\ visited[p] \in Seq(Nodes)
  BY PacketFacts DEF IndInv
<1>3. PICK c \in Ids(cfg) : FlowOf[p] \in cfg.flows[c] /\ PacketAt(p, c, k)
  BY <1>0, <1>1, <1>2 DEF PacketOK
<1>4. /\ HeldBy(p, c, k) /\ HasEgress(cfg, at[p])
      /\ sph[p] = Sph(c, k) /\ Through(p, c, k)
  BY <1>1, <1>3 DEF PacketAt
<1>5. at[p] \in Nodes /\ ChainLen(cfg, c) \in Nat /\ k <= ChainLen(cfg, c)
  BY <1>2, <1>4, ValidPosition DEF HeldBy, Through
<1>6. Through(p, c, k)' /\ HeldBy(p, c, k)' /\ Len(visited'[p]) = k
  BY <1>0, <1>1, <1>4 DEF Through, HeldBy
<1>7. sph[p] \in SPH
  BY <1>2 DEF TypeOK
<1>8. /\ sph[p] \in DOMAIN t => t[sph[p]] = FwdVal(cfg, c, k)
      /\ settled[p] /\ Room(t, FwdTableSize) => sph[p] \in DOMAIN t
  BY <1>4, FwdLookup
<1>9. FwdVal(cfg, c, k).end <=> k = ChainLen(cfg, c)
  BY DEF FwdVal
<1>10. ASSUME NEW w \in InFlight \cup Gone, pc' = [pc EXCEPT ![p] = w],
              PacketAt(p, c, k)', w \in {"ended", "forward", "lost"}
       PROVE  IndInv'
  <2>1. pc'[p] = w
    BY <1>2, <1>10 DEF TypeOK
  <2>2. PacketOK(p)'
    BY <1>1, <1>3, <1>6, <1>10, <2>1 DEF PacketOK
  <2> QED
    BY <1>1, <1>2, <1>5, <1>7, <1>10, <2>2, MoveStep
<1>11. CASE pc' = [pc EXCEPT ![p] = "ended"] /\ sph[p] \in DOMAIN t /\ t[sph[p]].end
  <2>1. pc'[p] = "ended" /\ "ended" \in Gone
    BY <1>2, <1>11 DEF TypeOK, Gone
  <2>2. PacketAt(p, c, k)'
    BY <1>1, <1>5, <1>6, <1>8, <1>9, <1>11, <2>1 DEF PacketAt
  <2> QED
    BY <1>10, <1>11, <2>1, <2>2
<1>12. CASE pc' = [pc EXCEPT ![p] = "lost"]
  <2>1. pc'[p] = "lost" /\ "lost" \in Gone
    BY <1>2, <1>12 DEF TypeOK, Gone
  <2>2. PacketAt(p, c, k)'
    BY <1>1, <1>5, <1>6, <2>1 DEF PacketAt
  <2> QED
    BY <1>10, <1>12, <2>1, <2>2
<1>13. CASE /\ pc' = [pc EXCEPT ![p] = "forward"]
            /\ ~(sph[p] \in DOMAIN t /\ t[sph[p]].end)
  <2>1. pc'[p] = "forward" /\ "forward" \in InFlight
    BY <1>2, <1>13 DEF TypeOK, InFlight
  <2>2. settled[p] /\ Room(t, FwdTableSize) => k < ChainLen(cfg, c)
    BY <1>5, <1>8, <1>9, <1>13
  <2>3. PacketAt(p, c, k)'
    BY <1>1, <1>4, <1>6, <2>1, <2>2 DEF PacketAt, Gone
  <2> QED
    BY <1>10, <1>13, <2>1, <2>3
<1> QED
  BY <1>11, <1>12, <1>13 DEF EncapRoute, Move

\* Fwd sends a packet on to the next function, and drops it only for the reasons of
\* DropCause.
LEMMA SfcForwardingIndInv ==
    ASSUME IndInv, NEW p \in Packets, SfcForwarding(p)
    PROVE  IndInv'
<1> DEFINE t == fwd_table[at[p]]
<1>0. PICK k \in Nat : k = Len(visited[p])
  BY PacketFacts
<1>1. /\ pc[p] = "forward"
      /\ UNCHANGED <<cfg, nsh_data, fwd_table, todo_fwd, todo_proxy,
                     sph, visited, settled>>
  BY DEF SfcForwarding, tables
<1>2. TypeOK /\ ValidConfig(cfg) /\ PacketOK(p) /\ visited[p] \in Seq(Nodes)
  BY PacketFacts DEF IndInv
<1>3. PICK c \in Ids(cfg) : FlowOf[p] \in cfg.flows[c] /\ PacketAt(p, c, k)
  BY <1>0, <1>1, <1>2 DEF PacketOK
<1>4. /\ HeldBy(p, c, k) /\ HasEgress(cfg, at[p])
      /\ sph[p] = Sph(c, k) /\ Through(p, c, k)
      /\ settled[p] /\ Room(t, FwdTableSize) => k < ChainLen(cfg, c)
  BY <1>1, <1>3 DEF PacketAt
<1>5. /\ at[p] \in Nodes /\ ChainLen(cfg, c) \in Nat
      /\ c \in SPIs /\ k \in Positions
      /\ k \in 1 .. ChainLen(cfg, c) /\ at[p] = cfg.chains[c][k]
  BY <1>2, <1>4, ValidPosition DEF HeldBy
<1>6. Through(p, c, k)' /\ Len(visited'[p]) = k
  BY <1>0, <1>1, <1>4 DEF Through
<1>7. sph[p] \in SPH
  BY <1>2 DEF TypeOK
<1>8. /\ sph[p] \in DOMAIN t => t[sph[p]] = FwdVal(cfg, c, k)
      /\ settled[p] /\ Room(t, FwdTableSize) => sph[p] \in DOMAIN t
  BY <1>4, FwdLookup
<1>9. FwdVal(cfg, c, k).end <=> k = ChainLen(cfg, c)
  BY DEF FwdVal
<1>10. CASE \/ pc' = [pc EXCEPT ![p] = "no_rule"] /\ sph[p] \notin DOMAIN t /\ at' = at
            \/ /\ pc' = [pc EXCEPT ![p] = "second_end"] /\ at' = at
               /\ sph[p] \in DOMAIN t /\ t[sph[p]].end
  <2>1. PICK w \in {"no_rule", "second_end"} : pc' = [pc EXCEPT ![p] = w]
    BY <1>10
  <2>2. pc'[p] = w /\ w \in Gone /\ at' = at
    BY <1>2, <1>10, <2>1 DEF TypeOK, Gone
  <2>3. ~settled[p] \/ ~Room(t, FwdTableSize)
    BY <1>4, <1>5, <1>8, <1>9, <1>10
  <2>4. PacketAt(p, c, k)'
    BY <1>1, <1>5, <1>6, <2>2 DEF PacketAt
  <2>5. PacketOK(p)'
    BY <1>1, <1>3, <1>6, <2>2, <2>3, <2>4 DEF PacketOK
  <2> QED
    BY <1>1, <1>2, <1>5, <1>7, <2>1, <2>2, <2>5, MoveStep
<1>11. CASE /\ sph[p] \in DOMAIN t /\ ~t[sph[p]].end
            /\ pc' = [pc EXCEPT ![p] = "wire"]
            /\ at' = [at EXCEPT ![p] = t[sph[p]].addr]
  <2>1. k # ChainLen(cfg, c) /\ t[sph[p]] = FwdVal(cfg, c, k)
    BY <1>8, <1>9, <1>11
  <2>2. k + 1 \in 1 .. ChainLen(cfg, c)
    BY <1>5, <2>1
  <2>3. cfg.chains[c][k+1] \in Nodes
    BY <1>2, <2>2, ValidPosition
  <2>4. HasIngress(cfg, cfg.chains[c][k+1])
    <3>1. ~DirectLink(cfg, c, k)
      BY <1>2, <1>4, <1>5, StagesMatchLinks
    <3>2. (k + 1) - 1 = k
      OBVIOUS
    <3>3. ~DirectLink(cfg, c, (k + 1) - 1)
      BY <3>1, <3>2
    <3> QED
      BY <1>2, <2>2, <3>3, StagesMatchLinks
  <2>5. t[sph[p]].addr = cfg.chains[c][k+1]
    BY <2>1, <2>4 DEF FwdVal, HelloAddress
  <2>6. sph[p] = Reached(c, k + 1)
    BY <1>4, <1>5, SphValue
  <2>7. pc'[p] = "wire" /\ "wire" \in InFlight /\ at'[p] = cfg.chains[c][k+1]
    BY <1>2, <1>11, <2>5 DEF TypeOK, InFlight
  <2>8. HeldBy(p, c, k + 1)'
    BY <1>1, <2>2, <2>7 DEF HeldBy
  <2>9. PacketAt(p, c, k)'
    BY <1>1, <1>6, <2>4, <2>6, <2>7, <2>8 DEF PacketAt, Gone
  <2>10. PacketOK(p)'
    BY <1>1, <1>3, <1>6, <2>7, <2>9 DEF PacketOK
  <2> QED
    BY <1>1, <1>2, <1>7, <1>11, <2>3, <2>5, <2>7, <2>10, MoveStep
<1> QED
  BY <1>10, <1>11 DEF SfcForwarding, Move

\* Every step preserves the invariant.
LEMMA NextIndInv == IndInv /\ [Next]_vars => IndInv'
<1> SUFFICES ASSUME IndInv, [Next]_vars PROVE IndInv'
  OBVIOUS
<1>1. ASSUME NEW n \in Nodes, Install(n) PROVE IndInv'
  BY <1>1, AddFwdRuleIndInv, AddProxyRuleIndInv DEF Install
<1>2. ASSUME NEW p \in Packets, ClassifyMatch(p) PROVE IndInv'
  BY <1>2, ClassifyMatchIndInv
<1>3. ASSUME NEW p \in Packets, ClassifyPass(p) PROVE IndInv'
  BY <1>3, ClassifyPassIndInv
<1>4. ASSUME NEW p \in Packets, Process(p) PROVE IndInv'
  BY <1>4, DecapNshIndInv, ServeIndInv, EncapLookupIndInv, EncapRouteIndInv,
     SfcForwardingIndInv DEF Process
<1>5. ASSUME NEW p \in Packets, Consume(p) PROVE IndInv'
  BY <1>5, GoneIndInv DEF Consume, InFlight
<1>6. ASSUME NEW p \in Packets, Lose(p) PROVE IndInv'
  BY <1>6, GoneIndInv DEF Lose, InFlight
<1>7. CASE UNCHANGED vars
  <2>1. UNCHANGED <<cfg, nsh_data, fwd_table, todo_fwd, todo_proxy,
                    pc, at, sph, visited, settled>>
    BY <1>7 DEF vars, tables, packet
  <2>2. (TypeOK /\ NshInv /\ FwdInv /\ ProxyInv /\ SettledInv)'
    BY <2>1 DEF IndInv, TypeOK, NshInv, FwdInv, ProxyInv, SettledInv, Installed
  <2>3. (PacketInv /\ BypassCause /\ DropCause)'
    BY <2>1 DEF IndInv, PacketInv, BypassCause, DropCause, PacketAt, Through,
                Remembered, HeldBy
  <2> QED
    BY <2>2, <2>3 DEF IndInv
<1> QED
  BY <1>1, <1>2, <1>3, <1>4, <1>5, <1>6, <1>7 DEF Next

\* A rule that was installed before finds the map as it would leave it.
LEMMA InstalledFwdRule ==
    ASSUME TypeOK, FwdInv, NEW n \in Nodes, NEW r \in FwdRules(cfg, n) \ todo_fwd[n]
    PROVE  /\ r.key \in DOMAIN fwd_table[n] \/ ~Room(fwd_table[n], FwdTableSize)
           /\ r.key \in DOMAIN fwd_table[n] => fwd_table[n][r.key] = r.val
<1>1. r.key \in DOMAIN fwd_table[n] \/ ~Room(fwd_table[n], FwdTableSize)
  BY DEF FwdInv
<1>2. ASSUME r.key \in DOMAIN fwd_table[n]
      PROVE  fwd_table[n][r.key] = r.val
  <2> DEFINE s == [key |-> r.key, val |-> fwd_table[n][r.key]]
  <2>1. s \in FwdRules(cfg, n) /\ s.key = r.key /\ s.val = fwd_table[n][r.key]
    BY <1>2 DEF FwdInv
  <2> HIDE DEF s
  <2> QED
    BY <2>1, CfgValid, FwdRulesAgree
<1> QED
  BY <1>1, <1>2

\* A proxy rule that is no longer to be installed is in nsh_data with its own header,
\* or met a full map.
LEMMA InstalledProxyRule ==
    ASSUME TypeOK, NshInv, ProxyInv,
           NEW n \in Nodes, NEW r \in SentProxyRules(cfg, n) \ todo_proxy[n]
    PROVE  /\ r.key \in DOMAIN nsh_data[n] \/ ~Room(nsh_data[n], NshDataSize)
           /\ r.key \in DOMAIN nsh_data[n] => nsh_data[n][r.key] = r.val
<1>1. r.key \in DOMAIN nsh_data[n] \/ ~Room(nsh_data[n], NshDataSize)
  BY DEF ProxyInv
<1>2. r \in ProxyRules(cfg, n)
  BY DEF SentProxyRules
<1>3. PICK c \in Ids(cfg) : \E k \in 1 .. ChainLen(cfg, c) :
        r.key \in cfg.flows[c] /\ cfg.chains[c][k] = n /\ r.val = Reached(c, k)
  BY <1>2, CfgValid, ProxyRuleValue
<1>4. PICK k \in 1 .. ChainLen(cfg, c) :
        r.key \in cfg.flows[c] /\ cfg.chains[c][k] = n /\ r.val = Reached(c, k)
  BY <1>3
<1>5. r.key \in DOMAIN nsh_data[n] => nsh_data[n][r.key] = r.val
  BY <1>4, StoredHeader
<1> QED
  BY <1>1, <1>5

\* A packet at a hook is at a node.
LEMMA HeldInNodes ==
    ASSUME IndInv, NEW p \in Packets, pc[p] \in {"encap", "route", "forward"}
    PROVE  at[p] \in Nodes
<1>1. PICK c \in Ids(cfg) : PacketAt(p, c, Len(visited[p]))
  BY PacketFacts DEF PacketOK
<1> QED
  BY <1>1, PacketFacts, ValidPosition DEF PacketAt, HeldBy

\* So is one that left the chain.
LEMMA GoneInNodes ==
    ASSUME IndInv, NEW p \in Packets, pc[p] \in Gone \ {"plain"}
    PROVE  at[p] \in Nodes
<1>1. PICK c \in Ids(cfg) : PacketAt(p, c, Len(visited[p]))
  BY PacketFacts DEF PacketOK, Gone
<1> QED
  BY <1>1 DEF PacketAt

\* What the invariant says of the functions a packet has been through.
LEMMA InvariantOrders == IndInv => InOrder
<1> SUFFICES ASSUME IndInv PROVE InOrder
  OBVIOUS
<1> SUFFICES ASSUME NEW p \in Packets
             PROVE  /\ ChainsOf(FlowOf[p]) = {} => visited[p] = <<>>
                    /\ \A c \in ChainsOf(FlowOf[p]) :
                          /\ Len(visited[p]) <= ChainLen(cfg, c)
                          /\ \A i \in 1 .. Len(visited[p]) :
                                visited[p][i] = cfg.chains[c][i]
  BY DEF InOrder
<1>1. ValidConfig(cfg) /\ PacketOK(p)
  BY PacketFacts
<1>2. CASE pc[p] \in {"source", "plain"}
  <2>1. visited[p] = <<>>
    BY <1>1, <1>2 DEF PacketOK
  <2>2. \A c \in Ids(cfg) : ChainLen(cfg, c) \in Nat
    BY <1>1, ChainLenNat
  <2> QED
    BY <2>1, <2>2 DEF ChainsOf
<1>3. CASE pc[p] \notin {"source", "plain"}
  <2>1. PICK c \in Ids(cfg) :
          FlowOf[p] \in cfg.flows[c] /\ PacketAt(p, c, Len(visited[p]))
    BY <1>1, <1>3 DEF PacketOK
  <2>2. \A d \in ChainsOf(FlowOf[p]) : d = c
    BY <1>1, <2>1 DEF ChainsOf, ValidConfig, FlowsDisjoint
  <2>3. c \in ChainsOf(FlowOf[p])
    BY <2>1 DEF ChainsOf
  <2>4. Through(p, c, Len(visited[p]))
    BY <2>1 DEF PacketAt
  <2> QED
    BY <2>2, <2>3, <2>4 DEF Through
<1> QED
  BY <1>2, <1>3

\* A packet that left at the end of its chain has been through all of it.
LEMMA InvariantCompletes == IndInv => EndedComplete
<1> SUFFICES ASSUME IndInv PROVE EndedComplete
  OBVIOUS
<1> SUFFICES ASSUME NEW p \in Packets, pc[p] = "ended",
                    NEW c \in ChainsOf(FlowOf[p])
             PROVE  Len(visited[p]) = ChainLen(cfg, c)
  BY DEF EndedComplete
<1>1. ValidConfig(cfg) /\ PacketOK(p)
  BY PacketFacts
<1>2. PICK d \in Ids(cfg) :
        FlowOf[p] \in cfg.flows[d] /\ PacketAt(p, d, Len(visited[p]))
  BY <1>1 DEF PacketOK
<1>3. c = d
  BY <1>1, <1>2 DEF ChainsOf, ValidConfig, FlowsDisjoint
<1> QED
  BY <1>2, <1>3 DEF PacketAt

-----------------------------------------------------------------------------
(***************************************************************************)
(* The theorems.                                                           *)
(***************************************************************************)

\* IndInv holds in every reachable state.
THEOREM Inductive == Spec => []IndInv
<1>1. Init => IndInv
  BY InitIndInv
<1>2. IndInv /\ [Next]_vars => IndInv'
  BY NextIndInv
<1> QED
  BY <1>1, <1>2, PTL DEF Spec

\* The maps and the frames keep their shape; in particular no SPH the stages compute
\* leaves its 24 + 8 bits.
THEOREM TypeCorrect == Spec => []TypeOK
<1>1. IndInv => TypeOK
  BY DEF IndInv
<1> QED
  BY <1>1, Inductive, PTL

\* No stage ever sends a packet to a wrong function, whatever the number of nodes,
\* chains and packets and whatever the order of packets and installation steps.
THEOREM ChainOrder == Spec => []InOrder
BY InvariantOrders, Inductive, PTL

\* A packet that leaves as "End of chain" has been through the whole chain.
THEOREM ChainComplete == Spec => []EndedComplete
BY InvariantCompletes, Inductive, PTL

\* Packets leave the chain early only where nsh_data is full or before the proxy rules
\* are there.
THEOREM EarlyExit == Spec => []BypassCause
<1>1. IndInv => BypassCause
  BY DEF IndInv
<1> QED
  BY <1>1, Inductive, PTL

\* The stages drop packets only where fwd_table is full or for packets classified
\* before the installation was complete, and the SI never runs out.
THEOREM Drops == Spec => []DropCause
<1>1. IndInv => DropCause
  BY DEF IndInv
<1> QED
  BY <1>1, Inductive, PTL

\* No step of a stage or of an agent changes a stored header.
LEMMA NextNshStep ==
    ASSUME IndInv, [Next]_vars
    PROVE  NshStep \/ UNCHANGED vars
<1>1. ASSUME nsh_data' = nsh_data PROVE NshStep
  BY <1>1 DEF NshStep
<1>2. TypeOK /\ NshInv /\ ValidConfig(cfg)
  BY CfgValid DEF IndInv
<1>3. ASSUME NEW n \in Nodes, AddProxyRule(n) PROVE NshStep
  <2>1. PICK r \in todo_proxy[n] :
          /\ nsh_data' = [nsh_data EXCEPT
                              ![n] = MapUpdate(@, NshDataSize, r.key, r.val)]
          /\ cfg' = cfg
    BY <1>3 DEF AddProxyRule
  <2>2. r \in ProxyRules(cfg, n)
    BY <1>2 DEF TypeOK
  <2>3. PICK c \in Ids(cfg) : \E k \in 1 .. ChainLen(cfg, c) :
          r.key \in cfg.flows[c] /\ cfg.chains[c][k] = n /\ r.val = Reached(c, k)
    BY <1>2, <2>2, ProxyRuleValue
  <2>4. PICK k \in 1 .. ChainLen(cfg, c) :
          r.key \in cfg.flows[c] /\ cfg.chains[c][k] = n /\ r.val = Reached(c, k)
    BY <2>3
  <2> QED
    BY <1>2, <2>1, <2>4, NshWrite
<1>4. ASSUME NEW n \in Nodes, NEW p \in Packets, DecapNsh(n, p) PROVE NshStep
  <2>0. PICK k \in Nat : k = Len(visited[p]) + 1
    BY PacketFacts
  <2>1. /\ pc[p] = "wire" /\ cfg' = cfg
        /\ nsh_data' = [nsh_data EXCEPT
                            ![n] = MapUpdate(@, NshDataSize, FlowOf[p], sph[p])]
        /\ at[p] = n
    BY <1>4 DEF DecapNsh
  <2>2. PacketOK(p)
    BY PacketFacts
  <2>3. PICK c \in Ids(cfg) :
          FlowOf[p] \in cfg.flows[c] /\ PacketAt(p, c, Len(visited[p]))
    BY <2>1, <2>2 DEF PacketOK
  <2>4. /\ k \in 1 .. ChainLen(cfg, c) /\ cfg.chains[c][k] = n
        /\ sph[p] = Reached(c, k)
    BY <2>0, <2>1, <2>3 DEF PacketAt, HeldBy
  <2> QED
    BY <1>2, <2>1, <2>3, <2>4, NshWrite
<1>5. ASSUME NEW n \in Nodes, AddFwdRule(n) PROVE NshStep
  BY <1>1, <1>5 DEF AddFwdRule
<1>6. ASSUME NEW p \in Packets,
             \/ ClassifyMatch(p) \/ ClassifyPass(p) \/ Serve(p) \/ EncapLookup(p)
             \/ EncapRoute(p) \/ SfcForwarding(p) \/ Consume(p) \/ Lose(p)
      PROVE  NshStep
  BY <1>1, <1>6 DEF ClassifyMatch, ClassifyPass, Serve, EncapLookup, EncapRoute,
                    SfcForwarding, Consume, Lose, tables
<1> QED
  BY <1>3, <1>4, <1>5, <1>6 DEF Next, Install, Process

\* Packets of the same flow and proxy rules write the same header: what Dec or an
\* agent has stored stays what it is.
THEOREM HeadersStable == Spec => NshStable
<1>1. IndInv /\ [Next]_vars => [NshStep]_vars
  BY NextNshStep
<1> QED
  BY <1>1, Inductive, PTL DEF Spec, NshStable

-----------------------------------------------------------------------------
(***************************************************************************)
(* DataPlane implements ServiceChain whenever the two maps have room for   *)
(* every flow and for every rule of a node.                                *)
(***************************************************************************)

\* The maps are larger than what a configuration puts into them.
Ample ==
    /\ IsFiniteSet(Flows)
    /\ Cardinality(Flows) < NshDataSize
    /\ \A c \in Configs : \A n \in Nodes :
          /\ IsFiniteSet({ r.key : r \in FwdRules(c, n) })
          /\ Cardinality({ r.key : r \in FwdRules(c, n) }) < FwdTableSize

\* The state of the abstract chain.
Route == [p \in Packets |-> RouteIn(cfg, FlowOf[p])]
State == [p \in Packets |-> AbstractState(pc[p])]

\* With ample maps no update fails.
LEMMA AlwaysRoom ==
    ASSUME Ample, IndInv, NEW n \in Nodes
    PROVE  Room(nsh_data[n], NshDataSize) /\ Room(fwd_table[n], FwdTableSize)
<1>1. TypeOK /\ FwdInv
  BY DEF IndInv
<1>2. NshDataSize \in Nat /\ FwdTableSize \in Nat
  BY DataPlaneAssumption
<1>3. Room(nsh_data[n], NshDataSize)
  <2>1. DOMAIN nsh_data[n] \subseteq Flows
    BY <1>1 DEF TypeOK
  <2>2. /\ Cardinality(DOMAIN nsh_data[n]) <= Cardinality(Flows)
        /\ Cardinality(DOMAIN nsh_data[n]) \in Nat
        /\ Cardinality(Flows) \in Nat /\ Cardinality(Flows) < NshDataSize
    BY <2>1, FS_Subset, FS_CardinalityType DEF Ample
  <2> QED
    BY <1>2, <2>2 DEF Room
<1>4. Room(fwd_table[n], FwdTableSize)
  <2> DEFINE S == { r.key : r \in FwdRules(cfg, n) }
  <2>1. DOMAIN fwd_table[n] \subseteq S
    <3> SUFFICES ASSUME NEW s \in DOMAIN fwd_table[n] PROVE s \in S
      OBVIOUS
    <3>1. [key |-> s, val |-> fwd_table[n][s]] \in FwdRules(cfg, n)
      BY <1>1 DEF FwdInv
    <3>2. [key |-> s, val |-> fwd_table[n][s]].key = s
      OBVIOUS
    <3> QED
      BY <3>1, <3>2
  <2>2. IsFiniteSet(S) /\ Cardinality(S) < FwdTableSize
    BY <1>1 DEF Ample, TypeOK
  <2> HIDE DEF S
  <2>3. /\ Cardinality(DOMAIN fwd_table[n]) <= Cardinality(S)
        /\ Cardinality(DOMAIN fwd_table[n]) \in Nat
        /\ Cardinality(S) \in Nat
    BY <2>1, <2>2, FS_Subset, FS_CardinalityType
  <2> QED
    BY <1>2, <2>2, <2>3 DEF Room
<1> QED
  BY <1>3, <1>4

\* The route of a packet is its chain.
LEMMA RouteFacts ==
    ASSUME ValidConfig(cfg), NEW f
    PROVE  /\ RouteIn(cfg, f) \in Seq(Nodes)
           /\ ChainsOf(f) = {} => RouteIn(cfg, f) = <<>>
           /\ \A c \in Ids(cfg) : f \in cfg.flows[c] => RouteIn(cfg, f) = cfg.chains[c]
<1> DEFINE own == { c \in Ids(cfg) : f \in cfg.flows[c] }
<1>1. RouteIn(cfg, f) = IF own = {} THEN <<>> ELSE cfg.chains[CHOOSE c \in own : TRUE]
  BY DEF RouteIn
<1>2. ChainsOf(f) = own
  BY DEF ChainsOf
<1>3. ASSUME NEW c \in own PROVE RouteIn(cfg, f) = cfg.chains[c]
  <2>1. (CHOOSE d \in own : TRUE) \in own
    <3> HIDE DEF own
    <3> QED BY <1>3
  <2>2. (CHOOSE d \in own : TRUE) = c
    BY <1>3, <2>1 DEF ValidConfig, FlowsDisjoint
  <2> QED
    BY <1>1, <1>3, <2>2
<1>4. \A c \in own : cfg.chains[c] \in Seq(Nodes)
  BY DEF ValidConfig, WellFormed
<1>5. own = {} => RouteIn(cfg, f) = <<>> /\ <<>> \in Seq(Nodes)
  BY <1>1
<1> QED
  BY <1>2, <1>3, <1>4, <1>5

\* The abstract state of each place.
LEMMA AbstractStates ==
    /\ AbstractState("source") = "outside"
    /\ \A w \in InFlight : AbstractState(w) = "inside"
    /\ AbstractState("plain") = "passed"
    /\ AbstractState("ended") = "delivered"
    /\ AbstractState("bypass") = "bypassed"
    /\ \A w \in {"no_rule", "second_end", "si_zero"} : AbstractState(w) = "refused"
    /\ \A w \in {"consumed", "lost"} : AbstractState(w) = "dropped"
BY DEF AbstractState, InFlight

\* Moving a packet moves it in the abstract chain.
LEMMA StateMove ==
    ASSUME TypeOK, NEW p \in Packets, NEW w, pc' = [pc EXCEPT ![p] = w]
    PROVE  State' = [State EXCEPT ![p] = AbstractState(w)]
<1>1. \A q \in Packets : pc'[q] = IF q = p THEN w ELSE pc[q]
  BY DEF TypeOK
<1>2. State' = [q \in Packets |-> AbstractState(pc'[q])]
  BY DEF State
<1>3. \A q \in Packets : AbstractState(pc'[q]) =
            IF q = p THEN AbstractState(w) ELSE AbstractState(pc[q])
  BY <1>1
<1>4. State' = [q \in Packets |-> IF q = p THEN AbstractState(w) ELSE AbstractState(pc[q])]
  BY <1>2, <1>3
<1> QED
  BY <1>4 DEF State

\* A rule is installed: the last one makes the chain ready.
LEMMA InstallRefines ==
    ASSUME IndInv, NEW n \in Nodes, Install(n)
    PROVE  Chain!Next \/ UNCHANGED Chain!vars
<1>1. UNCHANGED <<cfg, pc, visited, settled>>
  BY DEF Install, AddFwdRule, AddProxyRule, packet
<1>2. ~Installed
  BY DEF Install, AddFwdRule, AddProxyRule, Installed
<1>3. Route' = Route /\ State' = State
  BY <1>1 DEF Route, State
<1>4. CASE Installed'
  <2>1. Installed' = TRUE
    BY <1>4 DEF Installed
  <2>2. Chain!BecomeReady
    BY <1>1, <1>2, <1>3, <2>1 DEF Chain!BecomeReady, Route, State
  <2> QED
    BY <2>2 DEF Chain!Next
<1>5. CASE ~Installed'
  <2>1. Installed' = Installed
    BY <1>2, <1>5 DEF Installed
  <2> QED
    BY <1>1, <1>3, <2>1 DEF Chain!vars, Route, State
<1> QED
  BY <1>4, <1>5

\* A packet that only changes its place inside the chain is not seen to move.
LEMMA InsideStutters ==
    ASSUME IndInv, NEW p \in Packets, NEW w \in InFlight, pc[p] \in InFlight,
           pc' = [pc EXCEPT ![p] = w],
           UNCHANGED <<cfg, todo_fwd, todo_proxy, visited, settled>>
    PROVE  UNCHANGED Chain!vars
<1>1. Route' = Route
  BY DEF Route
<1>2. State' = State
  <2>1. TypeOK
    BY DEF IndInv
  <2>2. State' = [State EXCEPT ![p] = AbstractState(w)]
    BY <2>1, StateMove
  <2>3. State[p] = AbstractState(w)
    BY AbstractStates DEF State
  <2> QED
    BY <2>2, <2>3 DEF State
<1>3. Installed' = Installed
  BY DEF Installed
<1> QED
  BY <1>1, <1>2, <1>3 DEF Chain!vars, Route, State

\* A packet leaves the chain.
LEMMA FinishRefines ==
    ASSUME IndInv, NEW p \in Packets, NEW w \in Gone, pc[p] \in InFlight,
           pc' = [pc EXCEPT ![p] = w],
           UNCHANGED <<cfg, todo_fwd, todo_proxy, visited, settled>>
    PROVE  Chain!Finish(p, AbstractState(w))
<1>1. Route' = Route
  BY DEF Route
<1>2. State' = [State EXCEPT ![p] = AbstractState(w)]
  BY StateMove DEF IndInv
<1>3. State[p] = "inside"
  BY AbstractStates DEF State
<1>4. Installed' = Installed
  BY DEF Installed
<1> QED
  BY <1>1, <1>2, <1>3, <1>4 DEF Chain!Finish, Route, State

\* The classifier lets a packet in.
LEMMA EnterRefines ==
    ASSUME IndInv, NEW p \in Packets, ClassifyMatch(p)
    PROVE  Chain!Enter(p)
<1>1. /\ UNCHANGED <<cfg, todo_fwd, todo_proxy, visited>>
      /\ pc' = [pc EXCEPT ![p] = "wire"] /\ pc[p] = "source"
      /\ settled' = [settled EXCEPT ![p] = Installed]
  BY DEF ClassifyMatch, Move, tables
<1>2. PICK c \in Ids(cfg) : FlowOf[p] \in cfg.flows[c]
  BY DEF ClassifyMatch, ChainsOf
<1>3. TypeOK /\ ValidConfig(cfg)
  BY CfgValid DEF IndInv
<1>4. RouteIn(cfg, FlowOf[p]) # <<>>
  <2>1. ChainLen(cfg, c) \in Positions
    BY <1>2, <1>3 DEF ValidConfig, WellFormed
  <2>2. Len(cfg.chains[c]) # 0
    <3>1. ChainLen(cfg, c) # 0
      BY <2>1 DEF Positions
    <3> QED
      BY <3>1 DEF ChainLen
  <2>3. RouteIn(cfg, FlowOf[p]) = cfg.chains[c]
    BY <1>2, <1>3, RouteFacts
  <2> QED
    BY <2>2, <2>3
<1>5. State' = [State EXCEPT ![p] = "inside"]
  <2>1. AbstractState("wire") = "inside"
    BY AbstractStates DEF InFlight
  <2> QED
    BY <1>1, <1>3, <2>1, StateMove
<1>6. State[p] = "outside"
  BY <1>1, AbstractStates DEF State
<1>7. Route' = Route
  BY <1>1 DEF Route
<1>8. Installed' = Installed
  BY <1>1 DEF Installed
<1>9. Route[p] # <<>>
  BY <1>4 DEF Route
<1> QED
  BY <1>1, <1>5, <1>6, <1>7, <1>8, <1>9 DEF Chain!Enter, Route, State

\* The classifier passes a packet of no chain on.
LEMMA PassRefines ==
    ASSUME IndInv, NEW p \in Packets, ClassifyPass(p)
    PROVE  Chain!Pass(p)
<1>1. /\ UNCHANGED <<cfg, todo_fwd, todo_proxy, visited, settled>>
      /\ pc' = [pc EXCEPT ![p] = "plain"] /\ pc[p] = "source"
      /\ ChainsOf(FlowOf[p]) = {}
  BY DEF ClassifyPass, Move, tables
<1>2. TypeOK /\ ValidConfig(cfg)
  BY CfgValid DEF IndInv
<1>3. Route[p] = <<>>
  BY <1>1, <1>2, RouteFacts DEF Route
<1>4. State' = [State EXCEPT ![p] = "passed"]
  <2>1. AbstractState("plain") = "passed"
    BY AbstractStates
  <2> QED
    BY <1>1, <1>2, <2>1, StateMove
<1>5. State[p] = "outside"
  BY <1>1, AbstractStates DEF State
<1>6. Route' = Route
  BY <1>1 DEF Route
<1>7. Installed' = Installed
  BY <1>1 DEF Installed
<1> QED
  BY <1>1, <1>3, <1>4, <1>5, <1>6, <1>7 DEF Chain!Pass, Route, State

\* The function that processes a packet is the next one of its route.
LEMMA ServeRefines ==
    ASSUME IndInv, NEW p \in Packets, Serve(p)
    PROVE  Chain!ServeNext(p)
<1>1. /\ pc[p] = "sf"
      /\ visited' = [visited EXCEPT ![p] = Append(@, at[p])]
      /\ UNCHANGED <<cfg, todo_fwd, todo_proxy, settled>>
  BY DEF Serve, tables
<1>2. TypeOK /\ ValidConfig(cfg) /\ PacketOK(p) /\ Len(visited[p]) \in Nat
  BY PacketFacts DEF IndInv
<1>3. PICK c \in Ids(cfg) :
        FlowOf[p] \in cfg.flows[c] /\ PacketAt(p, c, Len(visited[p]))
  BY <1>1, <1>2 DEF PacketOK
<1>4. HeldBy(p, c, Len(visited[p]) + 1)
  BY <1>1, <1>3 DEF PacketAt
<1>5. Route[p] = cfg.chains[c]
  BY <1>2, <1>3, RouteFacts DEF Route
<1>6. /\ Len(visited[p]) < Len(Route[p])
      /\ at[p] = Route[p][Len(visited[p]) + 1]
  <2>1. ChainLen(cfg, c) \in Nat
    BY <1>2, ChainLenNat
  <2>2. Len(visited[p]) < ChainLen(cfg, c)
    BY <1>2, <1>4, <2>1 DEF HeldBy
  <2> QED
    BY <1>4, <1>5, <2>2 DEF HeldBy, ChainLen
<1>7. State[p] = "inside"
  <2>1. AbstractState("sf") = "inside"
    BY AbstractStates DEF InFlight
  <2> QED
    BY <1>1, <2>1 DEF State
<1>8. State' = State
  <2>1. CASE pc' = pc
    BY <2>1 DEF State
  <2>2. CASE pc' = [pc EXCEPT ![p] = "encap"]
    <3>1. State' = [State EXCEPT ![p] = AbstractState("encap")]
      BY <1>2, <2>2, StateMove
    <3>2. AbstractState("encap") = "inside"
      BY AbstractStates DEF InFlight
    <3> QED
      BY <1>7, <3>1, <3>2 DEF State
  <2> QED
    BY <2>1, <2>2 DEF Serve, Move
<1>9. Route' = Route
  BY <1>1 DEF Route
<1>10. Installed' = Installed
  BY <1>1 DEF Installed
<1>11. visited' = [visited EXCEPT ![p] = Append(@, Route[p][Len(@) + 1])]
  BY <1>1, <1>6
<1> QED
  BY <1>1, <1>6, <1>7, <1>8, <1>9, <1>10, <1>11 DEF Chain!ServeNext, Route, State

\* Enc's first half: on to the second, or out of the chain before it was ready.
LEMMA EncapLookupRefines ==
    ASSUME Ample, IndInv, IndInv', NEW p \in Packets, EncapLookup(p)
    PROVE  Chain!LetOut(p) \/ UNCHANGED Chain!vars
<1>1. /\ pc[p] = "encap" /\ pc[p] \in InFlight
      /\ UNCHANGED <<cfg, nsh_data, todo_fwd, todo_proxy, at, visited, settled>>
  BY DEF EncapLookup, tables, InFlight
<1>2. TypeOK /\ DropCause'
  BY DEF IndInv
<1>3. CASE pc' = [pc EXCEPT ![p] = "route"]
  <2>1. "route" \in InFlight
    BY DEF InFlight
  <2> QED
    BY <1>1, <1>3, <2>1, InsideStutters
<1>4. CASE pc' = [pc EXCEPT ![p] = "si_zero"]
  <2>1. pc'[p] = "si_zero"
    BY <1>2, <1>4 DEF TypeOK
  <2> QED
    BY <1>2, <2>1 DEF DropCause
<1>5. CASE pc' = [pc EXCEPT ![p] = "bypass"]
  <2>1. pc'[p] = "bypass" /\ "bypass" \in Gone
    BY <1>2, <1>5 DEF TypeOK, Gone
  <2>2. at[p] \in Nodes
    <3>1. PacketInv'
      BY DEF IndInv
    <3> QED
      BY <1>1, <2>1, <3>1 DEF PacketInv, PacketAt
  <2>3. Room(nsh_data[at[p]], NshDataSize)
    BY <2>2, AlwaysRoom
  <2>4. ~settled[p]
    <3>1. BypassCause'
      BY DEF IndInv
    <3> QED
      BY <1>1, <2>1, <2>3, <3>1 DEF BypassCause
  <2>5. Chain!Finish(p, AbstractState("bypass"))
    BY <1>1, <1>5, <2>1, FinishRefines
  <2>6. AbstractState("bypass") = "bypassed"
    BY AbstractStates
  <2> QED
    BY <2>4, <2>5, <2>6 DEF Chain!LetOut
<1> QED
  BY <1>3, <1>4, <1>5 DEF EncapLookup, Move

\* Enc's second half: a packet is delivered when it has been through its route.
LEMMA EncapRouteRefines ==
    ASSUME IndInv, IndInv', NEW p \in Packets, EncapRoute(p)
    PROVE  Chain!Deliver(p) \/ Chain!Drop(p) \/ UNCHANGED Chain!vars
<1>1. /\ pc[p] = "route" /\ pc[p] \in InFlight
      /\ UNCHANGED <<cfg, todo_fwd, todo_proxy, visited, settled>>
  BY DEF EncapRoute, tables, InFlight
<1>2. TypeOK /\ PacketInv' /\ ValidConfig(cfg) /\ visited[p] \in Seq(Nodes)
  BY PacketFacts DEF IndInv
<1>3. CASE pc' = [pc EXCEPT ![p] = "forward"]
  <2>1. "forward" \in InFlight
    BY DEF InFlight
  <2> QED
    BY <1>1, <1>3, <2>1, InsideStutters
<1>4. CASE pc' = [pc EXCEPT ![p] = "lost"]
  <2>1. AbstractState("lost") = "dropped" /\ "lost" \in Gone
    BY AbstractStates DEF Gone
  <2>2. Chain!Finish(p, AbstractState("lost"))
    BY <1>1, <1>4, <2>1, FinishRefines
  <2> QED
    BY <2>1, <2>2 DEF Chain!Drop
<1>5. CASE pc' = [pc EXCEPT ![p] = "ended"]
  <2>1. pc'[p] = "ended"
    BY <1>2, <1>5 DEF TypeOK
  <2>2. PICK c \in Ids(cfg) :
          /\ FlowOf[p] \in cfg.flows[c]
          /\ Len(visited[p]) = ChainLen(cfg, c)
          /\ \A i \in 1 .. Len(visited[p]) : visited[p][i] = cfg.chains[c][i]
    <3>1. PICK c \in Ids(cfg') :
            FlowOf[p] \in cfg'.flows[c] /\ PacketAt(p, c, Len(visited[p]))'
      BY <1>2, <2>1 DEF PacketInv
    <3> QED
      BY <1>1, <2>1, <3>1 DEF PacketAt, Through
  <2>3. cfg.chains[c] \in Seq(Nodes)
    BY <1>2 DEF ValidConfig, WellFormed
  <2>4. visited[p] = cfg.chains[c]
    BY <1>2, <2>2, <2>3 DEF ChainLen
  <2>5. Route[p] = visited[p]
    BY <1>2, <2>2, <2>4, RouteFacts DEF Route
  <2>6. AbstractState("ended") = "delivered" /\ "ended" \in Gone
    BY AbstractStates DEF Gone
  <2>7. Chain!Finish(p, AbstractState("ended"))
    BY <1>1, <1>5, <2>6, FinishRefines
  <2> QED
    BY <2>5, <2>6, <2>7 DEF Chain!Deliver, Route
<1> QED
  BY <1>3, <1>4, <1>5 DEF EncapRoute, Move

\* Fwd refuses only packets that entered before the chain was ready.
LEMMA SfcForwardingRefines ==
    ASSUME Ample, IndInv, IndInv', NEW p \in Packets, SfcForwarding(p)
    PROVE  Chain!Refuse(p) \/ UNCHANGED Chain!vars
<1>1. /\ pc[p] = "forward" /\ pc[p] \in InFlight
      /\ UNCHANGED <<cfg, fwd_table, todo_fwd, todo_proxy, visited, settled>>
  BY DEF SfcForwarding, tables, InFlight
<1>2. TypeOK /\ DropCause' /\ PacketInv'
  BY DEF IndInv
<1>3. CASE pc' = [pc EXCEPT ![p] = "wire"]
  <2>1. "wire" \in InFlight
    BY DEF InFlight
  <2> QED
    BY <1>1, <1>3, <2>1, InsideStutters
<1>4. ASSUME NEW w \in {"no_rule", "second_end"}, pc' = [pc EXCEPT ![p] = w], at' = at
      PROVE  Chain!Refuse(p)
  <2>1. pc'[p] = w /\ w \in Gone
    BY <1>2, <1>4 DEF TypeOK, Gone
  <2>2. at[p] \in Nodes
    BY <1>1, <1>2, <1>4, <2>1 DEF PacketInv, PacketAt
  <2>3. Room(fwd_table[at[p]], FwdTableSize)
    BY <2>2, AlwaysRoom
  <2>4. ~settled[p]
    BY <1>1, <1>2, <1>4, <2>1, <2>3 DEF DropCause
  <2>5. Chain!Finish(p, AbstractState(w))
    BY <1>1, <1>4, <2>1, FinishRefines
  <2>6. AbstractState(w) = "refused"
    BY AbstractStates
  <2> QED
    BY <2>4, <2>5, <2>6 DEF Chain!Refuse
<1> QED
  BY <1>3, <1>4 DEF SfcForwarding, Move

\* A function or the network drops a packet.
LEMMA DropRefines ==
    ASSUME IndInv, NEW p \in Packets, Consume(p) \/ Lose(p)
    PROVE  Chain!Drop(p)
<1>1. PICK w \in {"consumed", "lost"} : pc' = [pc EXCEPT ![p] = w]
  BY DEF Consume, Lose, Move
<1>2. /\ pc[p] \in InFlight
      /\ UNCHANGED <<cfg, todo_fwd, todo_proxy, visited, settled>>
  BY DEF Consume, Lose, tables, InFlight
<1>3. AbstractState(w) = "dropped" /\ w \in Gone
  BY AbstractStates DEF Gone
<1>4. Chain!Finish(p, AbstractState(w))
  BY <1>1, <1>2, <1>3, FinishRefines
<1> QED
  BY <1>3, <1>4 DEF Chain!Drop

\* Dec changes nothing the abstract chain sees.
LEMMA DecapRefines ==
    ASSUME IndInv, NEW p \in Packets, NEW n \in Nodes, DecapNsh(n, p)
    PROVE  UNCHANGED Chain!vars
<1>1. /\ pc[p] \in InFlight /\ "sf" \in InFlight
      /\ pc' = [pc EXCEPT ![p] = "sf"]
      /\ UNCHANGED <<cfg, todo_fwd, todo_proxy, visited, settled>>
  BY DEF DecapNsh, Move, InFlight
<1> QED
  BY <1>1, InsideStutters

\* Every step is a step of the abstract chain or none at all.
LEMMA NextRefines ==
    ASSUME Ample, IndInv, IndInv', [Next]_vars
    PROVE  Chain!Next \/ UNCHANGED Chain!vars
<1>1. ASSUME NEW n \in Nodes, Install(n) PROVE Chain!Next \/ UNCHANGED Chain!vars
  BY <1>1, InstallRefines
<1>2. ASSUME NEW p \in Packets, ClassifyMatch(p) PROVE Chain!Next
  BY <1>2, EnterRefines DEF Chain!Next, Chain!PacketStep
<1>3. ASSUME NEW p \in Packets, ClassifyPass(p) PROVE Chain!Next
  BY <1>3, PassRefines DEF Chain!Next, Chain!PacketStep
<1>4. ASSUME NEW p \in Packets, Process(p) PROVE Chain!Next \/ UNCHANGED Chain!vars
  BY <1>4, DecapRefines, ServeRefines, EncapLookupRefines, EncapRouteRefines,
     SfcForwardingRefines DEF Process, Chain!Next, Chain!PacketStep
<1>5. ASSUME NEW p \in Packets, Consume(p) \/ Lose(p) PROVE Chain!Next
  BY <1>5, DropRefines DEF Chain!Next, Chain!PacketStep
<1>6. CASE UNCHANGED vars
  <2>1. UNCHANGED <<cfg, todo_fwd, todo_proxy, pc, visited, settled>>
    BY <1>6 DEF vars, tables, packet
  <2>2. Route' = Route /\ State' = State
    BY <2>1 DEF Route, State
  <2>3. Installed' = Installed
    BY <2>1 DEF Installed
  <2> QED
    BY <2>1, <2>2, <2>3 DEF Chain!vars, Route, State
<1> QED
  BY <1>1, <1>2, <1>3, <1>4, <1>5, <1>6 DEF Next

\* Initially every packet is outside.
LEMMA InitRefines ==
    ASSUME Init
    PROVE  Chain!Init
<1>1. ValidConfig(cfg)
  BY DataPlaneAssumption DEF Init
<1>2. Route \in [Packets -> Seq(Nodes)]
  BY <1>1, RouteFacts DEF Route
<1>3. State = [p \in Packets |-> "outside"]
  <2>1. \A p \in Packets : AbstractState(pc[p]) = "outside"
    BY AbstractStates DEF Init
  <2> QED
    BY <2>1 DEF State
<1>4. Installed \in BOOLEAN
  BY DEF Installed
<1> QED
  BY <1>2, <1>3, <1>4 DEF Init, Chain!Init, Route, State

\* The classifier, the stages and the agents implement the abstract service chain for
\* every number of nodes, chains, flows and packets, provided the maps are ample:
\* after the installation nothing is let out early or refused.
THEOREM ChainImplemented ==
    ASSUME Ample
    PROVE  Spec => ImplementsServiceChain
<1>1. Init => Chain!Init
  BY InitRefines
<1>2. IndInv /\ IndInv' /\ [Next]_vars => [Chain!Next]_(Chain!vars)
  BY NextRefines
<1> QED
  BY <1>1, <1>2, Inductive, PTL DEF Spec, ImplementsServiceChain, Chain!Spec
=============================================================================
