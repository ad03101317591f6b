-------------------------- MODULE DeploymentProofs --------------------------
(***************************************************************************)
(* cb_deploy for every chains configuration, valid or not, and every order *)
(* in which its loops take containers, chains and functions.               *)
(***************************************************************************)
EXTENDS Deployment, TLAPS

\* Chains are sequences of nodes, and a direct link joins two of them.
LEMMA LinkShape ==
    ASSUME cfg \in Files
    PROVE  /\ \A c \in Ids(cfg) : ChainLen(cfg, c) \in Nat
           /\ \A x \in Links :
                 /\ x = <<x[1], x[2]>> /\ x[1] \in Ids(cfg)
                 /\ x[2] \in 1 .. ChainLen(cfg, x[1]) - 1
                 /\ DirectLink(cfg, x[1], x[2])
                 /\ Near(x) \in Nodes /\ Far(x) \in Nodes
<1>1. \A c \in Ids(cfg) : cfg.chains[c] \in Seq(Nodes)
  BY DeploymentAssumption DEF Ids
<1>2. \A c \in Ids(cfg) : ChainLen(cfg, c) \in Nat
  BY <1>1 DEF ChainLen
<1> SUFFICES ASSUME NEW x \in Links
             PROVE  /\ x = <<x[1], x[2]>> /\ x[1] \in Ids(cfg)
                    /\ x[2] \in 1 .. ChainLen(cfg, x[1]) - 1
                    /\ DirectLink(cfg, x[1], x[2])
                    /\ Near(x) \in Nodes /\ Far(x) \in Nodes
  BY <1>2
<1>3. x = <<x[1], x[2]>> /\ x[1] \in Ids(cfg) /\ DirectLink(cfg, x[1], x[2])
  BY DEF Links
<1>4. x[2] \in 1 .. ChainLen(cfg, x[1]) - 1
  BY <1>3 DEF DirectLink
<1>5. Near(x) \in Nodes /\ Far(x) \in Nodes
  BY <1>1, <1>2, <1>3, <1>4 DEF Near, Far, ChainLen
<1> QED
  BY <1>3, <1>4, <1>5

\* No link is made.
LEMMA DeployInit == ASSUME Init PROVE IndInv
<1>1. Made = {}
  BY DEF Made, Links, Init
<1>2. DOMAIN egress_ifaces = {} /\ DOMAIN ingress_ifaces = {}
  BY DEF Init
<1>3. Loops
  BY DEF Loops, Mains, Init
<1> QED
  BY <1>1, <1>2, <1>3
     DEF IndInv, Init, NoSharedEnds, EndsOfMade, NumbersDiffer

\* A step that makes no link keeps what is said about links.
LEMMA SameLinks ==
    ASSUME NoSharedEnds, EndsOfMade, NumbersDiffer,
           Made' = Made, cfg' = cfg, UNCHANGED ifaces
    PROVE  (NoSharedEnds /\ EndsOfMade /\ NumbersDiffer)'
<1>1. \A x : Near(x)' = Near(x) /\ Far(x)' = Far(x)
  BY DEF Near, Far
<1>2. dlgid' = dlgid /\ ingress_ifaces' = ingress_ifaces /\ egress_ifaces' = egress_ifaces
  BY DEF ifaces
<1>3. NoSharedEnds'
  BY <1>1 DEF NoSharedEnds
<1>4. EndsOfMade'
  BY <1>1, <1>2 DEF EndsOfMade
<1>5. NumbersDiffer'
  BY <1>2 DEF NumbersDiffer
<1> QED
  BY <1>3, <1>4, <1>5

\* A chain of one function has no link to make.
LEMMA NextChainStep ==
    ASSUME IndInv, NextChain PROVE IndInv'
<1>1. /\ main = "choosing" /\ cfg' = cfg /\ UNCHANGED ifaces
      /\ NoSharedEnds /\ EndsOfMade /\ NumbersDiffer /\ Loops
      /\ cfg \in Files
  BY DEF NextChain, IndInv, Loops
<1>2. CASE chains_left = {} /\ main' = "starting" /\ UNCHANGED <<chains_left, chain, pos>>
  <2>1. Made' = Made
    BY <1>1, <1>2 DEF Made, Links
  <2>2. Loops'
    BY <1>1, <1>2 DEF Loops, Mains, ifaces
  <2> QED
    BY <1>1, <1>2, <2>1, <2>2, SameLinks DEF IndInv
<1>3. ASSUME NEW c \in chains_left, chains_left' = chains_left \ {c}, chain' = c, pos' = 1,
             main' = IF ChainLen(cfg, c) < 2 THEN main ELSE "linking"
      PROVE  IndInv'
  <2>1. c \in Ids(cfg) /\ ChainLen(cfg, c) \in Nat
    BY <1>1, LinkShape DEF Loops
  <2>2. Links' = Links
    BY <1>1 DEF Links
  <2>3. ASSUME NEW x \in Links
        PROVE  x \in Made' <=> x \in Made
    <3>1. x[2] \in 1 .. ChainLen(cfg, x[1]) - 1
      BY <1>1, LinkShape
    <3> QED
      BY <1>1, <1>3, <2>1, <2>2, <3>1 DEF Made
  <2>4. Made' = Made
    BY <2>2, <2>3 DEF Made
  <2>5. Loops'
    BY <1>1, <1>3, <2>1 DEF Loops, Mains, ifaces
  <2> QED
    BY <1>1, <1>3, <2>4, <2>5, SameLinks DEF IndInv
<1> QED
  BY <1>2, <1>3 DEF NextChain

\* One round of the inner loop: the link is made only where both ends are free, and
\* where they are not the configuration shares a node.
LEMMA LinkRound ==
    ASSUME IndInv, LinkStep PROVE IndInv'
<1> DEFINE x0 == <<chain, pos>>
           n1 == cfg.chains[chain][pos]
           n2 == cfg.chains[chain][pos + 1]
<1>1. /\ main = "linking" /\ cfg' = cfg /\ chains_left' = chains_left /\ chain' = chain
      /\ NoSharedEnds /\ EndsOfMade /\ NumbersDiffer /\ Loops
      /\ cfg \in Files /\ chain \in Ids(cfg) \ chains_left
      /\ pos \in 1 .. ChainLen(cfg, chain) - 1
      /\ ChainLen(cfg, chain) \in Nat /\ dlgid \in Nat
  BY LinkShape DEF LinkStep, IndInv, Loops
<1>2. x0 \in Ids(cfg) \X Nat /\ x0 \notin Made /\ Near(x0) = n1 /\ Far(x0) = n2
  BY <1>1 DEF Made, Near, Far
<1>3. x0 \in Links <=> n1 \notin cfg.remote /\ n2 \notin cfg.remote
  BY <1>1, <1>2 DEF Links, DirectLink
<1>4. Links' = Links /\ \A x : Near(x)' = Near(x) /\ Far(x)' = Far(x)
  BY <1>1 DEF Links, Near, Far
<1>5. ASSUME Advance
      PROVE  Made' = Made \cup (Links \cap {x0})
  <2>1. ASSUME NEW x \in Links
        PROVE  x \in Made' <=> x \in Made \/ x = x0
    <3>1. x[2] \in 1 .. ChainLen(cfg, x[1]) - 1 /\ x = <<x[1], x[2]>>
      BY <1>1, LinkShape
    <3>2. x = x0 <=> x[1] = chain /\ x[2] = pos
      BY <3>1
    <3> QED
      BY <1>1, <1>4, <1>5, <3>1, <3>2 DEF Made, Advance
  <2> QED
    BY <1>4, <2>1 DEF Made
<1>6. ASSUME Advance, dlgid' \in Nat
      PROVE  Loops' /\ main' \notin {"rejected", "aborted", "starting", "returned"}
  BY <1>1, <1>6 DEF Loops, Mains, Advance
<1>7. CASE /\ ~(n1 \notin cfg.remote /\ n2 \notin cfg.remote)
           /\ Advance /\ UNCHANGED ifaces
  <2>1. Made' = Made
    BY <1>3, <1>5, <1>7
  <2>2. Loops' /\ main' \notin {"rejected", "aborted", "starting", "returned"}
    BY <1>1, <1>6, <1>7 DEF ifaces
  <2> QED
    BY <1>1, <1>7, <2>1, <2>2, SameLinks DEF IndInv
<1>8. CASE /\ n1 \notin cfg.remote /\ n2 \notin cfg.remote /\ Taken(n1, n2)
           /\ main' = "rejected" /\ UNCHANGED <<ifaces, pos>>
  <2>1. PICK x \in Made : Far(x) = n2 \/ Near(x) = n1
    BY <1>1, <1>8 DEF Taken, EndsOfMade
  <2>2. x \in Links /\ x # x0 /\ x0 \in Links
    BY <1>2, <1>3, <1>8, <2>1 DEF Made
  <2>3. /\ x = <<x[1], x[2]>> /\ x[1] \in Ids(cfg)
        /\ x[2] \in 1 .. ChainLen(cfg, x[1]) - 1
        /\ DirectLink(cfg, x[1], x[2]) /\ DirectLink(cfg, chain, pos)
    BY <1>1, <2>2, LinkShape DEF Links
  <2>4. ~DeployAccepts(cfg)
    BY <1>1, <1>2, <2>1, <2>2, <2>3 DEF DeployAccepts, Near, Far
  <2>5. Loops'
    BY <1>1, <1>8 DEF Loops, Mains, ifaces
  <2> QED
    BY <1>1, <1>8, <2>4, <2>5 DEF IndInv
<1>9. CASE /\ n1 \notin cfg.remote /\ n2 \notin cfg.remote /\ ~Taken(n1, n2)
           /\ MakeLink(n1, n2) /\ Advance
  <2>1. Made' = Made \cup {x0}
    BY <1>3, <1>5, <1>9
  <2>2. /\ ingress_ifaces' = Extend(ingress_ifaces, n2, <<dlgid, "b">>)
        /\ egress_ifaces' = Extend(egress_ifaces, n1, <<dlgid, "a">>)
        /\ dlgid' = dlgid + 1
    BY <1>9 DEF MakeLink, DirectLinkName
  <2>3. n1 \notin DOMAIN egress_ifaces /\ n2 \notin DOMAIN ingress_ifaces
    BY <1>9 DEF Taken
  <2>4. /\ DOMAIN egress_ifaces' = DOMAIN egress_ifaces \cup {n1}
        /\ egress_ifaces'[n1][1] = dlgid
        /\ \A n \in DOMAIN egress_ifaces : egress_ifaces'[n] = egress_ifaces[n]
    BY <2>2, <2>3 DEF Extend
  <2>5. /\ DOMAIN ingress_ifaces' = DOMAIN ingress_ifaces \cup {n2}
        /\ ingress_ifaces'[n2][1] = dlgid
        /\ \A n \in DOMAIN ingress_ifaces : ingress_ifaces'[n] = ingress_ifaces[n]
    BY <2>2, <2>3 DEF Extend
  <2>6. \A x \in Made : /\ Near(x) \in DOMAIN egress_ifaces
                          /\ Far(x) \in DOMAIN ingress_ifaces
    BY <1>1 DEF EndsOfMade
  <2> HIDE DEF x0, n1, n2
  <2>7. NoSharedEnds'
    BY <1>1, <1>2, <1>4, <2>1, <2>3, <2>6 DEF NoSharedEnds
  <2>8. EndsOfMade'
    <3>1. (DOMAIN egress_ifaces = { Near(x) : x \in Made })'
      BY <1>1, <1>2, <1>4, <2>1, <2>4 DEF EndsOfMade
    <3>2. (DOMAIN ingress_ifaces = { Far(x) : x \in Made })'
      BY <1>1, <1>2, <1>4, <2>1, <2>5 DEF EndsOfMade
    <3>3. (\A x \in Made : egress_ifaces[Near(x)][1] = ingress_ifaces[Far(x)][1])'
      BY <1>1, <1>2, <1>4, <2>1, <2>4, <2>5, <2>6 DEF EndsOfMade
    <3> QED
      BY <3>1, <3>2, <3>3 DEF EndsOfMade
  <2>9. NumbersDiffer'
    BY <1>1, <2>2, <2>4 DEF NumbersDiffer
  <2>10. Loops' /\ main' \notin {"rejected", "aborted", "starting", "returned"}
    BY <1>1, <1>6, <1>9, <2>2
  <2> QED
    BY <2>7, <2>8, <2>9, <2>10 DEF IndInv
<1>10. CASE main' = "aborted" /\ UNCHANGED <<ifaces, pos>>
  <2>1. Loops'
    BY <1>1, <1>10 DEF Loops, Mains, ifaces
  <2> QED
    BY <1>10, <2>1 DEF IndInv
<1> QED
  BY <1>7, <1>8, <1>9, <1>10 DEF LinkStep

\* The rest of main() and its goroutines leave the interfaces alone.
LEMMA DeployStep ==
    ASSUME IndInv, [Next]_vars PROVE IndInv'
<1>1. CASE NextChain
  BY <1>1, NextChainStep
<1>2. CASE LinkStep
  BY <1>2, LinkRound
<1>3. ASSUME cfg' = cfg, UNCHANGED <<chains_left, chain, pos, ifaces>>,
             \/ main' = main
             \/ /\ main \in {"set-up", "creating"}
                /\ main' \in {"creating", "choosing", "aborted"}
             \/ main = "starting" /\ main' = "returned"
      PROVE  IndInv'
  <2>1. Loops'
    BY <1>3 DEF IndInv, Loops, Mains, ifaces
  <2>2. Made' = Made
    BY <1>3 DEF Made, Links
  <2> QED
    BY <1>3, <2>1, <2>2, SameLinks DEF IndInv
<1>4. CASE CreateNetworkInfra
  BY <1>3, <1>4 DEF CreateNetworkInfra
<1>5. ASSUME NEW n, CreateContainer(n)
      PROVE  IndInv'
  BY <1>3, <1>5 DEF CreateContainer
<1>6. ASSUME NEW n, StartFunction(n) \/ RunCommand(n)
      PROVE  IndInv'
  BY <1>3, <1>6 DEF StartFunction, RunCommand
<1>7. CASE Return
  BY <1>3, <1>7 DEF Return
<1>8. CASE UNCHANGED vars
  BY <1>3, <1>8 DEF vars, ifaces
<1> QED
  BY <1>1, <1>2, <1>4, <1>5, <1>6, <1>7, <1>8 DEF Next

\* When functions are started all direct links have been made.
LEMMA AllMade ==
    ASSUME IndInv, main \in {"starting", "returned"}
    PROVE  Made = Links /\ NoSharedEnds /\ EndsOfMade /\ NumbersDiffer
BY DEF IndInv, Loops, Made

\* If no two links share an end, the configuration is one cb_deploy accepts.
LEMMA Accepted ==
    ASSUME cfg \in Files, Made = Links, NoSharedEnds
    PROVE  DeployAccepts(cfg)
<1> SUFFICES ASSUME NEW c \in Ids(cfg), NEW d \in Ids(cfg),
                    NEW k \in 1 .. ChainLen(cfg, c) - 1,
                    NEW l \in 1 .. ChainLen(cfg, d) - 1,
                    DirectLink(cfg, c, k), DirectLink(cfg, d, l), <<c, k>> # <<d, l>>
             PROVE  /\ cfg.chains[c][k+1] # cfg.chains[d][l+1]
                    /\ cfg.chains[c][k] # cfg.chains[d][l]
  BY DEF DeployAccepts
<1>1. ChainLen(cfg, c) \in Nat /\ ChainLen(cfg, d) \in Nat
  BY LinkShape
<1>2. <<c, k>> \in Made /\ <<d, l>> \in Made
  BY <1>1 DEF Links
<1> QED
  BY <1>2 DEF NoSharedEnds, Near, Far

\* The stages cb_start is told to omit are the ones at an end of a link.
LEMMA EndsOmitted ==
    ASSUME cfg \in Files, Made = Links, EndsOfMade, NEW n
    PROVE  /\ n \in DOMAIN ingress_ifaces <=> ~HasIngress(cfg, n)
           /\ n \in DOMAIN egress_ifaces <=> ~HasEgress(cfg, n)
<1>1. /\ ~HasIngress(cfg, n) <=> \E x \in Links : Far(x) = n
      /\ ~HasEgress(cfg, n) <=> \E x \in Links : Near(x) = n
  <2>1. ASSUME NEW c \in Ids(cfg), NEW k \in 1 .. ChainLen(cfg, c) - 1,
               DirectLink(cfg, c, k)
        PROVE  /\ <<c, k>> \in Links
               /\ Near(<<c, k>>) = cfg.chains[c][k]
               /\ Far(<<c, k>>) = cfg.chains[c][k + 1]
    <3>1. ChainLen(cfg, c) \in Nat
      BY LinkShape
    <3> QED
      BY <2>1, <3>1 DEF Links, Near, Far
  <2>2. ASSUME NEW x \in Links
        PROVE  /\ x[1] \in Ids(cfg) /\ x[2] \in 1 .. ChainLen(cfg, x[1]) - 1
               /\ DirectLink(cfg, x[1], x[2])
               /\ Near(x) = cfg.chains[x[1]][x[2]]
               /\ Far(x) = cfg.chains[x[1]][x[2] + 1]
    BY LinkShape DEF Near, Far
  <2>3. ASSUME ~HasIngress(cfg, n)
        PROVE  \E x \in Links : Far(x) = n
    <3>1. PICK c \in Ids(cfg) : \E k \in 1 .. ChainLen(cfg, c) - 1 :
              DirectLink(cfg, c, k) /\ cfg.chains[c][k + 1] = n
      BY <2>3 DEF HasIngress
    <3> QED
      BY <2>1, <3>1
  <2>4. ASSUME ~HasEgress(cfg, n)
        PROVE  \E x \in Links : Near(x) = n
    <3>1. PICK c \in Ids(cfg) : \E k \in 1 .. ChainLen(cfg, c) - 1 :
              DirectLink(cfg, c, k) /\ cfg.chains[c][k] = n
      BY <2>4 DEF HasEgress
    <3> QED
      BY <2>1, <3>1
  <2>5. ASSUME NEW x \in Links
        PROVE  ~HasIngress(cfg, Far(x)) /\ ~HasEgress(cfg, Near(x))
    BY <2>2 DEF HasIngress, HasEgress
  <2> QED
    BY <2>3, <2>4, <2>5
<1> QED
  BY <1>1 DEF EndsOfMade

\* The far end of the link that begins at a node is its Peer.
LEMMA PeerOfLink ==
    ASSUME cfg \in Files, Made = Links, NoSharedEnds,
           NEW x \in Links
    PROVE  Peer(cfg, Near(x)) = Far(x)
<1> DEFINE P(m) == \E c \in Ids(cfg) : \E k \in 1 .. ChainLen(cfg, c) - 1 :
                      /\ DirectLink(cfg, c, k)
                      /\ cfg.chains[c][k] = Near(x)
                      /\ cfg.chains[c][k+1] = m
<1>1. Far(x) \in Nodes /\ P(Far(x))
  BY LinkShape DEF Near, Far
<1>2. ASSUME NEW m, P(m)
      PROVE  m = Far(x)
  <2>1. PICK c \in Ids(cfg) : \E k \in 1 .. ChainLen(cfg, c) - 1 :
            /\ DirectLink(cfg, c, k)
            /\ cfg.chains[c][k] = Near(x)
            /\ cfg.chains[c][k+1] = m
    BY <1>2
  <2>2. PICK k \in 1 .. ChainLen(cfg, c) - 1 :
            /\ DirectLink(cfg, c, k)
            /\ cfg.chains[c][k] = Near(x)
            /\ cfg.chains[c][k+1] = m
    BY <2>1
  <2>3. ChainLen(cfg, c) \in Nat
    BY LinkShape
  <2>4. <<c, k>> \in Made
    BY <2>2, <2>3 DEF Links
  <2>5. Near(<<c, k>>) = Near(x) /\ Far(<<c, k>>) = m
    BY <2>2 DEF Near, Far
  <2> QED
    BY <2>4, <2>5 DEF NoSharedEnds
<1>3. Peer(cfg, Near(x)) = CHOOSE m \in Nodes : P(m)
  BY DEF Peer
<1> HIDE DEF P
<1> QED
  BY <1>1, <1>2, <1>3

\* IndInv is an invariant of Deployment.
LEMMA DeployInvariant == Spec => []IndInv
<1>1. Init => IndInv
  BY DeployInit
<1>2. IndInv /\ [Next]_vars => IndInv'
  BY DeployStep
<1> QED
  BY <1>1, <1>2, PTL DEF Spec

\* For every file, in whatever order its chains are taken, cb_deploy stops at a shared
\* node if and only if DeployAccepts says so.
THEOREM DeployRejectsExactly == Spec => []RejectsExactly
<1>1. IndInv => RejectsExactly
  <2> SUFFICES ASSUME IndInv PROVE RejectsExactly
    OBVIOUS
  <2>1. cfg \in Files
    BY DEF IndInv, Loops
  <2>2. main \in {"starting", "returned"} => DeployAccepts(cfg)
    BY <2>1, AllMade, Accepted
  <2> QED
    BY <2>2 DEF IndInv, RejectsExactly
<1> QED
  BY DeployInvariant, <1>1, PTL

\* The stages cb_start is told to omit are the ones the manager's rules do without, and
\* every veth pair joins a node with its successor.
THEOREM DeployLinksAsAssumed == Spec => []LinksAsAssumed
<1>1. IndInv => LinksAsAssumed
  <2> SUFFICES ASSUME IndInv, main \in {"starting", "returned"}
               PROVE  LinksAsAssumed
    BY DEF LinksAsAssumed
  <2>1. /\ cfg \in Files /\ Made = Links
        /\ NoSharedEnds /\ EndsOfMade /\ NumbersDiffer
    BY AllMade DEF IndInv, Loops
  <2>2. ASSUME NEW n \in DOMAIN egress_ifaces, NEW m \in DOMAIN ingress_ifaces
        PROVE  ingress_ifaces[m][1] = egress_ifaces[n][1] <=> m = Peer(cfg, n)
    <3>1. PICK x \in Links : Near(x) = n
      BY <2>1 DEF EndsOfMade
    <3>2. PICK y \in Links : Far(y) = m
      BY <2>1 DEF EndsOfMade
    <3>3. Peer(cfg, n) = Far(x)
      BY <2>1, <3>1, PeerOfLink
    <3>4. /\ egress_ifaces[n][1] = ingress_ifaces[Far(x)][1]
          /\ egress_ifaces[Near(y)][1] = ingress_ifaces[m][1]
          /\ Near(y) \in DOMAIN egress_ifaces
      BY <2>1, <3>1, <3>2 DEF EndsOfMade
    <3>5. Near(y) = n => y = x
      BY <2>1, <3>1 DEF NoSharedEnds
    <3>6. ingress_ifaces[m][1] = egress_ifaces[n][1] => Near(y) = n
      BY <2>1, <3>4 DEF NumbersDiffer
    <3> QED
      BY <3>2, <3>3, <3>4, <3>5, <3>6
  <2>3. \A n \in Nodes : /\ n \in DOMAIN ingress_ifaces <=> ~HasIngress(cfg, n)
                         /\ n \in DOMAIN egress_ifaces <=> ~HasEgress(cfg, n)
    BY <2>1, EndsOmitted
  <2> QED
    BY <2>2, <2>3 DEF LinksAsAssumed
<1> QED
  BY DeployInvariant, <1>1, PTL
=============================================================================
