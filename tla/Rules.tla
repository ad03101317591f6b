------------------------------- MODULE Rules -------------------------------
(***************************************************************************)
(* The pure part of the control plane: which direct links cb_deploy makes  *)
(* for a chains configuration and which forwarding and proxy rules         *)
(* CBManager.InstallConfiguration computes for every node.                 *)
(*                                                                         *)
(* A configuration is a record                                             *)
(*   chains : a function from chain Ids to sequences of node tags          *)
(*   flows  : a function from the same Ids to sets of IP 5-tuples          *)
(*   remote : the set of the tags whose CBInstance.Remote is true          *)
(*                                                                         *)
(* Positions k run from 1; the code's index i is k - 1.                    *)
(***************************************************************************)
EXTENDS Integers, Sequences

CONSTANTS
    Nodes,      \* tags of the service functions, cfg.Functions[i].Tag
    Flows,      \* IP 5-tuples
    ZeroAddr    \* CBAddress{0,0,0,0,0,0}; other MACs are named by their node

ASSUME RulesAssumption == ZeroAddr \notin Nodes

(***************************************************************************)
(* The 32-bit NSH service path header: 24 bits of SPI over 8 bits of SI.   *)
(***************************************************************************)
SPICount == 16777216

SPIs == 0 .. SPICount - 1
SIs  == 0 .. 255
SPH  == [spi : SPIs, si : SIs]

\* The positions a chain may have: more would not fit into the SI.
Positions == 1 .. 255

\* spi | (254 - uint32(i)) on 32 bits. From position 256 on the subtraction
\* wraps below zero, which sets every bit of the SPI.
Sph(id, k) ==
    IF k <= 255 THEN [spi |-> id % SPICount, si |-> 255 - k]
                ELSE [spi |-> SPICount - 1, si |-> (255 - k) % 256]

\* sph + 1 on 32 bits.
SphPlusOne(s) ==
    IF s.si < 255 THEN [s EXCEPT !.si = @ + 1]
                  ELSE [spi |-> (s.spi + 1) % SPICount, si |-> 0]

\* Variant: an SI that does not fit into 8 bits.
WideClassifierSph(id) == [spi |-> id, si |-> 256]

\* The header the classifier writes: the chain's SPI and SI 255.
ClassifierSph(id) == [spi |-> id, si |-> 255]

\* The header with which a packet reaches position k of chain c.
Reached(c, k) == [spi |-> c, si |-> 256 - k]

-----------------------------------------------------------------------------
Ids(cfg)     == DOMAIN cfg.chains
ChainLen(cfg, c) == Len(cfg.chains[c])

(***************************************************************************)
(* cb_deploy joins two consecutive local nodes with a veth pair.  The node *)
(* at the far end is started without ingress stages, the node at the near  *)
(* end without egress stages.                                              *)
(***************************************************************************)
DirectLink(cfg, c, k) ==
    /\ k \in 1 .. ChainLen(cfg, c) - 1
    /\ cfg.chains[c][k] \notin cfg.remote
    /\ cfg.chains[c][k+1] \notin cfg.remote

HasIngress(cfg, n) ==
    \A c \in Ids(cfg) : \A k \in 1 .. ChainLen(cfg, c) - 1 :
        DirectLink(cfg, c, k) => cfg.chains[c][k+1] # n

HasEgress(cfg, n) ==
    \A c \in Ids(cfg) : \A k \in 1 .. ChainLen(cfg, c) - 1 :
        DirectLink(cfg, c, k) => cfg.chains[c][k] # n

\* The other end of the veth pair on n's egress side.
Peer(cfg, n) ==
    CHOOSE m \in Nodes :
        \E c \in Ids(cfg) : \E k \in 1 .. ChainLen(cfg, c) - 1 :
            /\ DirectLink(cfg, c, k)
            /\ cfg.chains[c][k] = n
            /\ cfg.chains[c][k+1] = m

\* cb_deploy stops at a second direct link into, or out of, the same node.
DeployAccepts(cfg) ==
    \A c, d \in Ids(cfg) :
        \A k \in 1 .. ChainLen(cfg, c) - 1, l \in 1 .. ChainLen(cfg, d) - 1 :
            (DirectLink(cfg, c, k) /\ DirectLink(cfg, d, l) /\ <<c, k>> # <<d, l>>)
            => /\ cfg.chains[c][k+1] # cfg.chains[d][l+1]
               /\ cfg.chains[c][k] # cfg.chains[d][l]

-----------------------------------------------------------------------------
(***************************************************************************)
(* The address an agent announces in its Hello: the MAC of its ingress     *)
(* interface, or zeros when it was started without one.                    *)
(***************************************************************************)
\* Variant: the agent looks at the wrong interface.
EgressHelloAddress(cfg, n) == IF HasEgress(cfg, n) THEN n ELSE ZeroAddr

HelloAddress(cfg, n) == IF HasIngress(cfg, n) THEN n ELSE ZeroAddr

FwdEntry == [end : BOOLEAN, addr : Nodes \cup {ZeroAddr}]

\* Variant: the chain ends one node early.
EarlyEndFwdVal(cfg, c, k) ==
    IF k >= ChainLen(cfg, c) - 1
    THEN [end |-> TRUE,  addr |-> ZeroAddr]
    ELSE [end |-> FALSE, addr |-> HelloAddress(cfg, cfg.chains[c][k+1])]

\* The entry for position k of chain c: flags bit 0 at the end of the chain,
\* otherwise the address of the next node.
FwdVal(cfg, c, k) ==
    IF k = ChainLen(cfg, c)
    THEN [end |-> TRUE,  addr |-> ZeroAddr]
    ELSE [end |-> FALSE, addr |-> HelloAddress(cfg, cfg.chains[c][k+1])]

\* Variant: the next node is not looked at.
ForgetsRemoteNext(cfg, c, k) ==
    k = ChainLen(cfg, c) \/ cfg.chains[c][k] \in cfg.remote

\* A rule is made unless a direct link leads to the next node.
NeedsFwdRule(cfg, c, k) ==
    \/ k = ChainLen(cfg, c)
    \/ cfg.chains[c][k] \in cfg.remote
    \/ cfg.chains[c][k+1] \in cfg.remote

FwdRules(cfg, n) ==
    UNION { { [key |-> Sph(c, k), val |-> FwdVal(cfg, c, k)] :
                k \in { j \in 1 .. ChainLen(cfg, c) :
                          cfg.chains[c][j] = n /\ NeedsFwdRule(cfg, c, j) } } :
            c \in Ids(cfg) }

\* Variant: only the end of the chain is considered (case 2 of the comment).
OnlyEndProxyRule(cfg, c, k) ==
    /\ k > 1
    /\ cfg.chains[c][k-1] \notin cfg.remote
    /\ cfg.chains[c][k] \notin cfg.remote
    /\ k = ChainLen(cfg, c)

\* A direct link leads into position k, and the node there is the last one or
\* is followed by a remote one, so that its Enc stage needs an NSH entry that
\* no Dec stage will write.
NeedsProxyRule(cfg, c, k) ==
    /\ k > 1
    /\ cfg.chains[c][k-1] \notin cfg.remote
    /\ cfg.chains[c][k] \notin cfg.remote
    /\ k = ChainLen(cfg, c) \/ cfg.chains[c][k+1] \in cfg.remote

ProxyRules(cfg, n) ==
    UNION { UNION { { [key |-> f, val |-> SphPlusOne(Sph(c, k))] : f \in cfg.flows[c] } :
                    k \in { j \in 1 .. ChainLen(cfg, c) :
                              cfg.chains[c][j] = n /\ NeedsProxyRule(cfg, c, j) } } :
            c \in Ids(cfg) }

\* node_cfgs is built from the nodes that have forwarding rules; proxy rules of
\* any other node would not be sent.
NodesWithRules(cfg) == { n \in Nodes : FwdRules(cfg, n) # {} }

SentProxyRules(cfg, n) == IF FwdRules(cfg, n) # {} THEN ProxyRules(cfg, n) ELSE {}

-----------------------------------------------------------------------------
(***************************************************************************)
(* What a chains configuration has to satisfy.  The code checks only       *)
(* DeployAccepts; the rest is left to the author of the file (the TODOs    *)
(* of parseChainsConfig, the warning cb_deploy prints about direct links). *)
(***************************************************************************)
WellFormed(cfg) ==
    /\ Ids(cfg) \subseteq SPIs
    /\ DOMAIN cfg.flows = Ids(cfg)
    /\ cfg.remote \subseteq Nodes
    /\ \A c \in Ids(cfg) :
          /\ cfg.chains[c] \in Seq(Nodes)
          /\ ChainLen(cfg, c) \in Positions
          /\ cfg.flows[c] \subseteq Flows

\* A node occurs at most once in a chain.
NoRepeats(cfg) ==
    \A c \in Ids(cfg) : \A j, k \in 1 .. ChainLen(cfg, c) :
        cfg.chains[c][j] = cfg.chains[c][k] => j = k

\* A 5-tuple belongs to at most one chain.
FlowsDisjoint(cfg) ==
    \A c, d \in Ids(cfg) : cfg.flows[c] \cap cfg.flows[d] # {} => c = d

\* A node with a direct link belongs to no other chain.
DirectLinksUnshared(cfg) ==
    \A c, d \in Ids(cfg) :
        \A k \in 1 .. ChainLen(cfg, c) - 1, l \in 1 .. ChainLen(cfg, d) :
            ( /\ DirectLink(cfg, c, k)
              /\ cfg.chains[d][l] \in {cfg.chains[c][k], cfg.chains[c][k+1]} )
            => c = d

ValidConfig(cfg) ==
    /\ WellFormed(cfg)
    /\ NoRepeats(cfg)
    /\ FlowsDisjoint(cfg)
    /\ DirectLinksUnshared(cfg)
=============================================================================
