---------------------------- MODULE RulesProofs ----------------------------
(***************************************************************************)
(* Facts about the rules of a valid configuration, for configurations of   *)
(* any number of nodes, chains and flows.                                  *)
(***************************************************************************)
EXTENDS Rules, TLAPS

\* Within a chain of at most 255 functions the subtraction 254 - uint32(i) of
\* InstallConfiguration never wraps, and sph + 1 never carries into the SPI: the key
\* of a position is the header of the next one, and a proxy rule's value its own.
LEMMA SphValue ==
    ASSUME NEW c \in SPIs, NEW k \in Positions
    PROVE  /\ Sph(c, k) = Reached(c, k + 1)
           /\ SphPlusOne(Sph(c, k)) = Reached(c, k)
           /\ Sph(c, k) \in SPH
           /\ Reached(c, k) \in SPH
           /\ Reached(c, k).si # 0
           /\ [Reached(c, k) EXCEPT !.si = @ - 1] = Sph(c, k)
<1>0. SPICount \in Nat /\ c \in 0 .. SPICount - 1
  <2>1. SPICount \in Nat
    BY SMT DEF SPICount
  <2> QED
    BY <2>1 DEF SPIs
<1>1. c % SPICount = c
  BY <1>0
<1>2. k \in 1 .. 255
  BY DEF Positions
<1>3. Sph(c, k) = [spi |-> c, si |-> 255 - k]
  BY <1>1, <1>2 DEF Sph
<1>4. Sph(c, k) = Reached(c, k + 1)
  BY <1>2, <1>3 DEF Reached
<1>5. SphPlusOne(Sph(c, k)) = Reached(c, k)
  BY <1>2, <1>3 DEF SphPlusOne, Reached
<1>6. Sph(c, k) \in SPH /\ Reached(c, k) \in SPH /\ Reached(c, k).si # 0
  BY <1>2, <1>3 DEF SPH, SIs, Reached
<1>7. [Reached(c, k) EXCEPT !.si = @ - 1] = Sph(c, k)
  BY <1>2, <1>3 DEF Reached
<1> QED
  BY <1>4, <1>5, <1>6, <1>7

\* Different positions have different headers.
LEMMA ReachedInjective ==
    ASSUME NEW c, NEW d, NEW k \in Int, NEW l \in Int, Reached(c, k) = Reached(d, l)
    PROVE  c = d /\ k = l
<1>1. c = d /\ 256 - k = 256 - l
  BY DEF Reached
<1> QED
  BY <1>1

\* Lengths of chains are natural numbers.
LEMMA ChainLenNat ==
    ASSUME NEW cfg, ValidConfig(cfg)
    PROVE  \A d \in Ids(cfg) : ChainLen(cfg, d) \in Nat
<1>1. \A d \in Ids(cfg) : ChainLen(cfg, d) \in Positions
  BY DEF ValidConfig, WellFormed
<1>2. Positions \subseteq Nat
  BY DEF Positions
<1> QED
  BY <1>1, <1>2

\* What a valid configuration says about one position of one chain.
LEMMA ValidPosition ==
    ASSUME NEW cfg, ValidConfig(cfg),
           NEW c \in Ids(cfg), NEW k \in 1 .. ChainLen(cfg, c)
    PROVE  /\ c \in SPIs
           /\ ChainLen(cfg, c) \in Nat
           /\ k \in Positions
           /\ cfg.chains[c] \in Seq(Nodes)
           /\ cfg.chains[c][k] \in Nodes
           /\ cfg.flows[c] \subseteq Flows
<1>1. /\ c \in SPIs
      /\ ChainLen(cfg, c) \in Positions
      /\ cfg.chains[c] \in Seq(Nodes)
      /\ cfg.flows[c] \subseteq Flows
  BY DEF ValidConfig, WellFormed
<1>2. ChainLen(cfg, c) \in Nat /\ k \in Positions
  <2>1. ChainLen(cfg, c) \in Positions
    BY <1>1
  <2> QED
    BY <2>1 DEF Positions
<1>3. cfg.chains[c][k] \in Nodes
  BY <1>1 DEF ChainLen
<1> QED
  BY <1>1, <1>2, <1>3

\* cb_deploy's flags agree with the positions: in a valid configuration a node is
\* started without ingress stages exactly when the link into it, in the one chain
\* that may hold it, is direct, and without egress stages exactly when the link
\* out of it is.
LEMMA StagesMatchLinks ==
    ASSUME NEW cfg, ValidConfig(cfg),
           NEW c \in Ids(cfg), NEW k \in 1 .. ChainLen(cfg, c)
    PROVE  /\ HasIngress(cfg, cfg.chains[c][k]) <=> ~DirectLink(cfg, c, k - 1)
           /\ HasEgress(cfg, cfg.chains[c][k]) <=> ~DirectLink(cfg, c, k)
<1> DEFINE n == cfg.chains[c][k]
<1>0. \A d \in Ids(cfg) : ChainLen(cfg, d) \in Nat
  BY ChainLenNat
<1>1. ASSUME NEW d \in Ids(cfg), NEW l \in 1 .. ChainLen(cfg, d) - 1,
             DirectLink(cfg, d, l), cfg.chains[d][l+1] = n
      PROVE  DirectLink(cfg, c, k - 1)
  <2>1. c = d
    BY <1>1 DEF ValidConfig, DirectLinksUnshared
  <2>2. l + 1 = k
    BY <1>0, <1>1, <2>1 DEF ValidConfig, NoRepeats
  <2>3. l = k - 1
    BY <1>0, <2>2
  <2> QED
    BY <1>1, <2>1, <2>3
<1>2. ASSUME NEW d \in Ids(cfg), NEW l \in 1 .. ChainLen(cfg, d) - 1,
             DirectLink(cfg, d, l), cfg.chains[d][l] = n
      PROVE  DirectLink(cfg, c, k)
  <2>1. c = d
    BY <1>2 DEF ValidConfig, DirectLinksUnshared
  <2>2. l = k
    BY <1>0, <1>2, <2>1 DEF ValidConfig, NoRepeats
  <2> QED
    BY <1>2, <2>1, <2>2
<1>3. ASSUME DirectLink(cfg, c, k - 1)
      PROVE  ~HasIngress(cfg, n)
  <2>1. k - 1 \in 1 .. ChainLen(cfg, c) - 1 /\ (k - 1) + 1 = k
    BY <1>0, <1>3 DEF DirectLink
  <2> QED
    BY <1>3, <2>1 DEF HasIngress
<1>4. ASSUME DirectLink(cfg, c, k)
      PROVE  ~HasEgress(cfg, n)
  BY <1>4 DEF HasEgress, DirectLink
<1>5. ~DirectLink(cfg, c, k - 1) => HasIngress(cfg, n)
  BY <1>1 DEF HasIngress
<1>6. ~DirectLink(cfg, c, k) => HasEgress(cfg, n)
  BY <1>2 DEF HasEgress
<1> QED
  BY <1>3, <1>4, <1>5, <1>6

\* The veth pair out of a node leads to the next function of its chain.
LEMMA PeerIsNext ==
    ASSUME NEW cfg, ValidConfig(cfg),
           NEW c \in Ids(cfg), NEW k \in 1 .. ChainLen(cfg, c),
           ~HasEgress(cfg, cfg.chains[c][k])
    PROVE  /\ k + 1 \in 1 .. ChainLen(cfg, c)
           /\ Peer(cfg, cfg.chains[c][k]) = cfg.chains[c][k+1]
<1> DEFINE n == cfg.chains[c][k]
           P(m) == \E d \in Ids(cfg) : \E l \in 1 .. ChainLen(cfg, d) - 1 :
                      /\ DirectLink(cfg, d, l)
                      /\ cfg.chains[d][l] = n
                      /\ cfg.chains[d][l+1] = m
<1>0. \A d \in Ids(cfg) : ChainLen(cfg, d) \in Nat
  BY ChainLenNat
<1>1. DirectLink(cfg, c, k)
  BY StagesMatchLinks
<1>2. k + 1 \in 1 .. ChainLen(cfg, c) /\ k \in 1 .. ChainLen(cfg, c) - 1
  BY <1>0, <1>1 DEF DirectLink
<1>3. cfg.chains[c][k+1] \in Nodes
  BY <1>2, ValidPosition
<1>4. P(cfg.chains[c][k+1])
  BY <1>1, <1>2
<1>5. ASSUME NEW m \in Nodes, P(m)
      PROVE  m = cfg.chains[c][k+1]
  <2>0. PICK d \in Ids(cfg) : \E l \in 1 .. ChainLen(cfg, d) - 1 :
             DirectLink(cfg, d, l) /\ cfg.chains[d][l] = n /\ cfg.chains[d][l+1] = m
    BY <1>5
  <2>1. PICK l \in 1 .. ChainLen(cfg, d) - 1 :
             DirectLink(cfg, d, l) /\ cfg.chains[d][l] = n /\ cfg.chains[d][l+1] = m
    BY <2>0
  <2>2. c = d
    BY <2>1 DEF ValidConfig, DirectLinksUnshared
  <2>3. l = k
    BY <1>0, <2>1, <2>2 DEF ValidConfig, NoRepeats
  <2> QED
    BY <2>1, <2>2, <2>3
<1>6. Peer(cfg, n) = CHOOSE m \in Nodes : P(m)
  BY DEF Peer
<1>7. (CHOOSE m \in Nodes : P(m)) = cfg.chains[c][k+1]
  <2> HIDE DEF P
  <2> QED BY <1>3, <1>4, <1>5
<1> QED
  BY <1>2, <1>6, <1>7

\* A forwarding rule is made exactly where no direct link leads on, that is, for
\* exactly the positions whose node has an Enc stage.
LEMMA FwdRuleWhereEgress ==
    ASSUME NEW cfg, ValidConfig(cfg),
           NEW c \in Ids(cfg), NEW k \in 1 .. ChainLen(cfg, c)
    PROVE  /\ NeedsFwdRule(cfg, c, k) <=> HasEgress(cfg, cfg.chains[c][k])
           /\ NeedsFwdRule(cfg, c, k) =>
                [key |-> Sph(c, k), val |-> FwdVal(cfg, c, k)]
                    \in FwdRules(cfg, cfg.chains[c][k])
<1>1. ChainLen(cfg, c) \in Nat
  BY ValidPosition
<1>2. NeedsFwdRule(cfg, c, k) <=> ~DirectLink(cfg, c, k)
  BY <1>1 DEF NeedsFwdRule, DirectLink
<1>3. ASSUME NeedsFwdRule(cfg, c, k)
      PROVE  [key |-> Sph(c, k), val |-> FwdVal(cfg, c, k)]
                \in FwdRules(cfg, cfg.chains[c][k])
  <2>1. k \in { j \in 1 .. ChainLen(cfg, c) :
                  cfg.chains[c][j] = cfg.chains[c][k] /\ NeedsFwdRule(cfg, c, j) }
    BY <1>3
  <2> QED
    BY <2>1 DEF FwdRules
<1> QED
  BY <1>2, <1>3, StagesMatchLinks

\* Two positions never share a key, so a node's entry for an SPH is the one of the
\* position the SPH belongs to.
LEMMA FwdRuleUnique ==
    ASSUME NEW cfg, ValidConfig(cfg), NEW n, NEW r \in FwdRules(cfg, n),
           NEW c \in Ids(cfg), NEW k \in 1 .. ChainLen(cfg, c),
           r.key = Sph(c, k)
    PROVE  r.val = FwdVal(cfg, c, k) /\ n = cfg.chains[c][k]
<1>0. PICK d \in Ids(cfg) : \E l \in 1 .. ChainLen(cfg, d) :
           /\ cfg.chains[d][l] = n
           /\ r = [key |-> Sph(d, l), val |-> FwdVal(cfg, d, l)]
  BY DEF FwdRules
<1>1. PICK l \in 1 .. ChainLen(cfg, d) :
           /\ cfg.chains[d][l] = n
           /\ r = [key |-> Sph(d, l), val |-> FwdVal(cfg, d, l)]
  BY <1>0
<1>2. /\ c \in SPIs /\ k \in Positions
      /\ d \in SPIs /\ l \in Positions
  BY ValidPosition
<1>3. Reached(c, k + 1) = Reached(d, l + 1)
  <2>1. Sph(c, k) = Reached(c, k + 1) /\ Sph(d, l) = Reached(d, l + 1)
    BY <1>2, SphValue
  <2> QED
    BY <1>1, <2>1
<1>4. k + 1 \in Int /\ l + 1 \in Int
  BY <1>2 DEF Positions
<1>5. c = d /\ k + 1 = l + 1
  BY <1>3, <1>4, ReachedInjective
<1>6. k = l
  BY <1>2, <1>5 DEF Positions
<1> QED
  BY <1>1, <1>5, <1>6

\* Two rules of a node with the same key are the same.
LEMMA FwdRulesAgree ==
    ASSUME NEW cfg, ValidConfig(cfg), NEW n,
           NEW r \in FwdRules(cfg, n), NEW s \in FwdRules(cfg, n), r.key = s.key
    PROVE  r.val = s.val
<1>1. PICK d \in Ids(cfg) : \E l \in 1 .. ChainLen(cfg, d) :
           s = [key |-> Sph(d, l), val |-> FwdVal(cfg, d, l)]
  BY DEF FwdRules
<1>2. PICK l \in 1 .. ChainLen(cfg, d) :
           s = [key |-> Sph(d, l), val |-> FwdVal(cfg, d, l)]
  BY <1>1
<1>3. r.key = Sph(d, l) /\ s.key = Sph(d, l) /\ s.val = FwdVal(cfg, d, l)
  BY <1>2
<1>4. r.val = FwdVal(cfg, d, l) /\ s.val = FwdVal(cfg, d, l)
  BY <1>3, FwdRuleUnique
<1> QED
  BY <1>4

\* Forwarding rules are well typed.
LEMMA FwdRuleType ==
    ASSUME NEW cfg, ValidConfig(cfg), NEW n, NEW r \in FwdRules(cfg, n)
    PROVE  r.key \in SPH /\ r.val \in FwdEntry /\ r = [key |-> r.key, val |-> r.val]
<1>0. PICK d \in Ids(cfg) : \E l \in 1 .. ChainLen(cfg, d) :
           r = [key |-> Sph(d, l), val |-> FwdVal(cfg, d, l)]
  BY DEF FwdRules
<1>1. PICK l \in 1 .. ChainLen(cfg, d) :
           r = [key |-> Sph(d, l), val |-> FwdVal(cfg, d, l)]
  BY <1>0
<1>2. Sph(d, l) \in SPH
  <2>1. d \in SPIs /\ l \in Positions
    BY ValidPosition
  <2> QED
    BY <2>1, SphValue
<1>3. FwdVal(cfg, d, l) \in FwdEntry
  <2>1. CASE l = ChainLen(cfg, d)
    BY <2>1 DEF FwdVal, FwdEntry
  <2>2. CASE l # ChainLen(cfg, d)
    <3>1. l + 1 \in 1 .. ChainLen(cfg, d)
      <4>1. ChainLen(cfg, d) \in Nat
        BY ValidPosition
      <4> QED
        BY <2>2, <4>1
    <3>2. cfg.chains[d][l+1] \in Nodes
      BY <3>1, ValidPosition
    <3> QED
      BY <2>2, <3>2 DEF FwdVal, FwdEntry, HelloAddress
  <2> QED
    BY <2>1, <2>2
<1> QED
  BY <1>1, <1>2, <1>3

\* A proxy rule stores the very header a packet of the flow would have brought to
\* this position if it had come over the wire.
LEMMA ProxyRuleValue ==
    ASSUME NEW cfg, ValidConfig(cfg), NEW n, NEW r \in ProxyRules(cfg, n)
    PROVE  \E c \in Ids(cfg) : \E k \in 1 .. ChainLen(cfg, c) :
               /\ r.key \in cfg.flows[c]
               /\ r.key \in Flows
               /\ cfg.chains[c][k] = n
               /\ r.val = Reached(c, k)
               /\ r.val \in SPH
<1>0. PICK c \in Ids(cfg) :
           \E k \in 1 .. ChainLen(cfg, c) : \E f \in cfg.flows[c] :
               /\ cfg.chains[c][k] = n
               /\ r = [key |-> f, val |-> SphPlusOne(Sph(c, k))]
  BY DEF ProxyRules
<1>1. PICK k \in 1 .. ChainLen(cfg, c), f \in cfg.flows[c] :
           /\ cfg.chains[c][k] = n
           /\ r = [key |-> f, val |-> SphPlusOne(Sph(c, k))]
  BY <1>0
<1>2. c \in SPIs /\ k \in Positions /\ cfg.flows[c] \subseteq Flows
  BY ValidPosition
<1>3. SphPlusOne(Sph(c, k)) = Reached(c, k) /\ Reached(c, k) \in SPH
  BY <1>2, SphValue
<1> QED
  BY <1>1, <1>2, <1>3

\* Where a node has an Enc stage but no Dec stage, every flow of the chain has a
\* proxy rule there, and it is sent.
LEMMA ProxyRuleWhereNoIngress ==
    ASSUME NEW cfg, ValidConfig(cfg),
           NEW c \in Ids(cfg), NEW k \in 1 .. ChainLen(cfg, c),
           ~HasIngress(cfg, cfg.chains[c][k]), HasEgress(cfg, cfg.chains[c][k]),
           NEW f \in cfg.flows[c]
    PROVE  \E r \in SentProxyRules(cfg, cfg.chains[c][k]) : r.key = f
<1> DEFINE n == cfg.chains[c][k]
           r == [key |-> f, val |-> SphPlusOne(Sph(c, k))]
<1>1. ChainLen(cfg, c) \in Nat
  BY ValidPosition
<1>2. DirectLink(cfg, c, k - 1) /\ ~DirectLink(cfg, c, k)
  BY StagesMatchLinks
<1>3. NeedsProxyRule(cfg, c, k)
  <2>1. /\ k > 1
        /\ cfg.chains[c][k-1] \notin cfg.remote
        /\ cfg.chains[c][k] \notin cfg.remote
    <3>1. k - 1 \in 1 .. ChainLen(cfg, c) - 1 /\ (k - 1) + 1 = k
      BY <1>1, <1>2 DEF DirectLink
    <3> QED
      BY <1>1, <1>2, <3>1 DEF DirectLink
  <2>2. k = ChainLen(cfg, c) \/ cfg.chains[c][k+1] \in cfg.remote
    BY <1>1, <1>2, <2>1 DEF DirectLink
  <2> QED
    BY <2>1, <2>2 DEF NeedsProxyRule
<1>4. r \in ProxyRules(cfg, n)
  <2>1. k \in { j \in 1 .. ChainLen(cfg, c) :
                  cfg.chains[c][j] = n /\ NeedsProxyRule(cfg, c, j) }
    BY <1>3
  <2>2. r \in { [key |-> g, val |-> SphPlusOne(Sph(c, k))] : g \in cfg.flows[c] }
    OBVIOUS
  <2> QED
    BY <2>1, <2>2 DEF ProxyRules
<1>5. FwdRules(cfg, n) # {}
  BY FwdRuleWhereEgress, ValidPosition
<1> QED
  BY <1>4, <1>5 DEF SentProxyRules

\* cb_deploy does not stop at a valid configuration: its check of shared direct links
\* is weaker than what a configuration has to satisfy.
THEOREM ValidAccepted ==
    ASSUME NEW cfg, ValidConfig(cfg)
    PROVE  DeployAccepts(cfg)
<1>0. \A d \in Ids(cfg) : ChainLen(cfg, d) \in Nat
  BY ChainLenNat
<1> SUFFICES ASSUME NEW c \in Ids(cfg), NEW d \in Ids(cfg),
                    NEW k \in 1 .. ChainLen(cfg, c) - 1,
                    NEW l \in 1 .. ChainLen(cfg, d) - 1,
                    DirectLink(cfg, c, k), DirectLink(cfg, d, l),
                    \/ cfg.chains[c][k+1] = cfg.chains[d][l+1]
                    \/ cfg.chains[c][k] = cfg.chains[d][l]
             PROVE  c = d /\ k = l
  BY DEF DeployAccepts
<1>1. /\ l \in 1 .. ChainLen(cfg, d) /\ l + 1 \in 1 .. ChainLen(cfg, d)
      /\ k \in 1 .. ChainLen(cfg, c) /\ k + 1 \in 1 .. ChainLen(cfg, c)
  BY <1>0
<1>2. c = d
  BY <1>1 DEF ValidConfig, DirectLinksUnshared
<1>3. k = l
  <2>1. CASE cfg.chains[c][k] = cfg.chains[d][l]
    BY <1>1, <1>2, <2>1 DEF ValidConfig, NoRepeats
  <2>2. CASE cfg.chains[c][k+1] = cfg.chains[d][l+1]
    <3>1. k + 1 = l + 1
      BY <1>1, <1>2, <2>2 DEF ValidConfig, NoRepeats
    <3> QED
      BY <1>0, <3>1
  <2> QED
    BY <2>1, <2>2
<1> QED
  BY <1>2, <1>3
=============================================================================
