----------------------------- MODULE DataPlane -----------------------------
(***************************************************************************)
(* Packets travelling through the classifier and the Dec, Enc and Fwd      *)
(* stages of the nodes, while the agents install the rules the manager     *)
(* sent.  The eBPF programs run concurrently with each other and with the  *)
(* agents; they meet in the maps nsh_data and fwd_table of each node.      *)
(*                                                                         *)
(* Every action is one access to a map: Dec is one step, Enc is two (the   *)
(* lookup in nsh_data and the lookup in fwd_table), Fwd is one, and an     *)
(* agent installs one rule at a time.                                      *)
(***************************************************************************)
EXTENDS Rules, FiniteSets

CONSTANTS
    Configs,       \* the chains configurations considered
    Packets,       \* packet identities
    FlowOf,        \* the 5-tuple of each packet
    NshDataSize,   \* capacity of nsh_data (2048)
    FwdTableSize   \* capacity of fwd_table (2048)

ASSUME DataPlaneAssumption ==
    /\ \A c \in Configs : ValidConfig(c)
    /\ FlowOf \in [Packets -> Flows]
    /\ NshDataSize \in Nat
    /\ FwdTableSize \in Nat

VARIABLES
    cfg,          \* the configuration in use; it never changes
    nsh_data,     \* per node, the pinned map from 5-tuples to the stored SPH
    fwd_table,    \* per node, the pinned map from SPHs to forwarding entries
    todo_fwd,     \* per node, the forwarding rules the agent has yet to install
    todo_proxy,   \* per node, the proxy rules the agent has yet to install
    pc,           \* per packet, where it is
    at,           \* per packet, the node that holds it or, on the wire, the
                  \* destination MAC of the outer frame
    sph,          \* per packet, the SPH of its NSH header (or the one Enc holds)
    visited,      \* per packet, the functions that have processed it (history)
    settled       \* per packet, whether it was classified after every agent had
                  \* finished installing (history)

tables == <<nsh_data, fwd_table, todo_fwd, todo_proxy>>
packet == <<pc, at, sph, visited, settled>>
vars   == <<cfg, tables, packet>>

(***************************************************************************)
(* "source"  not yet seen by the classifier                                *)
(* "wire"    an NSH frame between two nodes                                *)
(* "sf"      a plain frame, about to be processed by a service function    *)
(* "encap"   a plain frame at the egress hook, before Enc                  *)
(* "route"   inside Enc, between its two lookups                           *)
(* "forward" an NSH frame between Enc and Fwd                              *)
(***************************************************************************)
InFlight == {"wire", "sf", "encap", "route", "forward"}

(***************************************************************************)
(* "plain"      not classified, passed along untouched                     *)
(* "ended"      sent away at the end of the chain                          *)
(* "bypass"     sent away by Enc because nsh_data has no entry for it      *)
(* "si_zero"    dropped by Enc, "Anomalous SI number"                      *)
(* "no_rule"    dropped by Fwd, "No corresponding rule"                    *)
(* "second_end" dropped by Fwd, "Second end of chain"                      *)
(* "consumed"   dropped by a service function                              *)
(* "lost"       dropped by the network or by a failing kernel helper       *)
(***************************************************************************)
Gone == {"plain", "ended", "bypass", "si_zero", "no_rule", "second_end",
         "consumed", "lost"}

-----------------------------------------------------------------------------
\* bpf_map_update_elem(m, k, v, BPF_ANY) on a hash map of the given size: a new
\* key does not fit into a full map, and no caller looks at the error.
Room(m, size) == Cardinality(DOMAIN m) < size

MapUpdate(m, size, k, v) ==
    IF k \in DOMAIN m \/ Room(m, size)
    THEN [x \in DOMAIN m \cup {k} |-> IF x = k THEN v ELSE m[x]]
    ELSE m

\* "Anomalous SI number": there is nothing left to decrement.
SiExhausted(s) == s.si = 0

EmptyMap == [x \in {} |-> x]

\* The chains whose classifier rule matches flow f: none or one.
ChainsOf(f) == { c \in Ids(cfg) : f \in cfg.flows[c] }

Installed == \A n \in Nodes : todo_fwd[n] = {} /\ todo_proxy[n] = {}

Move(p, where) == pc' = [pc EXCEPT ![p] = where]

-----------------------------------------------------------------------------
Init ==
    /\ cfg \in Configs
    /\ nsh_data = [n \in Nodes |-> EmptyMap]
    /\ fwd_table = [n \in Nodes |-> EmptyMap]
    /\ todo_fwd = [n \in Nodes |-> FwdRules(cfg, n)]
    /\ todo_proxy = [n \in Nodes |-> SentProxyRules(cfg, n)]
    /\ pc = [p \in Packets |-> "source"]
    /\ at = [p \in Packets |-> ZeroAddr]
    /\ sph = [p \in Packets |-> [spi |-> 0, si |-> 0]]
    /\ visited = [p \in Packets |-> <<>>]
    /\ settled = [p \in Packets |-> FALSE]

\* handleInstall: the forwarding rules first ...
AddFwdRule(n) ==
    \E r \in todo_fwd[n] :
        /\ fwd_table' = [fwd_table EXCEPT
                            ![n] = MapUpdate(@, FwdTableSize, r.key, r.val)]
        /\ todo_fwd' = [todo_fwd EXCEPT ![n] = @ \ {r}]
        /\ UNCHANGED <<cfg, nsh_data, todo_proxy, packet>>

\* ... and then the proxy rules, which write the map the Dec stage writes.
AddProxyRule(n) ==
    /\ todo_fwd[n] = {}
    /\ \E r \in todo_proxy[n] :
        /\ nsh_data' = [nsh_data EXCEPT
                            ![n] = MapUpdate(@, NshDataSize, r.key, r.val)]
        /\ todo_proxy' = [todo_proxy EXCEPT ![n] = @ \ {r}]
        /\ UNCHANGED <<cfg, fwd_table, todo_fwd, packet>>

\* The classifier encapsulates a packet of a known flow and addresses it to the
\* first node of the chain.  (Lose covers the kernel helper that fails here.)
ClassifyMatch(p) ==
    /\ pc[p] = "source"
    /\ \E c \in ChainsOf(FlowOf[p]) :
        /\ sph' = [sph EXCEPT ![p] = ClassifierSph(c)]
        /\ at' = [at EXCEPT ![p] = HelloAddress(cfg, cfg.chains[c][1])]
    /\ settled' = [settled EXCEPT ![p] = Installed]
    /\ Move(p, "wire")
    /\ UNCHANGED <<cfg, tables, visited>>

ClassifyPass(p) ==
    /\ pc[p] = "source"
    /\ ChainsOf(FlowOf[p]) = {}
    /\ Move(p, "plain")
    /\ UNCHANGED <<cfg, tables, at, sph, visited, settled>>

\* Variant: Dec without the comparison of the destination MAC.
PromiscuousDecap(n, p) ==
    /\ pc[p] = "wire"
    /\ HasIngress(cfg, n)
    /\ nsh_data' = [nsh_data EXCEPT
                        ![n] = MapUpdate(@, NshDataSize, FlowOf[p], sph[p])]
    /\ at' = [at EXCEPT ![p] = n]
    /\ Move(p, "sf")
    /\ UNCHANGED <<cfg, fwd_table, todo_fwd, todo_proxy, sph, visited, settled>>

\* Variant: Dec that does not keep the NSH header.
ForgetfulDecap(n, p) ==
    /\ pc[p] = "wire"
    /\ at[p] = n
    /\ HasIngress(cfg, n)
    /\ Move(p, "sf")
    /\ UNCHANGED <<cfg, tables, at, sph, visited, settled>>

\* Dec at node n: a frame for another MAC is not taken.  The NSH header goes to
\* nsh_data, whose failure to store it is ignored, and the frame goes on plain.
DecapNsh(n, p) ==
    /\ pc[p] = "wire"
    /\ at[p] = n
    /\ HasIngress(cfg, n)
    /\ nsh_data' = [nsh_data EXCEPT
                        ![n] = MapUpdate(@, NshDataSize, FlowOf[p], sph[p])]
    /\ Move(p, "sf")
    /\ UNCHANGED <<cfg, fwd_table, todo_fwd, todo_proxy, at, sph, visited, settled>>

\* The service function passes the packet on: to the Enc stage, or over the
\* direct link when the node was started without egress stages.
Serve(p) ==
    /\ pc[p] = "sf"
    /\ visited' = [visited EXCEPT ![p] = Append(@, at[p])]
    /\ \/ /\ HasEgress(cfg, at[p])
          /\ Move(p, "encap")
          /\ UNCHANGED at
       \/ /\ ~HasEgress(cfg, at[p])
          /\ at' = [at EXCEPT ![p] = Peer(cfg, at[p])]
          /\ UNCHANGED pc
    /\ UNCHANGED <<cfg, tables, sph, settled>>

Consume(p) ==
    /\ pc[p] = "sf"
    /\ Move(p, "consumed")
    /\ UNCHANGED <<cfg, tables, at, sph, visited, settled>>

\* Variant: the SPH is decremented in place, through the pointer into nsh_data.
EncapInPlace(p) ==
    LET m == nsh_data[at[p]] IN
    /\ pc[p] = "encap"
    /\ \/ /\ FlowOf[p] \notin DOMAIN m
          /\ Move(p, "bypass")
          /\ UNCHANGED <<sph, nsh_data>>
       \/ /\ FlowOf[p] \in DOMAIN m
          /\ sph' = [sph EXCEPT ![p] = [m[FlowOf[p]] EXCEPT !.si = @ - 1]]
          /\ nsh_data' = [nsh_data EXCEPT ![at[p]][FlowOf[p]] = sph'[p]]
          /\ Move(p, "route")
    /\ UNCHANGED <<cfg, fwd_table, todo_fwd, todo_proxy, at, visited, settled>>

\* Enc, up to the decrement of the SPH.
EncapLookup(p) ==
    LET m == nsh_data[at[p]] IN
    /\ pc[p] = "encap"
    /\ \/ /\ FlowOf[p] \notin DOMAIN m
          /\ Move(p, "bypass")
          /\ UNCHANGED sph
       \/ /\ FlowOf[p] \in DOMAIN m
          /\ SiExhausted(m[FlowOf[p]])
          /\ Move(p, "si_zero")
          /\ UNCHANGED sph
       \/ /\ FlowOf[p] \in DOMAIN m
          /\ ~SiExhausted(m[FlowOf[p]])
          /\ sph' = [sph EXCEPT ![p] = [m[FlowOf[p]] EXCEPT !.si = @ - 1]]
          /\ Move(p, "route")
    /\ UNCHANGED <<cfg, tables, at, visited, settled>>

\* Enc, from the first lookup in fwd_table: only an end-of-chain entry stops it
\* from encapsulating the packet; a missing entry does not.  The kernel may have
\* no room for the two headers.
EncapRoute(p) ==
    LET t == fwd_table[at[p]] IN
    /\ pc[p] = "route"
    /\ \/ /\ sph[p] \in DOMAIN t
          /\ t[sph[p]].end
          /\ Move(p, "ended")
       \/ /\ ~(sph[p] \in DOMAIN t /\ t[sph[p]].end)
          /\ Move(p, "forward") \/ Move(p, "lost")
    /\ UNCHANGED <<cfg, tables, at, sph, visited, settled>>

\* Fwd: looks the same SPH up again.
SfcForwarding(p) ==
    LET t == fwd_table[at[p]] IN
    /\ pc[p] = "forward"
    /\ \/ /\ sph[p] \notin DOMAIN t
          /\ Move(p, "no_rule")
          /\ UNCHANGED at
       \/ /\ sph[p] \in DOMAIN t
          /\ t[sph[p]].end
          /\ Move(p, "second_end")
          /\ UNCHANGED at
       \/ /\ sph[p] \in DOMAIN t
          /\ ~t[sph[p]].end
          /\ Move(p, "wire")
          /\ at' = [at EXCEPT ![p] = t[sph[p]].addr]
    /\ UNCHANGED <<cfg, tables, sph, visited, settled>>

\* A frame is lost between two nodes, or before it leaves the classifier, whose
\* request for room for the two headers may fail as well.
Lose(p) ==
    /\ pc[p] = "wire"
    /\ Move(p, "lost")
    /\ UNCHANGED <<cfg, tables, at, sph, visited, settled>>

-----------------------------------------------------------------------------
\* What the stages do with a packet once it is there.
Process(p) ==
    \/ \E n \in Nodes : DecapNsh(n, p)
    \/ Serve(p)
    \/ EncapLookup(p)
    \/ EncapRoute(p)
    \/ SfcForwarding(p)

Install(n) == AddFwdRule(n) \/ AddProxyRule(n)

Next ==
    \/ \E n \in Nodes : Install(n)
    \/ \E p \in Packets : ClassifyMatch(p)
    \/ \E p \in Packets : ClassifyPass(p)
    \/ \E p \in Packets : Process(p)
    \/ \E p \in Packets : Consume(p)
    \/ \E p \in Packets : Lose(p)

Spec == Init /\ [][Next]_vars

\* A frame that reached a hook is processed, and an agent that received its
\* rules installs them.  Nothing obliges packets to arrive.
Fairness ==
    /\ \A n \in Nodes : WF_vars(Install(n))
    /\ \A p \in Packets : WF_vars(Process(p))

FairSpec == Spec /\ Fairness

-----------------------------------------------------------------------------
(***************************************************************************)
(* Properties.                                                             *)
(***************************************************************************)
\* The state is of the shape the maps and the frames have.
TypeOK ==
    /\ cfg \in Configs
    /\ nsh_data = [n \in Nodes |-> nsh_data[n]]
    /\ fwd_table = [n \in Nodes |-> fwd_table[n]]
    /\ todo_fwd = [n \in Nodes |-> todo_fwd[n]]
    /\ todo_proxy = [n \in Nodes |-> todo_proxy[n]]
    /\ \A n \in Nodes :
          /\ DOMAIN nsh_data[n] \subseteq Flows
          /\ \A f \in DOMAIN nsh_data[n] : nsh_data[n][f] \in SPH
          /\ DOMAIN fwd_table[n] \subseteq SPH
          /\ \A s \in DOMAIN fwd_table[n] : fwd_table[n][s] \in FwdEntry
          /\ todo_fwd[n] \subseteq FwdRules(cfg, n)
          /\ todo_proxy[n] \subseteq ProxyRules(cfg, n)
    /\ pc \in [Packets -> {"source"} \cup InFlight \cup Gone]
    /\ at \in [Packets -> Nodes \cup {ZeroAddr}]
    /\ sph \in [Packets -> SPH]
    /\ visited \in [Packets -> Seq(Nodes)]
    /\ settled \in [Packets -> BOOLEAN]

\* Whatever the interleaving of packets and rule installation, the functions
\* that have processed a packet are a prefix of its chain, in order and without
\* repetition: no stage ever sends a packet to a wrong function.
InOrder ==
    \A p \in Packets :
        /\ ChainsOf(FlowOf[p]) = {} => visited[p] = <<>>
        /\ \A c \in ChainsOf(FlowOf[p]) :
              /\ Len(visited[p]) <= ChainLen(cfg, c)
              /\ \A i \in 1 .. Len(visited[p]) : visited[p][i] = cfg.chains[c][i]

\* A packet that Enc sends away as "End of chain" has been processed by every
\* function of its chain.
EndedComplete ==
    \A p \in Packets : pc[p] = "ended" =>
        \A c \in ChainsOf(FlowOf[p]) : Len(visited[p]) = ChainLen(cfg, c)

\* Enc sends a packet away without an NSH entry only where the entry could not be
\* stored because nsh_data is full, or on a node behind a direct link whose proxy
\* rule was still to come when the packet entered the chain.
BypassCause ==
    \A p \in Packets : pc[p] = "bypass" =>
        \/ ~Room(nsh_data[at[p]], NshDataSize)
        \/ ~HasIngress(cfg, at[p]) /\ ~settled[p]

\* Fwd drops a packet only where the rule could not be stored because fwd_table
\* is full, or for a packet that entered the chain before the installation was
\* complete; the SI of a well formed chain never runs out.
DropCause ==
    \A p \in Packets :
        /\ pc[p] # "si_zero"
        /\ pc[p] \in {"no_rule", "second_end"} =>
              ~settled[p] \/ ~Room(fwd_table[at[p]], FwdTableSize)

\* An entry of nsh_data keeps its value: packets of the same flow and the proxy
\* rules never overwrite the SPH another packet still needs.
NshStep ==
    \A n \in Nodes : \A f \in DOMAIN nsh_data[n] :
        f \in DOMAIN nsh_data'[n] /\ nsh_data'[n][f] = nsh_data[n][f]

NshStable == [][NshStep]_vars

\* Every packet that enters a chain leaves it or is dropped: no packet circulates
\* for ever and none gets stuck at a hook.
EveryPacketLeaves ==
    \A p \in Packets : (pc[p] \in InFlight) ~> (pc[p] \in Gone)

-----------------------------------------------------------------------------
(***************************************************************************)
(* The inductive invariant: where a packet is determines its position in   *)
(* the chain and its SPH, and the maps hold nothing but what belongs to a  *)
(* position of a chain.                                                    *)
(***************************************************************************)

\* Every stored NSH header is the one its flow has at this node.
NshInv ==
    \A n \in Nodes : \A f \in DOMAIN nsh_data[n] :
        \E c \in Ids(cfg) : \E k \in 1 .. ChainLen(cfg, c) :
            f \in cfg.flows[c] /\ cfg.chains[c][k] = n /\ nsh_data[n][f] = Reached(c, k)

\* Every forwarding entry is a rule of the manager; a rule that was tried is
\* there, unless the map was full.
FwdInv ==
    \A n \in Nodes :
        /\ \A s \in DOMAIN fwd_table[n] :
              [key |-> s, val |-> fwd_table[n][s]] \in FwdRules(cfg, n)
        /\ \A r \in FwdRules(cfg, n) \ todo_fwd[n] :
              r.key \in DOMAIN fwd_table[n] \/ ~Room(fwd_table[n], FwdTableSize)

ProxyInv ==
    \A n \in Nodes : \A r \in SentProxyRules(cfg, n) \ todo_proxy[n] :
        r.key \in DOMAIN nsh_data[n] \/ ~Room(nsh_data[n], NshDataSize)

SettledInv == \A p \in Packets : settled[p] => Installed

\* Packet p has been through the first k functions of chain c.
Through(p, c, k) ==
    /\ Len(visited[p]) = k
    /\ k <= ChainLen(cfg, c)
    /\ \A i \in 1 .. k : visited[p][i] = cfg.chains[c][i]

\* Dec has stored the NSH header of p, if there is a Dec stage and there was room.
Remembered(p) ==
    HasIngress(cfg, at[p]) =>
        FlowOf[p] \in DOMAIN nsh_data[at[p]] \/ ~Room(nsh_data[at[p]], NshDataSize)

\* p is held by function k of chain c, or by its stages.
HeldBy(p, c, k) == k \in 1 .. ChainLen(cfg, c) /\ at[p] = cfg.chains[c][k]

PacketAt(p, c, k) ==
    /\ Through(p, c, k)
    /\ pc[p] = "wire" =>
          /\ HeldBy(p, c, k + 1)
          /\ HasIngress(cfg, at[p])
          /\ sph[p] = Reached(c, k + 1)
    /\ pc[p] = "sf" => HeldBy(p, c, k + 1) /\ Remembered(p)
    /\ pc[p] \in {"encap", "route", "forward"} =>
          HeldBy(p, c, k) /\ HasEgress(cfg, at[p])
    /\ pc[p] = "encap" => Remembered(p)
    /\ pc[p] \in {"route", "forward"} => sph[p] = Sph(c, k)
    /\ pc[p] = "forward" =>
          (settled[p] /\ Room(fwd_table[at[p]], FwdTableSize) => k < ChainLen(cfg, c))
    /\ pc[p] \in Gone => at[p] \in Nodes
    /\ pc[p] = "ended" => k = ChainLen(cfg, c)

PacketInv ==
    \A p \in Packets :
        /\ pc[p] \in {"source", "plain"} => visited[p] = <<>>
        /\ pc[p] \notin {"source", "plain"} =>
              \E c \in Ids(cfg) : FlowOf[p] \in cfg.flows[c] /\ PacketAt(p, c, Len(visited[p]))

IndInv ==
    /\ TypeOK
    /\ NshInv
    /\ FwdInv
    /\ ProxyInv
    /\ SettledInv
    /\ PacketInv
    /\ BypassCause
    /\ DropCause

-----------------------------------------------------------------------------
(***************************************************************************)
(* DataPlane implements ServiceChain as long as the maps have room for     *)
(* every flow and every rule.                                              *)
(***************************************************************************)
\* The functions a packet of flow f has to go through.
RouteIn(conf, f) ==
    LET own == { c \in Ids(conf) : f \in conf.flows[c] }
    IN  IF own = {} THEN <<>> ELSE conf.chains[CHOOSE c \in own : TRUE]

AbstractState(w) ==
    CASE w = "source" -> "outside"
      [] w \in InFlight -> "inside"
      [] w = "plain" -> "passed"
      [] w = "ended" -> "delivered"
      [] w = "bypass" -> "bypassed"
      [] w \in {"no_rule", "second_end", "si_zero"} -> "refused"
      [] w \in {"consumed", "lost"} -> "dropped"

Chain == INSTANCE ServiceChain WITH
    Functions  <- Nodes,
    route      <- [p \in Packets |-> RouteIn(cfg, FlowOf[p])],
    served     <- visited,
    state      <- [p \in Packets |-> AbstractState(pc[p])],
    ready      <- Installed,
    guaranteed <- settled

\* The stages, the classifier and the agents together behave as a service chain:
\* every step is a step of the abstract chain or leaves it unchanged, and after
\* the installation nothing is let out early or refused.
ImplementsServiceChain == Chain!Spec
=============================================================================
