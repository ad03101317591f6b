----------------------------- MODULE Deployment -----------------------------
(***************************************************************************)
(* cb_deploy: containers are created one after the other, veth pairs are   *)
(* made along the chains, and then one goroutine per function runs         *)
(* "docker exec".  The program ends when main returns, and its goroutines  *)
(* with it.                                                                *)
(*                                                                         *)
(* The configuration is the one of Rules, but need not be valid: deciding  *)
(* that is in part the job of this program.  cfg.known are the nodes whose *)
(* Type getTypeExecString knows.                                           *)
(***************************************************************************)
EXTENDS Rules, FiniteSets

CONSTANTS
    Files    \* the chains configurations that may be deployed

ASSUME DeploymentAssumption ==
    \A c \in Files :
        /\ DOMAIN c.chains \subseteq Nat
        /\ \A i \in DOMAIN c.chains : c.chains[i] \in Seq(Nodes)
        /\ c.remote \subseteq Nodes
        /\ c.known \subseteq Nodes

VARIABLES
    cfg,              \* the configuration; it never changes
    main,             \* where main() is
    containers,       \* functions that have a container
    chains_left,      \* chains whose direct links are yet to be made ...
    chain,            \* ... the one at hand, if main is "linking" ...
    pos,              \* ... and the code's index i into it
    dlgid,            \* number of the next direct link
    ingress_ifaces,   \* node -> its end of a veth pair, if it has one
    egress_ifaces,
    sf_left,          \* functions startServiceFunction was not yet called for
    waiting,          \* goroutines of runAndLog that have not started their command
    started           \* functions whose cb_start runs, with its two interfaces

ifaces == <<ingress_ifaces, egress_ifaces, dlgid>>
vars == <<cfg, main, containers, chains_left, chain, pos, ifaces, sf_left, waiting, started>>

\* What cb_start is told about each direction: "-" is "omit the stages".
Default == "default"
Omit    == "-"

Extend(m, k, v) == [x \in DOMAIN m \cup {k} |-> IF x = k THEN v ELSE m[x]]

-----------------------------------------------------------------------------
Init ==
    /\ cfg \in Files
    /\ main = "set-up"
    /\ containers = {}
    /\ chains_left = Ids(cfg)
    /\ chain = 0
    /\ pos = 0
    /\ dlgid = 0
    /\ ingress_ifaces = [x \in {} |-> x]
    /\ egress_ifaces = [x \in {} |-> x]
    /\ sf_left = Nodes
    /\ waiting = {}
    /\ started = [x \in {} |-> x]

\* createNetworkInfra, and the containers src and dst if they were asked for.
CreateNetworkInfra ==
    /\ main = "set-up"
    /\ main' \in {"creating", "aborted"}
    /\ UNCHANGED <<cfg, containers, chains_left, chain, pos, ifaces, sf_left, waiting, started>>

\* CreateNewContainer, with the interfaces attachExtraInterfaces adds: a failure
\* there is only printed, any other one is a panic.
CreateContainer(n) ==
    /\ main = "creating"
    /\ \/ /\ containers' = containers \cup {n}
          /\ main' = IF containers' = Nodes THEN "choosing" ELSE main
       \/ /\ main' = "aborted"
          /\ UNCHANGED containers
    /\ UNCHANGED <<cfg, chains_left, chain, pos, ifaces, sf_left, waiting, started>>

\* The outer loop: a chain of one function is skipped.
NextChain ==
    /\ main = "choosing"
    /\ \/ /\ chains_left = {}
          /\ main' = "starting"
          /\ UNCHANGED <<chains_left, chain, pos>>
       \/ \E c \in chains_left :
            /\ chains_left' = chains_left \ {c}
            /\ chain' = c
            /\ pos' = 1
            /\ main' = IF ChainLen(cfg, c) < 2 THEN main ELSE "linking"
    /\ UNCHANGED <<cfg, containers, ifaces, sf_left, waiting, started>>

\* Variant: only the ingress side is checked for a second link.
HalfTaken(n1, n2) == n2 \in DOMAIN ingress_ifaces

\* "Nodes with direct links should not be shared between chains."
Taken(n1, n2) == n2 \in DOMAIN ingress_ifaces \/ n1 \in DOMAIN egress_ifaces

Advance ==
    /\ pos' = pos + 1
    /\ main' = IF pos' < ChainLen(cfg, chain) THEN main ELSE "choosing"

\* getDirectLinkNames: dl<id>a and dl<id>b.
DirectLinkName(end) == <<dlgid, end>>

\* Variant: the two ends of the pair are exchanged.
SwappedMakeLink(n1, n2) ==
    /\ ingress_ifaces' = Extend(ingress_ifaces, n1, DirectLinkName("b"))
    /\ egress_ifaces' = Extend(egress_ifaces, n2, DirectLinkName("a"))
    /\ dlgid' = dlgid + 1

\* CreateDirectLink: end "a" of a new pair at n1, end "b" at n2.
MakeLink(n1, n2) ==
    /\ ingress_ifaces' = Extend(ingress_ifaces, n2, DirectLinkName("b"))
    /\ egress_ifaces' = Extend(egress_ifaces, n1, DirectLinkName("a"))
    /\ dlgid' = dlgid + 1

\* One round of the inner loop.
LinkStep ==
    LET n1 == cfg.chains[chain][pos]
        n2 == cfg.chains[chain][pos + 1]
        local == n1 \notin cfg.remote /\ n2 \notin cfg.remote
    IN  /\ main = "linking"
        /\ \/ /\ ~local
              /\ Advance
              /\ UNCHANGED ifaces
           \/ /\ local
              /\ Taken(n1, n2)
              /\ main' = "rejected"
              /\ UNCHANGED <<ifaces, pos>>
           \/ /\ local
              /\ ~Taken(n1, n2)
              /\ MakeLink(n1, n2)
              /\ Advance
           \/ /\ local
              /\ ~Taken(n1, n2)
              /\ main' = "aborted"     \* koko fails: os.Exit(1)
              /\ UNCHANGED <<ifaces, pos>>
        /\ UNCHANGED <<cfg, containers, chains_left, chain, sf_left, waiting, started>>

\* The two arguments --ingress and --egress of cb_start.
StartArgs(n) ==
    [ ingress |-> IF n \in DOMAIN ingress_ifaces THEN Omit ELSE Default,
      egress  |-> IF n \in DOMAIN egress_ifaces THEN Omit ELSE Default ]

\* The last loop: a function of unknown type is passed over, for any other one a
\* goroutine is made.
StartFunction(n) ==
    /\ main = "starting"
    /\ sf_left' = sf_left \ {n}
    /\ waiting' = IF n \in cfg.known THEN waiting \cup {n} ELSE waiting
    /\ UNCHANGED <<cfg, main, containers, chains_left, chain, pos, ifaces, started>>

\* The goroutine gets to cmd.Start(), unless main has returned.
RunCommand(n) ==
    /\ main = "starting"
    /\ waiting' = waiting \ {n}
    /\ started' = Extend(started, n, StartArgs(n))
    /\ UNCHANGED <<cfg, main, containers, chains_left, chain, pos, ifaces, sf_left>>

Return ==
    /\ main = "starting"
    /\ sf_left = {}
    /\ main' = "returned"
    /\ UNCHANGED <<cfg, containers, chains_left, chain, pos, ifaces, sf_left, waiting, started>>

Next ==
    \/ CreateNetworkInfra
    \/ \E n \in Nodes \ containers : CreateContainer(n)
    \/ NextChain
    \/ LinkStep
    \/ \E n \in sf_left : StartFunction(n)
    \/ \E n \in waiting : RunCommand(n)
    \/ Return

Spec == Init /\ [][Next]_vars

-----------------------------------------------------------------------------
(***************************************************************************)
(* Properties.                                                             *)
(***************************************************************************)

\* The loop stops at a shared node exactly for the configurations DeployAccepts
\* excludes, in whatever order the file lists its chains.
RejectsExactly ==
    /\ main = "rejected" => ~DeployAccepts(cfg)
    /\ main \in {"starting", "returned"} => DeployAccepts(cfg)

\* When functions are started, the nodes cb_start is told to leave without ingress
\* (egress) stages are the ones the manager's rules assume, and every veth pair
\* joins a node with its successor.
LinksAsAssumed ==
    main \in {"starting", "returned"} =>
        /\ \A n \in Nodes :
              /\ n \in DOMAIN ingress_ifaces <=> ~HasIngress(cfg, n)
              /\ n \in DOMAIN egress_ifaces <=> ~HasEgress(cfg, n)
        /\ \A n \in DOMAIN egress_ifaces :
              \A m \in DOMAIN ingress_ifaces :
                  ingress_ifaces[m][1] = egress_ifaces[n][1] <=> m = Peer(cfg, n)
-----------------------------------------------------------------------------
(***************************************************************************)
(* The inductive invariant: the interfaces are the ends of the links made  *)
(* so far, of which no two share an end.                                   *)
(***************************************************************************)
Mains == {"set-up", "creating", "choosing", "linking", "rejected", "starting", "returned",
          "aborted"}

\* Positions <<c, k>> of the chains at which a direct link begins, and its two ends.
Links == { x \in Ids(cfg) \X Nat : DirectLink(cfg, x[1], x[2]) }
Near(x) == cfg.chains[x[1]][x[2]]
Far(x)  == cfg.chains[x[1]][x[2] + 1]

\* The ones the loops are through with.
Made == { x \in Links : /\ x[1] \notin chains_left
                        /\ main = "linking" /\ x[1] = chain => x[2] < pos }

Loops ==
    /\ cfg \in Files
    /\ main \in Mains
    /\ dlgid \in Nat
    /\ chains_left \subseteq Ids(cfg)
    /\ main = "linking" => /\ chain \in Ids(cfg) \ chains_left
                           /\ pos \in 1 .. ChainLen(cfg, chain) - 1
    /\ main \in {"starting", "returned"} => chains_left = {}

NoSharedEnds ==
    \A x, y \in Made : x # y => Near(x) # Near(y) /\ Far(x) # Far(y)

EndsOfMade ==
    /\ DOMAIN egress_ifaces = { Near(x) : x \in Made }
    /\ DOMAIN ingress_ifaces = { Far(x) : x \in Made }
    /\ \A x \in Made : egress_ifaces[Near(x)][1] = ingress_ifaces[Far(x)][1]

NumbersDiffer ==
    /\ \A n \in DOMAIN egress_ifaces : egress_ifaces[n][1] \in 0 .. dlgid - 1
    /\ \A n, m \in DOMAIN egress_ifaces :
          egress_ifaces[n][1] = egress_ifaces[m][1] => n = m

IndInv ==
    /\ Loops
    /\ main = "rejected" => ~DeployAccepts(cfg)
    /\ main \notin {"rejected", "aborted"} => NoSharedEnds /\ EndsOfMade /\ NumbersDiffer
=============================================================================
