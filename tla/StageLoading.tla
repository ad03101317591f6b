---------------------------- MODULE StageLoading ----------------------------
(***************************************************************************)
(* How cb_agent attaches the stages of its node, command by command, and   *)
(* what a process that dies or fails leaves to the next one: programs stay *)
(* attached to the interfaces, and the pinned map src_mac keeps its        *)
(* content.                                                                *)
(*                                                                         *)
(* Neither "ip link set xdp" nor "tc filter add" replaces a program that   *)
(* is there: the command fails, and the loader removes the program it      *)
(* found.                                                                  *)
(***************************************************************************)
EXTENDS Naturals

CONSTANTS
    MaxFaults,   \* bound: commands that fail for no reason, deaths
    MaxRetries   \* bound: processes in a row that fail without a new fault

ASSUME StageLoadingAssumption == MaxFaults \in Nat /\ MaxRetries \in Nat \ {0}

VARIABLES
    wanted,    \* the directions the agent was asked for; it never changes
    pc,        \* where NewCBAgent is
    attached,  \* the programs on the two interfaces, and the clsact qdisc
    src_mac,   \* directions whose entry of the pinned map was written, with what
               \* SIOCGIFHWADDR left in ifr: its result is not looked at
    handles,   \* maps the process has opened
    faults,    \* faults so far
    retries    \* processes that have failed since the last fault (history)

vars == <<wanted, pc, attached, src_mac, handles, faults, retries>>

Directions == {"ingress", "egress"}
Programs   == {"dec", "enc", "fwd", "clsact"}
MapFiles   == {"nsh_data", "fwd_table", "src_mac"}

PCs == {"start", "dec", "ingress_mac", "clsact", "enc", "fwd", "egress_mac",
        "connected", "exited"}

\* installStages skips a direction that was not asked for.
AfterIngress == IF "egress" \in wanted THEN "clsact" ELSE "connected"

Init ==
    /\ wanted \in SUBSET Directions
    /\ pc = "start"
    /\ attached = {}
    /\ src_mac = {}
    /\ handles = {}
    /\ faults = 0
    /\ retries = 0

-----------------------------------------------------------------------------
\* A command does what it is for, or not.
Succeeds == UNCHANGED <<faults, retries>>

\* It cannot: the process ends, and this is not a fault.
Refused == pc' = "exited" /\ retries' = retries + 1 /\ UNCHANGED faults

\* It could but does not.
Broken ==
    /\ faults < MaxFaults
    /\ faults' = faults + 1
    /\ retries' = 0

\* NewCBAgent looks its interfaces up and calls installStages.
Start ==
    /\ pc = "start"
    /\ \/ pc' = (IF "ingress" \in wanted THEN "dec" ELSE AfterIngress) /\ Succeeds
       \/ pc' = "exited" /\ wanted # {} /\ Broken
    /\ UNCHANGED <<wanted, attached, src_mac, handles>>

\* A command that adds program x: it is refused if x is there, or if something it
\* needs is not; the loader then takes away what is in "removed" and gives up.  The
\* result of the removal is not looked at.
Attach(x, needs, removed, then) ==
    /\ \/ /\ x \notin attached /\ needs \subseteq attached
          /\ attached' = attached \cup {x}
          /\ pc' = then
          /\ Succeeds
       \/ /\ x \in attached \/ ~(needs \subseteq attached)
          /\ attached' = attached \ removed
          /\ Refused
       \/ /\ attached' \in {attached, attached \ removed}
          /\ pc' = "exited"
          /\ Broken
    /\ UNCHANGED <<wanted, src_mac, handles>>

\* Variant: the program that is in the way is left there.
StubbornAttachDec ==
    /\ pc = "dec"
    /\ Attach("dec", {}, {}, "ingress_mac")

\* xdp_add and, if it fails, xdp_remove.
AttachDec ==
    /\ pc = "dec"
    /\ Attach("dec", {}, {"dec"}, "ingress_mac")

\* get_map_fds and config_src_mac_map; what is attached stays when they fail.
\* bpf_obj_get returns -1 when it fails, get_map_fds compares with 0: a map that
\* could not be opened is noticed only if it is src_mac, which is written next.
WriteMac(dir, then) ==
    /\ \/ /\ handles' = MapFiles
          /\ src_mac' = src_mac \cup {dir}
          /\ pc' = then
          /\ Succeeds
       \/ /\ Broken
          /\ handles' \in SUBSET MapFiles
          /\ \/ /\ "src_mac" \in handles'
                /\ src_mac' = src_mac \cup {dir}
                /\ pc' = then
             \/ /\ pc' = "exited"
                /\ UNCHANGED src_mac
    /\ UNCHANGED <<wanted, attached>>

\* Variant: the index of the other interface.
SwappedIngressMac == pc = "ingress_mac" /\ WriteMac("egress", AfterIngress)

WriteIngressMac == pc = "ingress_mac" /\ WriteMac("ingress", AfterIngress)

\* tc_create_clsact: status 2, "already created", is ignored, but tc uses it for
\* many errors.
CreateClsact ==
    /\ pc = "clsact"
    /\ \/ attached' = attached \cup {"clsact"} /\ pc' = "enc" /\ Succeeds
       \/ Broken /\ pc' \in {"enc", "exited"} /\ UNCHANGED attached
    /\ UNCHANGED <<wanted, src_mac, handles>>

\* Variant: only the filter that is in the way is removed.
OwnFilter == {"enc"}

\* tc_remove_filter: all the filters of the direction.
Filters == {"enc", "fwd"}

AttachEnc ==
    /\ pc = "enc"
    /\ Attach("enc", {"clsact"}, Filters, "fwd")

AttachFwd ==
    /\ pc = "fwd"
    /\ Attach("fwd", {"clsact"}, Filters, "egress_mac")

\* Variant: the loader stops after the programs.
SkippedEgressMac ==
    /\ pc = "egress_mac"
    /\ pc' = "connected"
    /\ UNCHANGED <<wanted, attached, src_mac, handles, faults, retries>>

WriteEgressMac == pc = "egress_mac" /\ WriteMac("egress", "connected")

\* The process dies; its programs stay.
Die ==
    /\ pc # "exited"
    /\ Broken
    /\ pc' = "exited"
    /\ UNCHANGED <<wanted, attached, src_mac, handles>>

Restart ==
    /\ pc = "exited"
    /\ retries < MaxRetries
    /\ pc' = "start"
    /\ handles' = {}
    /\ UNCHANGED <<wanted, attached, src_mac, faults, retries>>

Next ==
    \/ Start \/ AttachDec \/ WriteIngressMac
    \/ CreateClsact \/ AttachEnc \/ AttachFwd \/ WriteEgressMac
    \/ Die \/ Restart

Spec == Init /\ [][Next]_vars

-----------------------------------------------------------------------------
(***************************************************************************)
(* Properties.                                                             *)
(***************************************************************************)

\* The state is of the shape the interfaces and the pinned map have.
TypeOK ==
    /\ wanted \subseteq Directions
    /\ pc \in PCs
    /\ attached \subseteq Programs
    /\ src_mac \subseteq wanted
    /\ handles \subseteq MapFiles
    /\ faults \in 0 .. MaxFaults
    /\ retries \in 0 .. MaxRetries

\* An agent that goes on to say Hello has every stage it was asked for attached
\* and every MAC written, whatever earlier processes have left behind.
HelloMeansReady ==
    pc = "connected" =>
        /\ "ingress" \in wanted => "dec" \in attached
        /\ "egress" \in wanted => {"enc", "fwd"} \subseteq attached
        /\ src_mac = wanted

\* Fwd, which takes for an NSH header whatever follows the Ethernet header, is
\* never attached without Enc in front of it.
FwdBehindEnc == "fwd" \in attached => "enc" \in attached

\* Starting the agent again helps: unless something new goes wrong, at most three
\* processes in a row are refused because of what earlier ones have left.
ThreeRetriesSuffice == retries <= 3

\* "Check if we got handles to all maps": an agent that has loaded a stage and says
\* Hello can write the rules it will be sent.
HandlesChecked == (pc = "connected" /\ wanted # {}) => handles = MapFiles

-----------------------------------------------------------------------------
(***************************************************************************)
(* The inductive invariant.                                                *)
(***************************************************************************)

\* What the process that is under way has achieved so far.
Progress ==
    /\ pc \in {"dec", "ingress_mac"} => "ingress" \in wanted
    /\ pc = "ingress_mac" => "dec" \in attached
    /\ pc \in {"clsact", "enc", "fwd", "egress_mac"} => "egress" \in wanted
    /\ (pc \in {"clsact", "enc", "fwd", "egress_mac", "connected"} /\ "ingress" \in wanted)
          => "dec" \in attached /\ "ingress" \in src_mac
    /\ pc = "fwd" => "enc" \in attached /\ "fwd" \notin attached /\ "clsact" \in attached
    /\ pc = "egress_mac" => {"enc", "fwd"} \subseteq attached
    /\ (pc = "connected" /\ "egress" \in wanted) => {"enc", "fwd"} \subseteq attached /\ "egress" \in src_mac
    /\ pc # "exited" => retries < MaxRetries

\* How many more processes what is attached now may refuse: Dec and Enc stand in the
\* way of one each, and a process that attaches Dec again before it fails at Enc
\* leaves it to the next one.
Debt ==
    IF pc \in {"exited", "start", "dec"}
    THEN IF "dec" \in attached THEN (IF "enc" \in attached THEN 3 ELSE 1) ELSE (IF "enc" \in attached THEN 2 ELSE 0)
    ELSE IF pc \in {"ingress_mac", "clsact"} THEN (IF "enc" \in attached THEN 2 ELSE 0)
    ELSE IF pc = "enc" /\ ("enc" \in attached \/ "clsact" \notin attached) THEN 2 ELSE 0

IndInv ==
    /\ TypeOK
    /\ FwdBehindEnc
    /\ Progress
    /\ retries + Debt <= 3
=============================================================================
