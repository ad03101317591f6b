---------------------------- MODULE XdpRedirect ----------------------------
(***************************************************************************)
(* A function of type xdp-redirect on its node.  cb_start runs it beside   *)
(* the agent, and both want the XDP hook of the ingress interface: the     *)
(* tool for the program that redirects, the agent for Dec.  The tool also  *)
(* puts a dummy program on the egress interface, which redirection needs.  *)
(*                                                                         *)
(* The tool holds on to its programs until it gets a signal; its handler   *)
(* asks which program is attached and detaches it if it is its own.  The   *)
(* agent attaches Dec with one command and, if that fails, takes off what  *)
(* is there with another.  Nobody looks at the result of a command, or a   *)
(* call, that detaches.                                                    *)
(***************************************************************************)
EXTENDS Naturals, FiniteSets

CONSTANTS
    Tools,      \* processes of xdp_redirect_map
    Forced,     \* the ones that are run with -F
    MaxLoads,   \* bound: times the agent tries to load Dec
    MaxFaults   \* bound: system calls and commands that fail, and kills

\* Tools are told apart from an empty hook and from Dec.
XdpRedirectAssumption ==
    /\ IsFiniteSet(Tools)
    /\ Forced \subseteq Tools
    /\ {"none", "dec"} \cap Tools = {}

VARIABLES
    hook,      \* per interface, the owner of the program there: "none", "dec" or a tool
    pc,        \* where each tool is
    dummy,     \* ifindex_out_xdp_dummy_attached of each tool
    agent,     \* "cleanup" between the two commands of load_ingress_stages, or "idle"
    loads,     \* times the agent has tried
    refused,   \* times the program of a tool was in its way (history)
    spared,    \* times what was in its way was not taken off then (history)
    stuck,     \* tools and interfaces, where a call that detaches has failed (history)
    displaced, \* tools that have put their program in the place of Dec (history)
    detached,  \* tools that have detached Dec (history)
    robbed,    \* tools whose program somebody took off between the moment their
               \* handler found it there and its call that detaches it (history)
    faults

hooks   == <<hook, stuck, displaced, detached, robbed>>
counted == <<loads, refused, spared>>
vars == <<hooks, pc, dummy, agent, counted, faults>>

Init ==
    /\ hook = [i \in {"in", "out"} |-> "none"]
    /\ pc = [t \in Tools |-> "start"]
    /\ dummy = [t \in Tools |-> TRUE]
    /\ agent = "idle"
    /\ loads = 0 /\ refused = 0 /\ spared = 0
    /\ stuck = {} /\ displaced = {} /\ detached = {} /\ robbed = {}
    /\ faults = 0

Goto(t, l) == pc' = [pc EXCEPT ![t] = l]

Fault == faults < MaxFaults /\ faults' = faults + 1

\* Who is robbed if the program on the ingress interface goes.
Victims == { t \in Tools : hook["in"] = t /\ pc[t] = "detach_in" }

-----------------------------------------------------------------------------
(***************************************************************************)
(* A tool.                                                                 *)
(***************************************************************************)

\* Without -F the program is only attached where there is none.
AttachIn(t) ==
    /\ pc[t] = "start"
    /\ hook["in"] = "none" \/ t \in Forced
    /\ hook' = [hook EXCEPT !["in"] = t]
    /\ displaced' = IF hook["in"] = "dec" THEN displaced \cup {t} ELSE displaced
    /\ robbed' = robbed \cup Victims
    /\ Goto(t, "out")
    /\ UNCHANGED <<stuck, detached, dummy, agent, counted, faults>>

AttachRefused(t) ==
    /\ pc[t] = "start"
    /\ hook["in"] # "none" /\ t \notin Forced
    /\ Goto(t, "exited")
    /\ UNCHANGED <<hooks, dummy, agent, counted, faults>>

\* The dummy never replaces anything.  If it cannot be attached, the tool goes on.
AttachOut(t) ==
    /\ pc[t] = "out"
    /\ \/ /\ hook["out"] = "none"
          /\ hook' = [hook EXCEPT !["out"] = t]
          /\ UNCHANGED <<dummy, faults>>
       \/ /\ (hook["out"] # "none" /\ UNCHANGED faults) \/ Fault
          /\ dummy' = [dummy EXCEPT ![t] = FALSE]
          /\ UNCHANGED hook
    /\ Goto(t, "signal")
    /\ UNCHANGED <<stuck, displaced, detached, robbed, agent, counted>>

\* The handlers are installed last; then the tool fills tx_port and polls.
Install(t) ==
    /\ pc[t] = "signal"
    /\ Goto(t, "poll")
    /\ UNCHANGED <<hooks, dummy, agent, counted, faults>>

\* The tool cannot get the id of a program, or fill tx_port, or is killed: whatever
\* it has attached stays.
Abort(t) ==
    /\ pc[t] # "exited" /\ pc[t] # "clean"
    /\ Fault
    /\ Goto(t, "exited")
    /\ UNCHANGED <<hooks, dummy, agent, counted>>

\* Variant: the handler does not look whose program it is.
BlindCheckIn(t) ==
    /\ pc[t] = "poll"
    /\ Goto(t, "detach_in")
    /\ UNCHANGED <<hooks, dummy, agent, counted, faults>>

\* int_exit: looks at the ingress interface ...
CheckIn(t) ==
    /\ pc[t] = "poll"
    /\ Goto(t, IF hook["in"] = t THEN "detach_in" ELSE "check_out")
    /\ UNCHANGED <<hooks, dummy, agent, counted, faults>>

\* ... and detaches what is there by now, or fails to ...
DetachIn(t) ==
    /\ pc[t] = "detach_in"
    /\ \/ /\ hook' = [hook EXCEPT !["in"] = "none"]
          /\ detached' = IF hook["in"] = "dec" THEN detached \cup {t} ELSE detached
          /\ robbed' = robbed \cup (Victims \ {t})
          /\ UNCHANGED <<stuck, faults>>
       \/ /\ Fault
          /\ stuck' = stuck \cup {<<t, "in">>}
          /\ UNCHANGED <<hook, detached, robbed>>
    /\ Goto(t, "check_out")
    /\ UNCHANGED <<displaced, dummy, agent, counted>>

\* Variant: only a tool that could not attach its dummy looks at the egress.
SwappedCheckOut(t) ==
    /\ pc[t] = "check_out"
    /\ Goto(t, IF ~dummy[t] /\ hook["out"] = t THEN "detach_out" ELSE "clean")
    /\ UNCHANGED <<hooks, dummy, agent, counted, faults>>

\* ... and does the same for the dummy, if it could attach it.
CheckOut(t) ==
    /\ pc[t] = "check_out"
    /\ Goto(t, IF dummy[t] /\ hook["out"] = t THEN "detach_out" ELSE "clean")
    /\ UNCHANGED <<hooks, dummy, agent, counted, faults>>

DetachOut(t) ==
    /\ pc[t] = "detach_out"
    /\ \/ hook' = [hook EXCEPT !["out"] = "none"] /\ UNCHANGED <<stuck, faults>>
       \/ Fault /\ stuck' = stuck \cup {<<t, "out">>} /\ UNCHANGED hook
    /\ Goto(t, "clean")
    /\ UNCHANGED <<displaced, detached, robbed, dummy, agent, counted>>

-----------------------------------------------------------------------------
(***************************************************************************)
(* The agent.                                                              *)
(***************************************************************************)

\* Variant: an agent that is refused leaves the program there.
PoliteLoadDec ==
    /\ agent = "idle"
    /\ loads < MaxLoads
    /\ loads' = loads + 1
    /\ hook' = IF hook["in"] = "none" THEN [hook EXCEPT !["in"] = "dec"] ELSE hook
    /\ refused' = IF hook["in"] \in Tools THEN refused + 1 ELSE refused
    /\ UNCHANGED <<stuck, displaced, detached, robbed, pc, dummy, agent, spared, faults>>

\* load_ingress_stages: "ip link set xdp" does not replace a program, and if it fails,
\* for that or another reason, ...
LoadDec ==
    /\ agent = "idle"
    /\ loads < MaxLoads
    /\ loads' = loads + 1
    /\ \/ /\ hook["in"] = "none"
          /\ hook' = [hook EXCEPT !["in"] = "dec"]
          /\ UNCHANGED <<agent, refused, faults>>
       \/ /\ hook["in"] # "none"
          /\ agent' = "cleanup"
          /\ refused' = IF hook["in"] \in Tools THEN refused + 1 ELSE refused
          /\ UNCHANGED <<hook, faults>>
       \/ Fault /\ agent' = "cleanup" /\ UNCHANGED <<hook, refused>>
    /\ UNCHANGED <<stuck, displaced, detached, robbed, pc, dummy, spared>>

\* ... whatever is there by now is taken off, unless this fails too, or the agent dies
\* before it.
RemoveXdp ==
    /\ agent = "cleanup"
    /\ agent' = "idle"
    /\ \/ /\ hook' = [hook EXCEPT !["in"] = "none"]
          /\ robbed' = robbed \cup Victims
          /\ UNCHANGED <<spared, faults>>
       \/ Fault /\ spared' = spared + 1 /\ UNCHANGED <<hook, robbed>>
    /\ UNCHANGED <<stuck, displaced, detached, pc, dummy, loads, refused>>

Next ==
    \/ LoadDec \/ RemoveXdp
    \/ \E t \in Tools :
        \/ AttachIn(t) \/ AttachRefused(t) \/ AttachOut(t) \/ Install(t) \/ Abort(t)
        \/ CheckIn(t) \/ DetachIn(t) \/ CheckOut(t) \/ DetachOut(t)

Spec == Init /\ [][Next]_vars

-----------------------------------------------------------------------------
(***************************************************************************)
(* Properties.                                                             *)
(***************************************************************************)

\* A tool that ends by its signal handler leaves a program of its own on an interface
\* only if its very call to detach it there failed, which the tool does not tell:
\* however agents and other tools have come and gone between its checks.
CleanExit ==
    \A t \in Tools, i \in {"in", "out"} :
        pc[t] = "clean" /\ hook[i] = t => <<t, i>> \in stuck

\* A tool, even one that was killed or could not detach its program, keeps the agent
\* from loading Dec at most once: starting the agent again helps.  Every removal that
\* fails, the result of which the agent drops, allows for one refusal more.
EachRefusesOnce == refused <= Cardinality(Tools) + spared

\* Only a tool that is run with -F puts its program in the place of Dec, and a tool
\* detaches Dec only if somebody, an agent that cleans up or a tool with -F, took its
\* own program off just between the check of its handler and the call that detaches.
\* Otherwise no function harms the chain of its node.
DecKept == displaced \subseteq Forced /\ detached \subseteq robbed
=============================================================================
