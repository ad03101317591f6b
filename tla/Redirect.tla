------------------------------ MODULE Redirect ------------------------------
(***************************************************************************)
(* The functions tc-redirect and flow-monitor as seen by a packet: a       *)
(* filter on the ingress interface compares the source address with one    *)
(* pinned map and redirects to the interface in another one, while the     *)
(* command-line tool attaches and removes the filter and fills the maps.   *)
(*                                                                         *)
(* Unset is the value 0, which the maps hold when they are created: the    *)
(* interface index 0, and the source 0.0.0.0, which is also what --srcip   *)
(* gives for text that inet_pton cannot read, since main() compares its    *)
(* result with -1 only.  Frames that carry no IPv4 packet are passed along *)
(* and left out.                                                           *)
(***************************************************************************)
EXTENDS Naturals

CONSTANTS
    Sources,       \* source addresses
    Ports,         \* interface indices
    Unset,
    NotGiven,      \* an option that is not on the command line
    Packets,
    SrcOf,         \* packet -> its source
    Commands,      \* command lines: options ingress, remove, srcip, egress
    MaxCommands,   \* bound: command lines run
    MaxFaults      \* bound: tools killed, commands of tc and accesses to a map that fail

ASSUME RedirectAssumption ==
    /\ Unset \notin Sources \cup Ports
    /\ NotGiven \notin Sources \cup Ports \cup {Unset}
    /\ SrcOf \in [Packets -> Sources \cup {Unset}]
    /\ Commands \subseteq [ingress : BOOLEAN, remove : BOOLEAN,
                           srcip : Sources \cup {Unset, NotGiven},
                           egress : Ports \cup {Unset, NotGiven}]
    /\ MaxCommands \in Nat /\ MaxFaults \in Nat

VARIABLES
    kind,       \* which of the two functions it is; it never changes
    filter,     \* whether the filter is attached
    pinned,     \* whether the files of the maps exist
    srcip,      \* the two maps
    egress,
    tool,       \* where main() of the tool is, "idle" if it does not run
    cmd,        \* its command line
    count,      \* command lines so far
    faults,
    pc,         \* per packet: "new", "matched", or what became of it
    asked,      \* what the command lines that have ended amount to (history)
    clean,      \* packets no command has overlapped with (history)
    want        \* per packet, what "asked" meant for it when it came (history)

config == <<kind, filter, pinned, srcip, egress>>
vars == <<config, tool, cmd, count, faults, pc, asked, clean, want>>

NoCommand == [ingress |-> FALSE, remove |-> FALSE, srcip |-> NotGiven, egress |-> NotGiven]

Init ==
    /\ kind \in {"tc-redirect", "flow-monitor"}
    /\ filter = FALSE /\ pinned = FALSE
    /\ srcip = Unset /\ egress = Unset
    /\ tool = "idle"
    /\ cmd = NoCommand
    /\ count = 0 /\ faults = 0
    /\ pc = [p \in Packets |-> "new"]
    /\ asked = [filter |-> FALSE, srcip |-> Unset, egress |-> Unset]
    /\ clean = {}
    /\ want = [p \in Packets |-> "passed"]

-----------------------------------------------------------------------------
(***************************************************************************)
(* What a command line is for, seen from outside.                          *)
(***************************************************************************)

\* What it asks for that is there after it came as far as "end", "done" or the step
\* at which it failed.  It is no transaction: what came before its failure stays.
\* With --remove, the source and the interface are not looked at.
After(was, c, end) ==
    [filter |-> IF c.remove /\ end = "done" THEN FALSE
                ELSE was.filter \/ (c.ingress /\ end # "attach"),
     srcip  |-> IF c.srcip # NotGiven /\ ~c.remove /\ end \in {"egress", "done"}
                THEN c.srcip ELSE was.srcip,
     egress |-> IF c.egress # NotGiven /\ ~c.remove /\ end = "done"
                THEN c.egress ELSE was.egress]

\* What the command lines ask for, for a packet from src.  Without a source,
\* tc-redirect is asked for all packets.
Wanted(src) ==
    IF \/ ~asked.filter
       \/ asked.srcip # src /\ ~(kind = "tc-redirect" /\ asked.srcip = Unset)
    THEN "passed"
    ELSE asked.egress

-----------------------------------------------------------------------------
(***************************************************************************)
(* The tool.                                                               *)
(***************************************************************************)

\* The flow monitor needs --srcip, whatever is given there.
Refuses(c) == kind = "flow-monitor" /\ c.srcip = NotGiven

Run(c) ==
    /\ tool = "idle"
    /\ count < MaxCommands
    /\ count' = count + 1
    /\ IF Refuses(c)
       THEN UNCHANGED <<tool, cmd, clean>>
       ELSE /\ cmd' = c
            /\ tool' = CASE c.ingress -> "attach"
                         [] ~c.ingress /\ c.remove -> "remove"
                         [] OTHER -> "srcip"
            /\ clean' = {}
    /\ UNCHANGED <<config, faults, pc, asked, want>>

\* The tool ends, after its last step or at the first that fails.
End(end) ==
    /\ tool' = "idle"
    /\ cmd' = NoCommand
    /\ asked' = After(asked, cmd, end)

Continue(step) ==
    /\ tool' = step
    /\ UNCHANGED <<cmd, asked>>

\* The step at hand fails, or the tool is killed before it.  "filter add" may have
\* created the maps before it failed.
Fails ==
    /\ tool # "idle"
    /\ faults < MaxFaults
    /\ faults' = faults + 1
    /\ pinned' \in {pinned, pinned \/ tool = "attach"}
    /\ End(tool)
    /\ UNCHANGED <<kind, filter, srcip, egress, count, pc, clean, want>>

\* tc_ingress_attach_bpf: an error of "qdisc add" is ignored, "filter add" fails if
\* the filter is there.  The first load creates the maps.
AttachFilter ==
    /\ tool = "attach"
    /\ \/ /\ ~filter
          /\ filter' = TRUE /\ pinned' = TRUE
          /\ Continue(IF cmd.remove THEN "remove" ELSE "srcip")
       \/ /\ filter
          /\ End("attach")
          /\ UNCHANGED <<filter, pinned>>
    /\ UNCHANGED <<kind, srcip, egress, count, faults, pc, clean, want>>

\* tc_remove_ingress_filter, after which main returns.
RemoveFilter ==
    /\ tool = "remove"
    /\ filter' = FALSE
    /\ End("done")
    /\ UNCHANGED <<kind, pinned, srcip, egress, count, faults, pc, clean, want>>

\* Without --srcip, which only tc-redirect does without, the map is left alone.
WriteSrcip ==
    /\ tool = "srcip"
    /\ \/ cmd.srcip = NotGiven /\ Continue("egress") /\ UNCHANGED srcip
       \/ cmd.srcip # NotGiven /\ pinned /\ Continue("egress") /\ srcip' = cmd.srcip
       \/ cmd.srcip # NotGiven /\ ~pinned /\ End("srcip") /\ UNCHANGED srcip
    /\ UNCHANGED <<kind, filter, pinned, egress, count, faults, pc, clean, want>>

\* Variant: the interface is only set the first time.
FirstEgressOnly ==
    /\ tool = "egress"
    /\ \/ /\ pinned
          /\ egress' = IF cmd.egress = NotGiven \/ egress # Unset THEN egress
                       ELSE cmd.egress
          /\ End("done")
       \/ ~pinned /\ End("egress") /\ UNCHANGED egress
    /\ UNCHANGED <<kind, filter, pinned, srcip, count, faults, pc, clean, want>>

\* "Only update/set egress port when set via cmdline".
WriteEgress ==
    /\ tool = "egress"
    /\ \/ /\ pinned
          /\ egress' = IF cmd.egress = NotGiven THEN egress ELSE cmd.egress
          /\ End("done")
       \/ ~pinned /\ End("egress") /\ UNCHANGED egress
    /\ UNCHANGED <<kind, filter, pinned, srcip, count, faults, pc, clean, want>>

-----------------------------------------------------------------------------
(***************************************************************************)
(* The filter.                                                             *)
(***************************************************************************)

\* tc-redirect imposes no restriction if srcip is not set.
Matches(sip, src) == sip = src \/ (kind = "tc-redirect" /\ sip = Unset)

\* The packet meets the filter, which reads srcip ...
CheckSource(p) ==
    /\ pc[p] = "new"
    /\ pc' = [pc EXCEPT ![p] = IF filter /\ Matches(srcip, SrcOf[p]) THEN "matched"
                               ELSE "passed"]
    /\ clean' = IF tool = "idle" THEN clean \cup {p} ELSE clean
    /\ want' = [want EXCEPT ![p] = Wanted(SrcOf[p])]
    /\ UNCHANGED <<config, tool, cmd, count, faults, asked>>

\* ... and later the interface, through the pointer it has.  A redirection to
\* interface 0 loses the packet.
SendPacket(p) ==
    /\ pc[p] = "matched"
    /\ pc' = [pc EXCEPT ![p] = egress]
    /\ UNCHANGED <<config, tool, cmd, count, faults, asked, clean, want>>

Next ==
    \/ \E c \in Commands : Run(c)
    \/ AttachFilter \/ RemoveFilter \/ WriteSrcip \/ WriteEgress \/ Fails
    \/ \E p \in Packets : CheckSource(p) \/ SendPacket(p)

Spec == Init /\ [][Next]_vars

-----------------------------------------------------------------------------
(***************************************************************************)
(* Properties.                                                             *)
(***************************************************************************)

\* A packet that no command line overlaps with is treated as the command lines before
\* it asked, each as far as it came: one that failed at some step has had the effect
\* of the steps before, and no other, whatever an earlier filter left in the pinned
\* maps.  In particular a new source goes to the old interface after a command line
\* that failed between its two writes, and a source that cannot be read makes
\* tc-redirect take every packet, and the flow monitor only those from 0.0.0.0.
SettledHonoured ==
    \A p \in clean : pc[p] # "matched" => pc[p] = want[p]
=============================================================================
