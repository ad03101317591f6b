-------------------------- MODULE ServiceFunctions --------------------------
(***************************************************************************)
(* The functions firewall, l4lb and chacha: a filter on the ingress        *)
(* interface that redirects packets to the interface in a pinned map, the  *)
(* firewall after it has looked the packet's 5-tuple up in its rules, and  *)
(* the tool that attaches the filter and fills the maps.  The tools differ *)
(* only in that the firewall's reads a file of rules before it writes the  *)
(* interface.                                                              *)
(*                                                                         *)
(* A 5-tuple is a source and a port here; the other address behaves as the *)
(* source does, the other port as the port, and a ping has port 0.         *)
(* Frames that have no 5-tuple are passed along and left out.              *)
(***************************************************************************)
EXTENDS Integers, Sequences, FiniteSets

CONSTANTS
    Kinds,         \* the functions considered
    Bad,           \* an address inet_pton cannot read
    Missing,       \* a field at which sscanf stops: the line is short, or no number is there
    Packets,
    FlowOf,        \* packet -> its source and port
    Ports,         \* interface indices
    Unset,         \* interface index 0, or no entry
    Files,         \* files of rules: sequences of lines [src, port, action]
    MaxRules,      \* capacity of the map rules (100)
    MaxCommands,   \* bound: times the tool is run
    MaxFaults      \* bound: commands of tc, accesses to maps or files that fail, and kills

\* Packets have addresses that can be read, and files end.
ServiceFunctionsAssumption ==
    /\ Missing \notin {"drop", "allow"}
    /\ \A p \in Packets :
          /\ FlowOf[p] = [src |-> FlowOf[p].src, port |-> FlowOf[p].port]
          /\ FlowOf[p].src \notin {Bad, Missing} /\ FlowOf[p].port # Missing
    /\ \A f \in Files : Len(f) \in Nat

VARIABLES
    kind,      \* which of the functions it is; it never changes
    filter,    \* whether the filter is attached
    rules,     \* 5-tuple -> action
    egress,    \* the interface in the other map
    tool,      \* where main() of the tool is, "idle" if it does not run
    cmd,       \* its arguments
    fd,        \* whether the map of rules could be opened
    line,      \* the line parse_rules is at
    words,     \* its buffers saddr and action
    tuple,     \* its variable tuple
    count,     \* times the tool was run
    faults,
    pc,        \* per packet: "new", "allowed", or what became of it
    whole,     \* the last run attached the filter and went through without a fault (history)
    refused,   \* runs without a fault since one attached the filter (history)
    clean,     \* packets no run of the tool has overlapped with (history)
    want       \* per packet, what the last run asked for when it came (history)

maps   == <<kind, filter, rules, egress>>
parser == <<fd, line, words, tuple>>
ghosts == <<whole, refused, clean, want>>
vars   == <<maps, tool, cmd, parser, count, faults, pc, ghosts>>

Init ==
    /\ kind \in Kinds
    /\ filter = FALSE
    /\ rules = [k \in {} |-> k]
    /\ egress = Unset
    /\ tool = "idle"
    /\ cmd = [egress |-> Unset, file |-> <<>>]
    /\ fd = FALSE /\ line = 1
    /\ words = [src |-> Bad, action |-> "other"]
    /\ tuple = [src |-> Bad, port |-> 0]
    /\ count = 0 /\ faults = 0
    /\ pc = [p \in Packets |-> "new"]
    /\ whole = FALSE /\ refused = 0
    /\ clean = {}
    /\ want = [p \in Packets |-> "anything"]

\* A 16-bit number whose two bytes change places.
Htons(n) == (n % 256) * 256 + n \div 256

-----------------------------------------------------------------------------
(***************************************************************************)
(* The tool.                                                               *)
(***************************************************************************)
Run(c) ==
    /\ tool = "idle"
    /\ count < MaxCommands
    /\ count' = count + 1
    /\ cmd' = c
    /\ tool' = "attach"
    /\ whole' = TRUE
    /\ clean' = {}
    /\ UNCHANGED <<maps, parser, faults, pc, refused, want>>

\* The variables of parse_rules are gone when it returns.
Return ==
    /\ line' = 1
    /\ words' = [src |-> Bad, action |-> "other"]
    /\ tuple' = [src |-> Bad, port |-> 0]

\* Something fails, or the process is killed.
Fault ==
    /\ faults < MaxFaults
    /\ faults' = faults + 1
    /\ whole' = FALSE
    /\ refused' = 0

NoFault == UNCHANGED <<faults, whole, refused>>

\* tc_attach_bpf: "filter add" fails if the filter is there.
Attach ==
    /\ tool = "attach"
    /\ \/ /\ ~filter
          /\ filter' = TRUE
          /\ tool' = IF kind = "firewall" THEN "open" ELSE "egress"
          /\ NoFault
       \/ /\ (filter /\ NoFault) \/ (~filter /\ Fault)
          /\ tool' = "cleanup"
          /\ UNCHANGED filter
    /\ UNCHANGED <<kind, rules, egress, cmd, parser, count, pc, clean, want>>

\* Variant: the filter stays.
NoCleanUp ==
    /\ tool = "cleanup"
    /\ tool' = "idle"
    /\ whole' = FALSE
    /\ refused' = IF whole THEN refused + 1 ELSE 0
    /\ UNCHANGED <<maps, cmd, parser, count, faults, pc, clean, want>>

\* tc_remove_filter takes every filter off, and main returns.
CleanUp ==
    /\ tool = "cleanup"
    /\ tool' = "idle"
    /\ \/ /\ filter' = FALSE
          /\ whole' = FALSE
          /\ refused' = IF whole THEN refused + 1 ELSE 0
          /\ UNCHANGED faults
       \/ Fault /\ UNCHANGED filter
    /\ UNCHANGED <<kind, rules, egress, cmd, parser, count, pc, clean, want>>

\* What may be in the variables of parse_rules before anything is stored there.
OnStack == [src : {Bad} \cup { FlowOf[p].src : p \in Packets },
            port : { FlowOf[p].port : p \in Packets }]

\* The map of rules is opened, and parse_rules opens the file.  Without the map the
\* tool goes on; without the file it exits and leaves the filter where it is.
OpenRules ==
    /\ tool = "open"
    /\ line' = 1
    /\ \/ /\ tool' = "line"
          /\ tuple' \in OnStack
          /\ words' \in [src : { t.src : t \in OnStack }, action : {"drop", "other"}]
          /\ (fd' = TRUE /\ NoFault) \/ (fd' = FALSE /\ Fault)
       \/ tool' = "idle" /\ Fault /\ UNCHANGED <<fd, words, tuple>>
    /\ UNCHANGED <<maps, cmd, count, pc, clean, want>>

\* The map has room for k, or has it already.
Fits(k) == k \in DOMAIN rules \/ Cardinality(DOMAIN rules) < MaxRules

\* An update that fails is reported, and the next line read.
Store(k, action) ==
    \/ /\ fd /\ Fits(k)
       /\ rules' = [x \in DOMAIN rules \cup {k} |-> IF x = k THEN action ELSE rules[x]]
       /\ NoFault
    \/ /\ ~(fd /\ Fits(k))
       /\ UNCHANGED rules
       /\ NoFault
    \/ Fault /\ UNCHANGED rules

\* sscanf fills the variables up to the first field that is missing; its result is
\* not looked at, so the others keep what an earlier line, or none, left there.
Scan(field, was) == IF field = Missing THEN was ELSE field

Scanned(l) == [src    |-> Scan(l.src, words.src),
               port   |-> Scan(l.port, tuple.port),
               action |-> Scan(l.action, words.action)]

\* inet_pton returns 0, not -1, for what is no address: the one of an earlier line, or
\* of none, stays in tuple.  The port is kept as it is read.
Parsed(s) == [src |-> IF s.src = Bad THEN tuple.src ELSE s.src, port |-> s.port]

\* Variant: a line ends the loop if its action is unknown.
StrictParseLine ==
    /\ tool = "line"
    /\ line <= Len(cmd.file)
    /\ LET s == Scanned(cmd.file[line]) IN
       /\ words' = [src |-> s.src, action |-> s.action]
       /\ tuple' = Parsed(s)
       /\ IF s.action \in {"drop", "allow"}
          THEN Store(Parsed(s), s.action) /\ line' = line + 1
          ELSE UNCHANGED rules /\ NoFault /\ line' = Len(cmd.file) + 1
    /\ UNCHANGED <<kind, filter, egress, tool, cmd, fd, count, pc, clean, want>>

\* One line that is neither empty nor a comment.
ParseLine ==
    /\ tool = "line"
    /\ line <= Len(cmd.file)
    /\ line' = line + 1
    /\ LET s == Scanned(cmd.file[line]) IN
       /\ words' = [src |-> s.src, action |-> s.action]
       /\ tuple' = Parsed(s)
       /\ IF s.action \in {"drop", "allow"} THEN Store(Parsed(s), s.action)
          ELSE UNCHANGED rules /\ NoFault
    /\ UNCHANGED <<kind, filter, egress, tool, cmd, fd, count, pc, clean, want>>

EndOfFile ==
    /\ tool = "line"
    /\ line > Len(cmd.file)
    /\ tool' = "egress"
    /\ Return
    /\ UNCHANGED <<maps, cmd, fd, count, faults, pc, ghosts>>

\* A map that cannot be opened, or written, is reported; main returns 0.
WriteEgress ==
    /\ tool = "egress"
    /\ tool' = "idle"
    /\ \/ egress' = cmd.egress /\ UNCHANGED <<faults, whole>> /\ refused' = 0
       \/ Fault /\ UNCHANGED egress
    /\ UNCHANGED <<kind, filter, rules, cmd, parser, count, pc, clean, want>>

Killed ==
    /\ tool # "idle"
    /\ tool' = "idle"
    /\ Return
    /\ Fault
    /\ UNCHANGED <<maps, cmd, fd, count, pc, clean, want>>

-----------------------------------------------------------------------------
(***************************************************************************)
(* The filter.                                                             *)
(***************************************************************************)

\* Whether a line has an address that can be read, and all its fields.
Readable(l) == l.src # Bad /\ Missing \notin {l.src, l.port, l.action}

\* What the last line of the file for flow f says, as its author means it, unless a
\* line that cannot be read comes after it.
LinesOf(f) == { n \in 1 .. Len(cmd.file) :
                  cmd.file[n].src = f.src /\ cmd.file[n].port = f.port
                  /\ cmd.file[n].action \in {"drop", "allow"} }

Says(f, action) ==
    \E n \in LinesOf(f) :
        /\ \A m \in LinesOf(f) : m <= n
        /\ cmd.file[n].action = action
        /\ \A m \in n + 1 .. Len(cmd.file) : Readable(cmd.file[m])

\* What the last run asks for, unless there was no room for it.
Asked(f) ==
    CASE whole /\ kind # "firewall" -> cmd.egress
      [] whole /\ kind = "firewall" /\ Fits(f) /\ Says(f, "drop") -> "shot"
      [] whole /\ kind = "firewall" /\ Fits(f) /\ Says(f, "allow") -> cmd.egress
      [] OTHER -> "anything"

\* get_tuple takes the port as it is in the packet, in network order.
KeyOf(f) == [src |-> f.src, port |-> Htons(f.port)]

\* The packet meets the filter; the firewall looks its 5-tuple up ...
CheckRules(p) ==
    LET k == KeyOf(FlowOf[p]) IN
    /\ pc[p] = "new"
    /\ pc' = [pc EXCEPT ![p] =
                CASE ~filter -> "passed"
                  [] filter /\ kind = "firewall" /\ k \in DOMAIN rules
                            /\ rules[k] = "drop" -> "shot"
                  [] OTHER -> "allowed"]
    /\ clean' = IF tool = "idle" THEN clean \cup {p} ELSE clean
    /\ want' = [want EXCEPT ![p] = Asked(FlowOf[p])]
    /\ UNCHANGED <<maps, tool, cmd, parser, count, faults, whole, refused>>

\* ... and redirects it.  Without an interface the packet is lost: chacha and the
\* firewall redirect it to interface 0, and the load balancer, whose map has no
\* entry then, neither for the hash of the flow nor for 0, drops it.
SendPacket(p) ==
    /\ pc[p] = "allowed"
    /\ pc' = [pc EXCEPT ![p] = egress]
    /\ UNCHANGED <<maps, tool, cmd, parser, count, faults, ghosts>>

Next ==
    \/ \E i \in Ports, f \in Files : Run([egress |-> i, file |-> f])
    \/ Attach \/ CleanUp \/ OpenRules \/ ParseLine \/ EndOfFile \/ WriteEgress \/ Killed
    \/ \E p \in Packets : CheckRules(p) \/ SendPacket(p)

Spec == Init /\ [][Next]_vars

-----------------------------------------------------------------------------
(***************************************************************************)
(* Properties.                                                             *)
(***************************************************************************)
Settled(p) == p \in clean /\ pc[p] # "allowed" /\ want[p] # "anything"

\* After a run of the tool that went through, a packet no other run overlaps with
\* is treated as that run said, whatever earlier runs left in the pinned maps.  For
\* the firewall this is so for a flow its file mentions if the port reads the same in
\* both byte orders (a ping), no line the tool cannot read follows, and the rules fit
\* into the map.
SetUpHonoured ==
    \A p \in Packets :
        ( /\ Settled(p)
          /\ kind = "firewall" => FlowOf[p] = KeyOf(FlowOf[p]) )
        => pc[p] = want[p]

\* Starting a function that runs already takes it away, but never twice: of two runs
\* without a fault, one attaches the filter.
SecondRunSuffices == refused <= 1

\* "Map with rules with targets of interest and instructions on what to do to them":
\* a flow the rules drop is never redirected.
ListedBlocked ==
    \A p \in Packets : Settled(p) /\ want[p] = "shot" => pc[p] \notin Ports
=============================================================================
