---------------------------- MODULE FlowMonitor ----------------------------
(***************************************************************************)
(* The counters of the flow monitor: a hash map with the packets and bytes *)
(* of every flow, and a histogram of packet sizes.  The program runs on    *)
(* several CPUs at once, and every access to a map is a step.              *)
(*                                                                         *)
(* A lookup yields a pointer to an element of the hash map.  An update of  *)
(* a key that is there puts another element into its place; the kernel     *)
(* uses the old one again, for any key, while pointers to it may still be  *)
(* in use.                                                                 *)
(***************************************************************************)
EXTENDS Integers, FiniteSets, Functions

CONSTANTS
    Packets,
    Flows,
    FlowOf,       \* packet -> its 5-tuple
    LenOf,        \* packet -> skb->len
    Elements,     \* elements of the hash map, spare ones included
    MaxEntries,   \* 2048
    Buckets       \* HISTO_BUCKETS, 24

ASSUME FlowMonitorAssumption ==
    /\ FlowOf \in [Packets -> Flows]
    /\ LenOf \in [Packets -> Nat]
    /\ IsFiniteSet(Packets) /\ IsFiniteSet(Elements)
    /\ MaxEntries \in 1 .. (Cardinality(Elements) - 1)
    /\ Buckets \in Nat

VARIABLES
    pc,       \* where the program is with each packet
    ptr,      \* the element the lookup returned for each packet
    stats,    \* flow -> its element
    value,    \* element -> struct flow_stats
    szhist,   \* bucket -> number of packets
    raced     \* flows for which an update met an entry (history)

vars == <<pc, ptr, stats, value, szhist, raced>>

PCs == {"idle", "pkts", "bytes", "insert", "hist", "done"}

InUse == { stats[f] : f \in DOMAIN stats }

Init ==
    /\ pc = [p \in Packets |-> "idle"]
    /\ ptr = [p \in Packets |-> CHOOSE e \in Elements : TRUE]
    /\ stats = [f \in {} |-> f]
    /\ value = [e \in Elements |-> [pkts |-> 0, bytes |-> 0]]
    /\ szhist = [b \in 0 .. Buckets - 1 |-> 0]
    /\ raced = {}

Goto(p, l) == pc' = [pc EXCEPT ![p] = l]

-----------------------------------------------------------------------------
LookupStats(p) ==
    /\ pc[p] = "idle"
    /\ \/ /\ FlowOf[p] \in DOMAIN stats
          /\ ptr' = [ptr EXCEPT ![p] = stats[FlowOf[p]]]
          /\ Goto(p, "pkts")
       \/ /\ FlowOf[p] \notin DOMAIN stats
          /\ Goto(p, "insert")
          /\ UNCHANGED ptr
    /\ UNCHANGED <<stats, value, szhist, raced>>

\* The two atomic additions to what the pointer leads to.
AddPkts(p) ==
    /\ pc[p] = "pkts"
    /\ value' = [value EXCEPT ![ptr[p]].pkts = @ + 1]
    /\ Goto(p, "bytes")
    /\ UNCHANGED <<ptr, stats, szhist, raced>>

\* Variant: the length replaces the sum.
LastBytes(p) ==
    /\ pc[p] = "bytes"
    /\ value' = [value EXCEPT ![ptr[p]].bytes = LenOf[p]]
    /\ Goto(p, "hist")
    /\ UNCHANGED <<ptr, stats, szhist, raced>>

AddBytes(p) ==
    /\ pc[p] = "bytes"
    /\ value' = [value EXCEPT ![ptr[p]].bytes = @ + LenOf[p]]
    /\ Goto(p, "hist")
    /\ UNCHANGED <<ptr, stats, szhist, raced>>

\* bpf_map_update_elem: any element that is not in use takes the new value.
Store(f, v) ==
    \E e \in Elements \ InUse :
        /\ value' = [value EXCEPT ![e] = v]
        /\ stats' = [g \in DOMAIN stats \cup {f} |-> IF g = f THEN e ELSE stats[g]]

\* Variant: the limit of the map is off by one.
UnboundedInsert(p) ==
    /\ pc[p] = "insert"
    /\ \/ /\ FlowOf[p] \in DOMAIN stats \/ Cardinality(DOMAIN stats) <= MaxEntries
          /\ Store(FlowOf[p], [pkts |-> 1, bytes |-> LenOf[p]])
          /\ raced' = IF FlowOf[p] \in DOMAIN stats THEN raced \cup {FlowOf[p]} ELSE raced
       \/ /\ FlowOf[p] \notin DOMAIN stats /\ Cardinality(DOMAIN stats) > MaxEntries
          /\ UNCHANGED <<stats, value, raced>>
    /\ Goto(p, "hist")
    /\ UNCHANGED <<ptr, szhist>>

\* Variant: after the update the packet is added once more.
DoubleInsert(p) ==
    /\ pc[p] = "insert"
    /\ FlowOf[p] \in DOMAIN stats \/ Cardinality(DOMAIN stats) < MaxEntries
    /\ Store(FlowOf[p], [pkts |-> 2, bytes |-> LenOf[p]])
    /\ raced' = IF FlowOf[p] \in DOMAIN stats THEN raced \cup {FlowOf[p]} ELSE raced
    /\ Goto(p, "hist")
    /\ UNCHANGED <<ptr, szhist>>

\* The flow had no entry when it was looked up; it may have one now, which is
\* replaced.  A new key does not fit into a full map, and nobody looks at that.
InsertStats(p) ==
    /\ pc[p] = "insert"
    /\ \/ /\ FlowOf[p] \in DOMAIN stats \/ Cardinality(DOMAIN stats) < MaxEntries
          /\ Store(FlowOf[p], [pkts |-> 1, bytes |-> LenOf[p]])
          /\ raced' = IF FlowOf[p] \in DOMAIN stats THEN raced \cup {FlowOf[p]} ELSE raced
       \/ /\ FlowOf[p] \notin DOMAIN stats /\ Cardinality(DOMAIN stats) >= MaxEntries
          /\ UNCHANGED <<stats, value, raced>>
    /\ Goto(p, "hist")
    /\ UNCHANGED <<ptr, szhist>>

Bucket(p) == LenOf[p] \div 64

\* Variant: the last bucket is not used.
ShortHist(p) ==
    /\ pc[p] = "hist"
    /\ szhist' = IF Bucket(p) < Buckets - 1
                 THEN [szhist EXCEPT ![Bucket(p)] = @ + 1] ELSE szhist
    /\ Goto(p, "done")
    /\ UNCHANGED <<ptr, stats, value, raced>>

\* A packet that is too long for the array is not counted.
AddHist(p) ==
    /\ pc[p] = "hist"
    /\ szhist' = IF Bucket(p) \in DOMAIN szhist
                 THEN [szhist EXCEPT ![Bucket(p)] = @ + 1] ELSE szhist
    /\ Goto(p, "done")
    /\ UNCHANGED <<ptr, stats, value, raced>>

Next ==
    \E p \in Packets :
        \/ LookupStats(p) \/ AddPkts(p) \/ AddBytes(p) \/ InsertStats(p)
        \/ AddHist(p)

Spec == Init /\ [][Next]_vars

-----------------------------------------------------------------------------
(***************************************************************************)
(* Properties.                                                             *)
(***************************************************************************)
Counted(p) == pc[p] \in {"bytes", "hist", "done"}

\* The packets of flow f that are through with the entry.
Done(f) == { p \in Packets : FlowOf[p] = f /\ pc[p] \in {"hist", "done"} }

\* The state is of the shape the maps have: no more entries than the map can hold,
\* and no element in two entries.
TypeOK ==
    /\ pc \in [Packets -> PCs]
    /\ ptr \in [Packets -> Elements]
    /\ DOMAIN stats \subseteq Flows
    /\ Cardinality(DOMAIN stats) <= MaxEntries
    /\ \A f, g \in DOMAIN stats : stats[f] \in Elements /\ (stats[f] = stats[g] => f = g)
    /\ value \in [Elements -> [pkts : Nat, bytes : Nat]]
    /\ szhist \in [0 .. Buckets - 1 -> Nat]
    /\ raced \subseteq Flows

\* Whatever element an addition ends up in, the map as a whole never shows more
\* packets than the program has seen.
NeverOvercounted ==
    SumFunction([f \in DOMAIN stats |-> value[stats[f]].pkts])
        <= Cardinality({ p \in Packets : Counted(p) })

\* If no update has met an entry, then between two additions every entry is exact:
\* the race of two first packets is the only way to lose one, and a flow that found
\* the map full has no entry rather than a wrong one.
ExactUnlessRaced ==
    (raced = {} /\ \A p \in Packets : pc[p] # "bytes") =>
        \A f \in DOMAIN stats :
            value[stats[f]] = [ pkts  |-> Cardinality(Done(f)),
                                bytes |-> SumFunctionOnSet(LenOf, Done(f)) ]

\* Every packet of less than 1536 bytes is in the histogram once, whatever runs at
\* the same time.
HistogramComplete ==
    SumFunction(szhist)
        = Cardinality({ p \in Packets : pc[p] = "done" /\ LenOf[p] < 64 * Buckets })
=============================================================================
