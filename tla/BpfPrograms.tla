---------------------------- MODULE BpfPrograms ----------------------------
(***************************************************************************)
(* The parts of the BPF programs that count packets or take them apart,    *)
(* side by side: FlowMonitor, and with names of their own, Stats and       *)
(* Tuple.  The three share no state.                                       *)
(***************************************************************************)
EXTENDS FlowMonitor

CONSTANTS
    SPackets, SElements, TimeMod, MaxTime, MaxZeros,    \* of Stats
    Addrs, Ports, Lengths                               \* of Tuple

VARIABLES
    clock, spc, ts, sptr, live, svalue, tool, copy, zeros,
    began, since, missed, mixed, torn, blurred,
    pkt, came, tpc, stored, sought

Stat == INSTANCE Stats WITH Packets <- SPackets, Elements <- SElements,
        pc <- spc, ptr <- sptr, value <- svalue

T == INSTANCE Tuple WITH pc <- tpc

ASSUME ProgramsAssumption == Stat!StatsAssumption /\ T!TupleAssumption

-----------------------------------------------------------------------------
\* However the first packets and map_inspector -z race for the entry, its counters
\* are what was added to them (Stats).
CountersExact == Stat!CountersExact

\* The latencies of packets that ran alone add up (Stats).
LatencyExact == Stat!LatencyExact

\* The 5-tuple of a packet that is not tunnelled is its own (Tuple).
PlainTupleExact == T!PlainTupleExact

\* A ping keeps its key behind an outer header (Tuple).
IcmpTunnelKeepsKey == T!IcmpTunnelKeepsKey

\* What remove-ipip delivers, or answers, is the packet that came (Tuple).
Restored == T!Restored
=============================================================================
