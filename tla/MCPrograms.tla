---------------------------- MODULE MCPrograms ----------------------------
(***************************************************************************)
(* Small instances of the parts of the BPF programs that count packets or  *)
(* take them apart: FlowMonitor, Stats and Tuple.  They share no state;    *)
(* the initial state says which of them moves.                             *)
(***************************************************************************)
EXTENDS BpfPrograms, TLC

CONSTANTS p1, p2, p3, p4, p5, q1, q2, q3, f1, f2, f3, e1, e2, e3, a1, a2

VARIABLE subject

monitorVars == <<pc, ptr, stats, value, szhist, raced>>
statsVars   == <<clock, spc, ts, sptr, live, svalue, tool, copy, zeros,
                 began, since, missed, mixed, torn, blurred>>
tupleVars   == <<pkt, came, tpc, stored, sought>>

-----------------------------------------------------------------------------
\* Five packets of three flows, on CPUs of their own; two flows fit.
MCFlowOf == p1 :> f1 @@ p2 :> f1 @@ p3 :> f1 @@ p4 :> f2 @@ p5 :> f3

\* The shortest frame, the last one that fits the histogram and the first that
\* does not.
MCLenOf == p1 :> 60 @@ p2 :> 1535 @@ p3 :> 1536 @@ p4 :> 60 @@ p5 :> 60

\* Any of the packets of Stats is like any other.
MCSymmetry == Permutations(SPackets)

-----------------------------------------------------------------------------
ProgramsInit ==
    /\ subject \in {"flow-monitor", "stats", "tuple"}
    /\ Init /\ Stat!Init /\ T!Init
    /\ subject # "tuple" => came = CHOOSE p \in T!Arriving : TRUE

ProgramsNext ==
    /\ \/ subject = "flow-monitor" /\ Next /\ UNCHANGED <<statsVars, tupleVars>>
       \/ subject = "stats" /\ Stat!Next /\ UNCHANGED <<monitorVars, tupleVars>>
       \/ subject = "tuple" /\ T!Next /\ UNCHANGED <<monitorVars, statsVars>>
    /\ UNCHANGED subject

ProgramsSpec ==
    ProgramsInit /\ [][ProgramsNext]_<<subject, monitorVars, statsVars, tupleVars>>
=============================================================================
