------------------------------- MODULE Stats -------------------------------
(***************************************************************************)
(* The statistics of a program that is built with ENABLE_STATS: one struct *)
(* stats in a hash map of one entry.  cb_mark_init runs at the start of    *)
(* the program and cb_retok or cb_retother at its end, on several CPUs at  *)
(* once, while map_inspector -z reads the entry and sets it to zero.       *)
(*                                                                         *)
(* As in FlowMonitor, a lookup yields a pointer to an element, and an      *)
(* update of the entry puts another element into its place.                *)
(***************************************************************************)
EXTENDS Integers

CONSTANTS
    Packets,
    Elements,   \* elements of prog_stats, spare ones included
    TimeMod,    \* 2^64: times and their differences wrap
    MaxTime,    \* bound: the last time of the clock
    MaxZeros    \* bound: times map_inspector -z is run

StatsAssumption ==
    /\ Elements # {}
    /\ TimeMod \in Nat \ {0}
    /\ MaxTime \in Nat

VARIABLES
    clock,      \* bpf_ktime_get_ns
    pc,         \* where the program is with each packet
    ts,         \* its variable ts
    ptr,        \* its variable s
    live,       \* the elements in the map: none or one
    value,      \* element -> struct stats
    tool,       \* "idle", or "write" between the two accesses of dump_prog_stats
    copy,       \* its variable stats.init_ts
    zeros,      \* times it was run
    began,      \* the time each packet came (history)
    since,      \* what was added since the entry was last zeroed (history)
    missed,     \* packets that found no entry when they came (history)
    mixed,      \* packets that ran at the same time as another, or as the tool (history)
    torn,       \* the tool replaced an element a packet had a pointer to (history)
    blurred     \* the latency of a packet in missed or mixed was added (history)

ghosts == <<began, since, missed, mixed, torn, blurred>>
vars   == <<clock, pc, ts, ptr, live, value, tool, copy, zeros, ghosts>>

Zero == [rx |-> 0, tx |-> 0, tx_other |-> 0, lat_avg_sum |-> 0, init_ts |-> 0]

Under(ps) == { p \in ps : pc[p] \notin {"idle", "done"} }

Init ==
    /\ clock = 1
    /\ pc = [p \in Packets |-> "idle"]
    /\ ts = [p \in Packets |-> 0]
    /\ ptr = [p \in Packets |-> CHOOSE e \in Elements : TRUE]
    /\ live = {}
    /\ value = [e \in Elements |-> Zero]
    /\ tool = "idle" /\ copy = 0 /\ zeros = 0
    /\ began = [p \in Packets |-> 0]
    /\ since = Zero
    /\ missed = {} /\ mixed = {}
    /\ torn = FALSE /\ blurred = FALSE

Tick ==
    /\ clock < MaxTime
    /\ clock' = clock + 1
    /\ UNCHANGED <<pc, ts, ptr, live, value, tool, copy, zeros, ghosts>>

Goto(p, l) == pc' = [pc EXCEPT ![p] = l]

-----------------------------------------------------------------------------
\* bpf_map_lookup_elem finds the entry.
Lookup(p, next) ==
    /\ \E e \in live : ptr' = [ptr EXCEPT ![p] = e]
    /\ Goto(p, next)

\* cb_mark_init: the time, and the lookup.
MarkInit(p) ==
    /\ pc[p] = "idle"
    /\ ts' = [ts EXCEPT ![p] = clock]
    /\ began' = [began EXCEPT ![p] = clock]
    /\ \/ Lookup(p, "rx") /\ UNCHANGED missed
       \/ live = {} /\ Goto(p, "insert") /\ missed' = missed \cup {p} /\ UNCHANGED ptr
    /\ mixed' = IF Under(Packets) = {} /\ tool = "idle" THEN mixed
                ELSE mixed \cup Under(Packets) \cup {p}
    /\ UNCHANGED <<clock, live, value, tool, copy, zeros, since, torn, blurred>>

\* Variant: the entry is replaced if there is one by now (BPF_ANY).
OverwritingInsert(p) ==
    /\ pc[p] = "insert"
    /\ \E e \in Elements \ live :
        /\ live' = {e}
        /\ value' = [value EXCEPT ![e] = Zero]
    /\ Goto(p, "run")
    /\ UNCHANGED <<clock, ts, ptr, tool, copy, zeros, ghosts>>

\* BPF_NOEXIST: of several packets that missed the entry, one inserts it.  None of
\* them is counted in rx.
Insert(p) ==
    /\ pc[p] = "insert"
    /\ \/ /\ live = {}
          /\ \E e \in Elements :
                live' = {e} /\ value' = [value EXCEPT ![e] = Zero]
       \/ live # {} /\ UNCHANGED <<live, value>>
    /\ Goto(p, "run")
    /\ UNCHANGED <<clock, ts, ptr, tool, copy, zeros, ghosts>>

AddRx(p) ==
    /\ pc[p] = "rx"
    /\ value' = [value EXCEPT ![ptr[p]].rx = @ + 1]
    /\ since' = [since EXCEPT !.rx = @ + 1]
    /\ Goto(p, "stamp")
    /\ UNCHANGED <<clock, ts, ptr, live, tool, copy, zeros, began, missed, mixed,
                   torn, blurred>>

\* Variant: only the first packet leaves its time.
FirstStamp(p) ==
    /\ pc[p] = "stamp"
    /\ value' = [value EXCEPT ![ptr[p]].init_ts = IF @ = 0 THEN ts[p] ELSE @]
    /\ Goto(p, "run")
    /\ UNCHANGED <<clock, ts, ptr, live, tool, copy, zeros, ghosts>>

\* A plain store: the next packet's time overwrites it.
Stamp(p) ==
    /\ pc[p] = "stamp"
    /\ value' = [value EXCEPT ![ptr[p]].init_ts = ts[p]]
    /\ Goto(p, "run")
    /\ UNCHANGED <<clock, ts, ptr, live, tool, copy, zeros, ghosts>>

-----------------------------------------------------------------------------
\* cb_retok: the time, and the lookup.  Nothing deletes the entry (CountersExact), so
\* its branch for a missing one is never taken.
RetOk(p) ==
    /\ pc[p] = "run"
    /\ ts' = [ts EXCEPT ![p] = clock]
    /\ Lookup(p, "tx")
    /\ UNCHANGED <<clock, live, value, tool, copy, zeros, ghosts>>

AddTx(p) ==
    /\ pc[p] = "tx"
    /\ value' = [value EXCEPT ![ptr[p]].tx = @ + 1]
    /\ since' = [since EXCEPT !.tx = @ + 1]
    /\ Goto(p, "lat")
    /\ UNCHANGED <<clock, ts, ptr, live, tool, copy, zeros, began, missed, mixed,
                   torn, blurred>>

\* ts - s->init_ts, with whatever time is there now.
AddLat(p) ==
    /\ pc[p] = "lat"
    /\ value' = [value EXCEPT ![ptr[p]].lat_avg_sum =
                    (@ + ts[p] - value[ptr[p]].init_ts) % TimeMod]
    /\ since' = [since EXCEPT !.lat_avg_sum = (@ + ts[p] - began[p]) % TimeMod]
    /\ blurred' = (blurred \/ p \in missed \cup mixed)
    /\ Goto(p, "done")
    /\ UNCHANGED <<clock, ts, ptr, live, tool, copy, zeros, began, missed, mixed, torn>>

RetOther(p) ==
    /\ pc[p] = "run"
    /\ Lookup(p, "tx_other")
    /\ UNCHANGED <<clock, ts, live, value, tool, copy, zeros, ghosts>>

AddOther(p) ==
    /\ pc[p] = "tx_other"
    /\ value' = [value EXCEPT ![ptr[p]].tx_other = @ + 1]
    /\ since' = [since EXCEPT !.tx_other = @ + 1]
    /\ Goto(p, "done")
    /\ UNCHANGED <<clock, ts, ptr, live, tool, copy, zeros, began, missed, mixed,
                   torn, blurred>>

-----------------------------------------------------------------------------
\* dump_prog_stats with -z: reads the entry; if there is none, stats.init_ts holds
\* what happens to be on the stack ...
ReadStats ==
    /\ tool = "idle"
    /\ zeros < MaxZeros
    /\ zeros' = zeros + 1
    /\ tool' = "write"
    /\ \/ \E e \in live : copy' = value[e].init_ts
       \/ live = {} /\ copy' \in {0, MaxTime}
    /\ mixed' = mixed \cup Under(Packets)
    /\ UNCHANGED <<clock, pc, ts, ptr, live, value, began, since, missed, torn, blurred>>

\* ... and writes it back with zeros for everything but init_ts.
WriteZeros ==
    /\ tool = "write"
    /\ tool' = "idle"
    /\ \E e \in Elements \ live :
        /\ live' = {e}
        /\ value' = [value EXCEPT ![e] = [Zero EXCEPT !.init_ts = copy]]
    /\ since' = Zero
    /\ torn' = (torn \/ \E p \in Packets :
                    pc[p] \in {"rx", "stamp", "tx", "lat", "tx_other"})
    /\ UNCHANGED <<clock, pc, ts, ptr, copy, zeros, began, missed, mixed, blurred>>

Next ==
    \/ Tick
    \/ \E p \in Packets :
        \/ MarkInit(p) \/ Insert(p) \/ AddRx(p) \/ Stamp(p)
        \/ RetOk(p) \/ AddTx(p) \/ AddLat(p) \/ RetOther(p) \/ AddOther(p)
    \/ ReadStats \/ WriteZeros

Spec == Init /\ [][Next]_vars

-----------------------------------------------------------------------------
(***************************************************************************)
(* Properties.                                                             *)
(***************************************************************************)

\* However many first packets race to make the entry, it is there when a packet
\* returns, and its counters are what was added since they were last zeroed, as long
\* as map_inspector -z does not replace an element a packet is still counting in.
CountersExact ==
    /\ live = {} => \A p \in Packets : pc[p] \in {"idle", "insert"}
    /\ ~torn => \A e \in live :
          /\ value[e].rx = since.rx
          /\ value[e].tx = since.tx
          /\ value[e].tx_other = since.tx_other

\* The latencies add up if every packet that was added ran alone and found the entry
\* when it came, whatever ran before it: the time an earlier packet, or the tool,
\* left behind is never the one that is used.
LatencyExact ==
    torn \/ blurred \/ \A e \in live : value[e].lat_avg_sum = since.lat_avg_sum
=============================================================================
