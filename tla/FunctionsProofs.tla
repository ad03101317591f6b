--------------------------- MODULE FunctionsProofs ---------------------------
(***************************************************************************)
(* The safety of the tools that set up service functions, for any number   *)
(* of runs, faults, packets and tools: Redirect, and with names of their   *)
(* own (FunctionTools), ServiceFunctions and XdpRedirect.  The three       *)
(* share no state, and every theorem is about one of them.                 *)
(***************************************************************************)
EXTENDS FunctionTools, Integers, Sequences, FiniteSets, FiniteSetTheorems, TLAPS

-----------------------------------------------------------------------------
(***************************************************************************)
(* Redirect.                                                               *)
(***************************************************************************)

\* What the command lines that have ended asked for is in the maps, and what the one
\* that runs has done so far is what it amounts to if its next step is the last.
MapsAsAsked ==
    /\ asked \in [filter : BOOLEAN, srcip : Sources \cup {Unset},
                  egress : Ports \cup {Unset}]
    /\ tool \in {"idle", "attach", "remove", "srcip", "egress"}
    /\ cmd \in [ingress : BOOLEAN, remove : BOOLEAN,
                srcip : Sources \cup {Unset, NotGiven},
                egress : Ports \cup {Unset, NotGiven}]
    /\ filter \in BOOLEAN
    /\ tool = "idle" => cmd = NoCommand
    /\ tool = "attach" => cmd.ingress
    /\ tool \in {"srcip", "egress"} => ~cmd.remove
    /\ tool = "remove" => cmd.remove
    /\ filter = IF tool = "attach" THEN asked.filter ELSE asked.filter \/ cmd.ingress
    /\ srcip = IF tool = "egress" /\ cmd.srcip # NotGiven THEN cmd.srcip ELSE asked.srcip
    /\ egress = asked.egress

\* A packet no command line overlaps with still finds the maps as they were.
CleanTreated ==
    /\ clean # {} => tool = "idle"
    /\ clean \subseteq Packets
    /\ pc \in [Packets -> {"new", "matched", "passed"} \cup Ports \cup {Unset}]
    /\ want \in [Packets -> {"passed"} \cup Ports \cup {Unset}]
    /\ \A p \in clean : IF pc[p] = "matched" THEN want[p] = egress ELSE pc[p] = want[p]

RedirectInv == MapsAsAsked /\ CleanTreated

\* Nothing is asked for, and nothing is in the maps.
LEMMA RedirectInit == ASSUME Init PROVE RedirectInv
BY RedirectAssumption DEF Init, RedirectInv, MapsAsAsked, CleanTreated, After, NoCommand

\* Every step of a command line does what After says of it, and a command line that
\* fails, or is over, leaves what it had done.
LEMMA RedirectStep == ASSUME RedirectInv, [Next]_vars PROVE RedirectInv'
<1> USE RedirectAssumption DEF RedirectInv, MapsAsAsked, config
<1>1. ASSUME NEW c \in Commands, Run(c)
      PROVE  RedirectInv'
  <2>1. CASE Refuses(c)
    BY <1>1, <2>1 DEF Run, CleanTreated
  <2>2. CASE ~Refuses(c)
    <3>1. /\ tool' \in {"attach", "remove", "srcip"}
          /\ tool' = "attach" <=> c.ingress
          /\ tool' = "remove" <=> ~c.ingress /\ c.remove
      BY <1>1, <2>2 DEF Run
    <3>2. /\ cmd' = c /\ clean' = {} /\ tool = "idle" /\ cmd = NoCommand
          /\ UNCHANGED <<filter, srcip, egress, asked, pc, want>>
      BY <1>1, <2>2 DEF Run
    <3>3. MapsAsAsked'
      BY <3>1, <3>2 DEF NoCommand
    <3> QED
      BY <3>2, <3>3 DEF CleanTreated
  <2> QED
    BY <2>1, <2>2
<1>2. CASE AttachFilter
  <2>1. CASE ~filter
    BY <1>2, <2>1 DEF AttachFilter, Continue, CleanTreated
  <2>2. CASE filter
    <3>1. /\ asked' = [filter |-> asked.filter, srcip |-> asked.srcip, egress |-> asked.egress]
          /\ tool' = "idle" /\ cmd' = NoCommand /\ tool = "attach"
          /\ UNCHANGED <<filter, srcip, egress, clean, pc, want>>
      BY <1>2, <2>2 DEF AttachFilter, End, After
    <3> QED
      BY <3>1 DEF NoCommand, CleanTreated
  <2> QED
    BY <2>1, <2>2
<1>3. CASE RemoveFilter
  BY <1>3 DEF RemoveFilter, End, NoCommand, CleanTreated, After
<1>4. CASE WriteSrcip
  <2>1. CASE tool' = "egress"
    BY <1>4, <2>1 DEF WriteSrcip, End, Continue, CleanTreated
  <2>2. CASE tool' # "egress"
    <3>1. /\ asked' = [filter |-> asked.filter \/ cmd.ingress,
                        srcip |-> asked.srcip, egress |-> asked.egress]
          /\ tool' = "idle" /\ cmd' = NoCommand /\ tool = "srcip"
          /\ UNCHANGED <<filter, srcip, egress, clean, pc, want>>
      BY <1>4, <2>2 DEF WriteSrcip, End, Continue, After
    <3> QED
      BY <3>1 DEF NoCommand, CleanTreated
  <2> QED
    BY <2>1, <2>2
<1>5. CASE WriteEgress
  <2>1. CASE pinned
    <3>1. /\ asked' = [filter |-> asked.filter \/ cmd.ingress,
                        srcip |-> IF cmd.srcip # NotGiven THEN cmd.srcip ELSE asked.srcip,
                        egress |-> IF cmd.egress # NotGiven THEN cmd.egress
                                   ELSE asked.egress]
          /\ egress' = IF cmd.egress = NotGiven THEN egress ELSE cmd.egress
          /\ tool' = "idle" /\ cmd' = NoCommand /\ tool = "egress"
          /\ UNCHANGED <<filter, srcip, clean, pc, want>>
      BY <1>5, <2>1 DEF WriteEgress, End, After
    <3> QED
      BY <3>1 DEF NoCommand, CleanTreated
  <2>2. CASE ~pinned
    <3>1. /\ asked' = [filter |-> asked.filter \/ cmd.ingress,
                        srcip |-> IF cmd.srcip # NotGiven THEN cmd.srcip ELSE asked.srcip,
                        egress |-> asked.egress]
          /\ tool' = "idle" /\ cmd' = NoCommand /\ tool = "egress"
          /\ UNCHANGED <<filter, srcip, egress, clean, pc, want>>
      BY <1>5, <2>2 DEF WriteEgress, End, After
    <3> QED
      BY <3>1 DEF NoCommand, CleanTreated
  <2> QED
    BY <2>1, <2>2
<1>6. CASE Fails
  BY <1>6 DEF Fails, End, NoCommand, CleanTreated, After
<1>7. ASSUME NEW p \in Packets, CheckSource(p)
      PROVE  RedirectInv'
  <2>1. MapsAsAsked'
    BY <1>7 DEF CheckSource
  <2>2. CASE tool # "idle"
    BY <1>7, <2>1, <2>2 DEF CheckSource, CleanTreated, Wanted
  <2>3. CASE tool = "idle"
    <3>1. filter = asked.filter /\ srcip = asked.srcip /\ egress = asked.egress
      BY <2>3 DEF NoCommand
    <3> QED
      BY <1>7, <2>1, <2>3, <3>1 DEF CheckSource, CleanTreated, Matches, Wanted
  <2> QED
    BY <2>2, <2>3
<1>8. ASSUME NEW p \in Packets, SendPacket(p)
      PROVE  RedirectInv'
  BY <1>8 DEF SendPacket, CleanTreated
<1>9. CASE UNCHANGED vars
  BY <1>9 DEF vars, CleanTreated
<1> QED
  BY <1>1, <1>2, <1>3, <1>4, <1>5, <1>6, <1>7, <1>8, <1>9 DEF Next

\* What the command lines so far asked for, each as far as it came, is what happens to
\* a packet none of them overlaps with, also after one that failed between its two
\* writes, or was killed there, and whatever the pinned maps held.
THEOREM RedirectHonoured == Spec => []SettledHonoured
<1>1. Init => RedirectInv
  BY RedirectInit
<1>2. RedirectInv /\ [Next]_vars => RedirectInv'
  BY RedirectStep
<1>3. RedirectInv => SettledHonoured
  BY DEF RedirectInv, CleanTreated, SettledHonoured
<1> QED
  BY <1>1, <1>2, <1>3, PTL DEF Spec

-----------------------------------------------------------------------------
(***************************************************************************)
(* ServiceFunctions.                                                       *)
(***************************************************************************)

\* The place of the tool tells how many runs without a fault were refused.
Refusals ==
    /\ ftool \in {"idle", "attach", "open", "line", "egress", "cleanup"}
    /\ ftool \in {"open", "line", "egress"} => ffilter
    /\ refused \in {0, 1}
    /\ refused = 1 => \/ ftool \in {"idle", "attach"} /\ ~ffilter
                      \/ ftool \in {"open", "line", "egress"}

\* Of the first r lines, n is the last one about flow f, and none after it is one the
\* tool cannot read.
Decides(f, n, r) ==
    /\ n \in F!LinesOf(f) /\ n <= r
    /\ \A m \in n + 1 .. r : m \notin F!LinesOf(f) /\ F!Readable(fcmd.file[m])

Read == IF ftool = "line" THEN line - 1 ELSE Len(fcmd.file)

\* What the lines read so far say about a flow is in the map, unless there is no room.
RulesRead ==
    /\ Len(fcmd.file) \in Nat
    /\ ftool = "line" => line \in 1 .. Len(fcmd.file) + 1
    /\ ftool = "line" /\ whole => fd
    /\ (fkind = "firewall" /\ whole /\ ftool \in {"line", "egress", "idle"}) =>
          \A p \in Packets : \A n \in 1 .. Len(fcmd.file) :
              Decides(FlowOf[p], n, Read) =>
                  \/ FlowOf[p] \in DOMAIN rules /\ rules[FlowOf[p]] = fcmd.file[n].action
                  \/ ~F!Fits(FlowOf[p])

\* After a run without a fault the filter is attached and the interface written.
SetUp == ftool = "idle" /\ whole => ffilter /\ fegress = fcmd.egress

\* The port of the packet reads the same in both byte orders, or does not matter.
PortReads(p) == fkind = "firewall" => FlowOf[p] = F!KeyOf(FlowOf[p])

Treated ==
    /\ fclean # {} => ftool = "idle"
    /\ fclean \subseteq Packets
    /\ DOMAIN fpc = Packets /\ DOMAIN fwant = Packets
    /\ \A p \in fclean :
          PortReads(p) /\ fwant[p] # "anything" =>
              IF fpc[p] = "allowed" THEN fwant[p] = fegress ELSE fpc[p] = fwant[p]

FilterInv == Refusals /\ RulesRead /\ SetUp /\ Treated

\* Nothing is attached, and no file has been read.
LEMMA FilterInit ==
    ASSUME F!ServiceFunctionsAssumption, F!Init PROVE FilterInv
BY DEF F!Init, FilterInv, Refusals, RulesRead, SetUp, Treated

\* The tool reads its file line by line, and what it was told about a flow last decides.
LEMMA FilterStep ==
    ASSUME F!ServiceFunctionsAssumption, FilterInv, [F!Next]_(F!vars) PROVE FilterInv'
<1> USE DEF FilterInv, F!maps, F!parser, F!ghosts, F!Fault, F!NoFault, F!Return
<1>1. ASSUME NEW i \in Ports, NEW f \in Files, F!Run([egress |-> i, file |-> f])
      PROVE  FilterInv'
  <2> USE <1>1 DEF F!Run
  <2>1. Refusals'
    BY DEF Refusals
  <2>2. RulesRead'
    BY DEF RulesRead, F!ServiceFunctionsAssumption
  <2>3. SetUp'
    BY DEF SetUp
  <2>4. Treated'
    BY DEF Treated
  <2> QED
    BY <2>1, <2>2, <2>3, <2>4
<1>2. CASE F!Attach
  <2> USE <1>2 DEF F!Attach
  <2>1. Refusals'
    BY DEF Refusals
  <2>2. RulesRead'
    BY DEF RulesRead
  <2>3. SetUp'
    BY DEF SetUp
  <2>4. Treated'
    BY DEF Treated, PortReads
  <2> QED
    BY <2>1, <2>2, <2>3, <2>4
<1>3. CASE F!CleanUp
  <2> USE <1>3 DEF F!CleanUp
  <2>1. Refusals'
    BY DEF Refusals
  <2>2. RulesRead'
    BY DEF RulesRead
  <2>3. SetUp'
    BY DEF SetUp
  <2>4. Treated'
    BY DEF Treated, PortReads
  <2> QED
    BY <2>1, <2>2, <2>3, <2>4
<1>4. CASE F!OpenRules
  <2> USE <1>4 DEF F!OpenRules
  <2>1. Refusals'
    BY DEF Refusals
  <2>2. RulesRead'
    BY DEF RulesRead, Read, Decides, F!LinesOf
  <2>3. SetUp'
    BY DEF SetUp
  <2>4. Treated'
    BY DEF Treated, PortReads
  <2> QED
    BY <2>1, <2>2, <2>3, <2>4
<1>5. CASE F!ParseLine
  <2> USE <1>5 DEF F!ParseLine, F!Store
  <2>1. Refusals'
    BY DEF Refusals
  <2>2. RulesRead'
    <3> DEFINE l == fcmd.file[line]
               s == F!Scanned(l)
               t == F!Parsed(s)
    <3>1. /\ Len(fcmd.file) \in Nat /\ line \in 1 .. Len(fcmd.file) /\ line' = line + 1
          /\ ftool = "line" /\ ftool' = ftool /\ fcmd' = fcmd /\ fd' = fd /\ fkind' = fkind
      BY DEF RulesRead
    <3>0. whole' => whole
      BY <3>1
    <3>3. whole => fd
      BY <3>1 DEF RulesRead
    <3> SUFFICES ASSUME fkind = "firewall", whole', NEW p \in Packets,
                        NEW n \in 1 .. Len(fcmd.file), Decides(FlowOf[p], n, line)
                 PROVE  \/ /\ FlowOf[p] \in DOMAIN rules'
                           /\ rules'[FlowOf[p]] = fcmd.file[n].action
                        \/ ~F!Fits(FlowOf[p])'
      <4>1. /\ Len(fcmd'.file) = Len(fcmd.file) /\ Read' = line
            /\ line' \in 1 .. Len(fcmd.file) + 1
        BY ONLY <3>1 DEF Read
      <4>2. \A g, n : Decides(g, n, Read)' <=> Decides(g, n, line)
        BY ONLY <3>1, <4>1 DEF Decides, F!LinesOf
      <4> QED
        BY <4>1, <4>2, <3>1, <3>0, <3>3 DEF RulesRead
    <3> DEFINE f == FlowOf[p]
    <3>2. fkind = "firewall" /\ whole' /\ Decides(FlowOf[p], n, line)
      OBVIOUS
    <3>4. IF s.action \in {"drop", "allow"} /\ F!Fits(t)
          THEN rules' = [x \in DOMAIN rules \cup {t} |->
                            IF x = t THEN s.action ELSE rules[x]]
          ELSE rules' = rules
      BY <3>2, <3>3
    <3>7. F!Readable(l) => s = [src |-> l.src, port |-> l.port, action |-> l.action]
                           /\ t = [src |-> l.src, port |-> l.port]
      BY DEF F!Readable, F!Scanned, F!Scan, F!Parsed
    <3>5. CASE n = line
      <4>0. F!Readable(l)
        BY <3>2, <3>5 DEF Decides, F!LinesOf, F!Readable, F!ServiceFunctionsAssumption
      <4>1. t = f /\ s.action = l.action /\ l.action \in {"drop", "allow"}
        BY <3>2, <3>5, <3>7, <4>0 DEF Decides, F!LinesOf, F!ServiceFunctionsAssumption
      <4> QED
        BY ONLY <4>1, <3>4, <3>5 DEF F!Fits
    <3>6. CASE n # line
      <4>1. Decides(f, n, line - 1) /\ line \notin F!LinesOf(f) /\ F!Readable(l)
        BY ONLY <3>1, <3>2, <3>6 DEF Decides, F!LinesOf
      <4>2. \/ f \in DOMAIN rules /\ rules[f] = fcmd.file[n].action
            \/ ~F!Fits(f)
        BY <4>1, <3>1, <3>2, <3>3 DEF RulesRead, Read
      <4>3. s.action \in {"drop", "allow"} => t # f
        BY <4>1, <3>1, <3>7 DEF F!LinesOf
      <4>4. DOMAIN rules' = IF s.action \in {"drop", "allow"} /\ F!Fits(t)
                            THEN DOMAIN rules \cup {t} ELSE DOMAIN rules
        BY ONLY <3>4
      <4>5. CASE f \in DOMAIN rules /\ rules[f] = fcmd.file[n].action
        BY ONLY <4>3, <4>4, <4>5, <3>4
      <4>6. CASE ~F!Fits(f)
        BY ONLY <4>3, <4>4, <4>6 DEF F!Fits
      <4> QED
        BY ONLY <4>2, <4>5, <4>6
    <3> QED
      BY <3>5, <3>6
  <2>3. SetUp'
    BY DEF SetUp
  <2>4. Treated'
    BY DEF Treated, PortReads
  <2> QED
    BY <2>1, <2>2, <2>3, <2>4
<1>6. CASE F!EndOfFile
  <2> USE <1>6 DEF F!EndOfFile
  <2>1. Refusals'
    BY DEF Refusals
  <2>2. RulesRead'
    <3>1. Read = Len(fcmd.file) /\ Read' = Read
      BY DEF RulesRead, Read
    <3>2. \A f, n : Decides(f, n, Read)' <=> Decides(f, n, Read)
      BY <3>1 DEF Decides, F!LinesOf
    <3>3. \A f : F!Fits(f)' <=> F!Fits(f)
      BY DEF F!Fits
    <3> QED
      BY <3>2, <3>3 DEF RulesRead
  <2>3. SetUp'
    BY DEF SetUp
  <2>4. Treated'
    BY DEF Treated, PortReads
  <2> QED
    BY <2>1, <2>2, <2>3, <2>4
<1>7. CASE F!WriteEgress
  <2> USE <1>7 DEF F!WriteEgress
  <2>1. Refusals'
    BY DEF Refusals
  <2>2. RulesRead'
    BY DEF RulesRead, Read, Decides, F!LinesOf, F!Fits
  <2>3. SetUp'
    BY DEF SetUp, Refusals
  <2>4. Treated'
    BY DEF Treated, PortReads
  <2> QED
    BY <2>1, <2>2, <2>3, <2>4
<1>8. CASE F!Killed
  <2> USE <1>8 DEF F!Killed
  <2>1. Refusals'
    BY DEF Refusals
  <2>2. RulesRead'
    BY DEF RulesRead
  <2>3. SetUp'
    BY DEF SetUp
  <2>4. Treated'
    BY DEF Treated, PortReads
  <2> QED
    BY <2>1, <2>2, <2>3, <2>4
<1>9. ASSUME NEW p \in Packets, F!CheckRules(p)
      PROVE  FilterInv'
  <2> USE <1>9 DEF F!CheckRules
  <2>1. Refusals'
    BY DEF Refusals
  <2>2. RulesRead'
    BY DEF RulesRead, Read, Decides, F!LinesOf, F!Fits
  <2>3. SetUp'
    BY DEF SetUp
  <2>4. Treated'
    <3> DEFINE f == FlowOf[p]
    <3>1. CASE ftool # "idle"
      BY <3>1 DEF Treated, PortReads, F!KeyOf
    <3>2. CASE ftool = "idle" /\ PortReads(p) /\ fwant'[p] # "anything"
      <4>1. fwant'[p] = F!Asked(f)
        BY DEF Treated
      <4>2. whole
        BY <3>2, <4>1 DEF F!Asked
      <4>3. ffilter /\ fegress = fcmd.egress
        BY <3>2, <4>2 DEF SetUp
      <4>4. CASE fkind # "firewall"
        <5>1. F!Asked(f) = fcmd.egress
          BY <4>2, <4>4 DEF F!Asked
        <5>2. fpc'[p] = "allowed"
          BY <4>3, <4>4 DEF Treated
        <5> QED
          BY <5>1, <5>2, <4>1, <4>3 DEF Treated, PortReads, F!KeyOf
      <4>5. CASE fkind = "firewall"
        <5>1. F!KeyOf(f) = f
          BY <3>2, <4>5 DEF PortReads
        <5>2. ASSUME NEW a, F!Fits(f), F!Says(f, a)
              PROVE  f \in DOMAIN rules /\ rules[f] = a
          <6>1. PICK n \in F!LinesOf(f) :
                        /\ \A m \in F!LinesOf(f) : m <= n
                        /\ fcmd.file[n].action = a
                        /\ \A m \in n + 1 .. Len(fcmd.file) : F!Readable(fcmd.file[m])
            BY <5>2 DEF F!Says
          <6>2. n \in 1 .. Len(fcmd.file) /\ Len(fcmd.file) \in Nat
            BY DEF F!LinesOf, RulesRead
          <6>3. Decides(f, n, Len(fcmd.file))
            BY <6>1, <6>2 DEF Decides
          <6> QED
            BY <6>1, <6>2, <6>3, <5>2, <4>2, <4>5, <3>2 DEF RulesRead, Read
        <5>3. CASE F!Fits(f) /\ F!Says(f, "drop")
          <6>1. rules[f] = "drop" /\ f \in DOMAIN rules
            BY <5>2, <5>3
          <6>2. ~(F!Fits(f) /\ F!Says(f, "allow"))
            BY <5>2, <6>1
          <6>3. F!Asked(f) = "shot"
            BY <4>2, <4>5, <5>3, <6>2 DEF F!Asked
          <6>4. fpc'[p] = "shot"
            BY <4>3, <4>5, <5>1, <6>1 DEF Treated
          <6> QED
            BY <6>3, <6>4, <4>1 DEF Treated, PortReads, F!KeyOf
        <5>4. CASE F!Fits(f) /\ F!Says(f, "allow")
          <6>1. rules[f] = "allow"
            BY <5>2, <5>4
          <6>2. ~(F!Fits(f) /\ F!Says(f, "drop"))
            BY <5>2, <6>1
          <6>3. F!Asked(f) = fcmd.egress
            BY <4>2, <4>5, <5>4, <6>2 DEF F!Asked
          <6>4. fpc'[p] = "allowed"
            BY <4>3, <4>5, <5>1, <6>1 DEF Treated
          <6> QED
            BY <6>3, <6>4, <4>1, <4>3 DEF Treated, PortReads, F!KeyOf
        <5>5. (F!Fits(f) /\ F!Says(f, "drop")) \/ (F!Fits(f) /\ F!Says(f, "allow"))
          BY <3>2, <4>1, <4>5 DEF F!Asked
        <5> QED
          BY <5>3, <5>4, <5>5
      <4> QED
        BY <4>4, <4>5
    <3>3. CASE ftool = "idle" /\ ~(PortReads(p) /\ fwant'[p] # "anything")
      BY <3>3 DEF Treated, PortReads, F!KeyOf
    <3> QED
      BY <3>1, <3>2, <3>3
  <2> QED
    BY <2>1, <2>2, <2>3, <2>4
<1>10. ASSUME NEW p \in Packets, F!SendPacket(p)
      PROVE  FilterInv'
  <2> USE <1>10 DEF F!SendPacket
  <2>1. Refusals'
    BY DEF Refusals
  <2>2. RulesRead'
    BY DEF RulesRead, Read, Decides, F!LinesOf, F!Fits
  <2>3. SetUp'
    BY DEF SetUp
  <2>4. Treated'
    BY DEF Treated, PortReads, F!KeyOf
  <2> QED
    BY <2>1, <2>2, <2>3, <2>4
<1>11. CASE UNCHANGED F!vars
  BY <1>11 DEF F!vars, Refusals, RulesRead, Read, Decides, F!LinesOf, F!Fits, SetUp,
                     Treated, PortReads, F!KeyOf
<1> QED
  BY <1>1, <1>2, <1>3, <1>4, <1>5, <1>6, <1>7, <1>8, <1>9, <1>10, <1>11 DEF F!Next

\* FilterInv is an invariant of ServiceFunctions.
LEMMA FilterInvariant ==
    ASSUME F!ServiceFunctionsAssumption PROVE F!Spec => []FilterInv
<1>1. F!Init => FilterInv
  BY FilterInit
<1>2. FilterInv /\ [F!Next]_(F!vars) => FilterInv'
  BY FilterStep
<1> QED
  BY <1>1, <1>2, PTL DEF F!Spec

\* After a run of a tool that went through, the filter treats a packet as that run
\* said, whatever files earlier runs left in the pinned map of rules.
THEOREM FiltersHonoured == F!Spec => []SetUpHonoured
<1>1. FilterInv => SetUpHonoured
  BY DEF FilterInv, Treated, PortReads, F!SetUpHonoured, SetUpHonoured, F!Settled
<1> QED
  BY FunctionsAssumption, FilterInvariant, <1>1, PTL

\* A tool that finds its own filter takes it away, but the next one attaches it.
THEOREM FiltersRefuseOnce == F!Spec => []SecondRunSuffices
<1>1. FilterInv => SecondRunSuffices
  BY DEF FilterInv, Refusals, F!SecondRunSuffices, SecondRunSuffices
<1> QED
  BY FunctionsAssumption, FilterInvariant, <1>1, PTL

-----------------------------------------------------------------------------
(***************************************************************************)
(* XdpRedirect.                                                            *)
(***************************************************************************)

Interfaces == {"in", "out"}

\* Where a tool can be while its program is on an interface.  After a call that
\* detaches has failed there, it can be anywhere.
HoldsIn == {"out", "signal", "poll", "detach_in", "exited"}
HoldsOut == {"signal", "poll", "detach_in", "check_out", "detach_out", "exited"}

XdpTypes ==
    /\ hook \in [Interfaces -> Tools \cup {"none", "dec"}]
    /\ hook["out"] # "dec"
    /\ xpc \in [Tools -> HoldsIn \cup HoldsOut \cup {"start", "clean"}]
    /\ dummy \in [Tools -> BOOLEAN]
    /\ agent \in {"idle", "cleanup"}
    /\ xrefused \in Nat /\ spared \in Nat
    /\ displaced \subseteq Tools /\ detached \subseteq Tools

Owned ==
    \A t \in Tools :
        /\ xpc[t] \in {"start", "out"} => dummy[t]
        /\ hook["in"] = t =>
              xpc[t] # "start" /\ (xpc[t] \in HoldsIn \/ <<t, "in">> \in stuck)
        /\ hook["out"] = t =>
              /\ dummy[t] /\ xpc[t] \notin {"start", "out"}
              /\ xpc[t] \in HoldsOut \/ <<t, "out">> \in stuck

Begun == { t \in Tools : xpc[t] # "start" }

\* Every refusal uses up the one program a tool has attached, unless the removal that
\* follows fails.  Until then the program that refused is not counted again.
Spent ==
    xrefused + (IF hook["in"] \in Tools /\ agent = "idle" THEN 1 ELSE 0)
        <= Cardinality(Begun) + spared

\* A tool that is about to detach its program finds it, or was robbed of it.
DetachOwn == \A t \in Tools : xpc[t] = "detach_in" => hook["in"] = t \/ t \in robbed

XdpInv == XdpTypes /\ Owned /\ Spent /\ DetachOwn /\ X!DecKept

\* What is finite, and how many elements a set has, is the same seen through X.
LEMMA XdpSets ==
    /\ X!IsFiniteSet(Tools) <=> IsFiniteSet(Tools)
    /\ X!Cardinality(Tools) = Cardinality(Tools)
BY DEF X!IsFiniteSet, IsFiniteSet, X!Cardinality, Cardinality

\* No tool has begun.
LEMMA XdpInit == ASSUME X!XdpRedirectAssumption, X!Init PROVE XdpInv
<1> USE DEF X!XdpRedirectAssumption
<1>1. Begun = {}
  BY DEF X!Init, Begun
<1>2. Cardinality(Begun) = 0
  BY <1>1, FS_EmptySet
<1> QED
  BY <1>2 DEF X!Init, XdpInv, XdpTypes, Owned, Spent, DetachOwn, X!DecKept, Interfaces

\* Only a tool that has attached its program stands in the agent's way, and whoever takes
\* it off while the tool is about to detach it robs the tool.
LEMMA XdpStep ==
    ASSUME X!XdpRedirectAssumption, XdpInv, [X!Next]_(X!vars) PROVE XdpInv'
<1> USE DEF X!XdpRedirectAssumption, XdpInv, X!Goto, X!Fault, X!hooks, X!counted
<1>0. IsFiniteSet(Begun) /\ Cardinality(Begun) \in Nat
  BY XdpSets, FS_Subset, FS_CardinalityType DEF Begun
<1>1. CASE X!LoadDec \/ X!RemoveXdp
  <2> USE <1>1 DEF X!LoadDec, X!RemoveXdp
  <2>1. XdpTypes'
    BY DEF XdpTypes, Interfaces
  <2>2. Owned'
    BY DEF Owned, XdpTypes, Interfaces
  <2>3. Begun' = Begun
    BY DEF Begun
  <2>4. Spent'
    BY <2>3, <1>0 DEF Spent, XdpTypes, Interfaces
  <2>5. DetachOwn'
    BY DEF DetachOwn, XdpTypes, Interfaces, X!Victims
  <2>6. X!DecKept'
    BY DEF X!DecKept, X!Victims
  <2> QED
    BY <2>1, <2>2, <2>4, <2>5, <2>6
<1>2. ASSUME NEW t \in Tools, X!AttachIn(t)
      PROVE  XdpInv'
  <2> USE <1>2 DEF X!AttachIn
  <2>1. XdpTypes'
    BY DEF XdpTypes, Interfaces, HoldsIn, HoldsOut
  <2>2. Owned'
    BY DEF Owned, XdpTypes, Interfaces, HoldsIn, HoldsOut
  <2>3. Begun' = Begun \cup {t} /\ t \notin Begun
    BY DEF Begun, XdpTypes
  <2>4. Cardinality(Begun') = Cardinality(Begun) + 1
    BY <2>3, <1>0, FS_AddElement
  <2>5. Spent'
    BY <2>4, <1>0 DEF Spent, XdpTypes, Interfaces
  <2>6. DetachOwn'
    BY DEF DetachOwn, XdpTypes, Interfaces, X!Victims
  <2>7. X!DecKept'
    BY DEF X!DecKept
  <2> QED
    BY <2>1, <2>2, <2>5, <2>6, <2>7
<1>3. ASSUME NEW t \in Tools,
             \/ X!AttachRefused(t) \/ X!AttachOut(t) \/ X!Install(t) \/ X!Abort(t)
             \/ X!CheckIn(t) \/ X!DetachIn(t) \/ X!CheckOut(t) \/ X!DetachOut(t)
      PROVE  XdpInv'
  <2>1. XdpTypes' /\ Owned' /\ DetachOwn' /\ X!DecKept'
    <3> USE DEF XdpTypes, Owned, DetachOwn, X!DecKept, Interfaces, HoldsIn, HoldsOut
    <3>1. CASE X!AttachOut(t)
      <4>1. /\ xpc' = [xpc EXCEPT ![t] = "signal"] /\ xpc[t] = "out" /\ dummy[t]
            /\ UNCHANGED <<stuck, displaced, detached, robbed, agent,
                          xrefused, spared>>
        BY <3>1 DEF X!AttachOut
      <4>2. \/ /\ hook["out"] = "none"
               /\ hook' = [hook EXCEPT !["out"] = t] /\ dummy' = dummy
            \/ hook' = hook /\ dummy' = [dummy EXCEPT ![t] = FALSE]
        BY <3>1 DEF X!AttachOut
      <4>3. CASE hook' = hook /\ dummy' = [dummy EXCEPT ![t] = FALSE]
        BY <4>1, <4>3
      <4>4. CASE /\ hook["out"] = "none"
                 /\ hook' = [hook EXCEPT !["out"] = t] /\ dummy' = dummy
        BY <4>1, <4>4
      <4> QED
        BY <4>2, <4>3, <4>4
    <3>2. CASE X!AttachRefused(t) \/ X!Install(t) \/ X!Abort(t)
      BY <3>2 DEF X!AttachRefused, X!Install, X!Abort
    <3>3. CASE X!CheckIn(t) \/ X!CheckOut(t)
      BY <3>3 DEF X!CheckIn, X!CheckOut
    <3>4. CASE X!DetachIn(t)
      BY <3>4 DEF X!DetachIn, X!Victims
    <3>5. CASE X!DetachOut(t)
      BY <3>5 DEF X!DetachOut
    <3> QED
      BY <1>3, <3>1, <3>2, <3>3, <3>4, <3>5
  <2> USE <1>3 DEF X!AttachRefused, X!AttachOut, X!Install, X!Abort, X!CheckIn, X!DetachIn,
                   X!CheckOut, X!DetachOut
  <2>3. Begun' \in {Begun, Begun \cup {t}}
    BY DEF Begun, XdpTypes
  <2>4. Cardinality(Begun') \in Nat /\ Cardinality(Begun') >= Cardinality(Begun)
    <3>1. Cardinality(Begun \cup {t})
            = IF t \in Begun THEN Cardinality(Begun) ELSE Cardinality(Begun) + 1
      BY <1>0, FS_AddElement
    <3> QED
      BY ONLY <3>1, <2>3, <1>0
  <2>5. /\ xrefused' = xrefused /\ spared' = spared /\ agent' = agent
        /\ hook'["in"] \in Tools => hook["in"] \in Tools
    BY DEF XdpTypes, Interfaces
  <2>6. Spent'
    BY <2>4, <2>5, <1>0 DEF Spent, XdpTypes
  <2> QED
    BY <2>1, <2>6
<1>4. CASE UNCHANGED X!vars
  BY <1>4 DEF X!vars, XdpTypes, Owned, Spent, DetachOwn, X!DecKept, Begun
<1> QED
  BY <1>1, <1>2, <1>3, <1>4 DEF X!Next

\* XdpInv is an invariant of XdpRedirect.
LEMMA XdpInvariant == ASSUME X!XdpRedirectAssumption PROVE X!Spec => []XdpInv
<1>1. X!Init => XdpInv
  BY XdpInit
<1>2. XdpInv /\ [X!Next]_(X!vars) => XdpInv'
  BY XdpStep
<1> QED
  BY <1>1, <1>2, PTL DEF X!Spec

\* A tool that ends by int_exit leaves a program on an interface only if the very call
\* that detaches it there failed, however agents and other tools come and go between
\* its checks.
THEOREM XdpExitsClean == X!Spec => []CleanExit
<1>1. XdpInv => CleanExit
  BY DEF XdpInv, Owned, HoldsIn, HoldsOut, X!CleanExit, CleanExit
<1> QED
  BY FunctionsAssumption, XdpInvariant, <1>1, PTL

\* For any number of tools, each keeps the agent from loading Dec once at most, and once
\* more for every removal after a refusal that failed.
THEOREM XdpRefusesOnce == X!Spec => []EachRefusesOnce
<1>1. XdpInv => EachRefusesOnce
  <2> SUFFICES ASSUME XdpInv PROVE EachRefusesOnce
    OBVIOUS
  <2>1. /\ IsFiniteSet(Tools) /\ Cardinality(Tools) \in Nat
        /\ Cardinality(Begun) \in Nat /\ Cardinality(Begun) <= Cardinality(Tools)
    BY FunctionsAssumption, XdpSets, FS_Subset, FS_CardinalityType
    DEF Begun, X!XdpRedirectAssumption
  <2> QED
    BY <2>1, XdpSets DEF XdpInv, XdpTypes, Spent, X!EachRefusesOnce, EachRefusesOnce
<1> QED
  BY FunctionsAssumption, XdpInvariant, <1>1, PTL

\* Only a forced tool displaces Dec, and only one that was robbed of its program inside
\* its handler detaches it.
THEOREM XdpKeepsDec == X!Spec => []DecKept
<1>1. XdpInv => DecKept
  BY DEF XdpInv, DecKept
<1> QED
  BY FunctionsAssumption, XdpInvariant, <1>1, PTL
=============================================================================
