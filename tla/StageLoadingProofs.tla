------------------------- MODULE StageLoadingProofs -------------------------
(***************************************************************************)
(* What an agent that says Hello can count on, for any number of faults    *)
(* among its commands and any number of its deaths.                        *)
(***************************************************************************)
EXTENDS StageLoading, Integers, TLAPS

\* Nothing is attached, and no process runs.
LEMMA LoadInit == Init => IndInv
BY StageLoadingAssumption
DEF Init, IndInv, TypeOK, FwdBehindEnc, Progress, Debt, Directions, Programs, PCs, MapFiles

\* A command that is refused has its leftovers removed, which pays for the retry.
LEMMA LoadStep == IndInv /\ [Next]_vars => IndInv'
<1> SUFFICES ASSUME IndInv, [Next]_vars
             PROVE  IndInv'
  OBVIOUS
<1> USE StageLoadingAssumption
    DEF IndInv, TypeOK, Progress, Directions, PCs, Succeeds, Refused, Broken
<1>1. CASE Start
  BY <1>1 DEF Start, AfterIngress, FwdBehindEnc, Debt
<1>2. CASE AttachDec
  <2> USE <1>2 DEF AttachDec, Attach
  <2>1. TypeOK'
    <3>1. (faults \in 0 .. MaxFaults)' /\ (retries \in 0 .. MaxRetries)'
      OBVIOUS
    <3>2. (attached \subseteq Programs)'
      BY DEF Programs
    <3>3. (src_mac \subseteq wanted)' /\ (handles \subseteq MapFiles)'
      BY DEF MapFiles
    <3>4. (wanted \subseteq Directions)' /\ (pc \in PCs)'
      OBVIOUS
    <3> QED
      BY <3>1, <3>2, <3>3, <3>4
  <2>2. FwdBehindEnc'
    BY DEF FwdBehindEnc
  <2>3. Progress'
    OBVIOUS
  <2>4. (retries + Debt <= 3)'
    BY <2>3 DEF FwdBehindEnc, Debt
  <2> QED
    BY <2>1, <2>2, <2>3, <2>4
<1>3. CASE WriteIngressMac
  <2> USE <1>3 DEF WriteIngressMac, WriteMac, AfterIngress
  <2>1. TypeOK'
    <3>1. (faults \in 0 .. MaxFaults)' /\ (retries \in 0 .. MaxRetries)'
      OBVIOUS
    <3>2. (attached \subseteq Programs)'
      BY DEF Programs
    <3>3. (src_mac \subseteq wanted)' /\ (handles \subseteq MapFiles)'
      BY DEF MapFiles
    <3>4. (wanted \subseteq Directions)' /\ (pc \in PCs)'
      OBVIOUS
    <3> QED
      BY <3>1, <3>2, <3>3, <3>4
  <2>2. FwdBehindEnc'
    BY DEF FwdBehindEnc
  <2>3. Progress'
    OBVIOUS
  <2>4. (retries + Debt <= 3)'
    BY <2>3 DEF FwdBehindEnc, Debt
  <2> QED
    BY <2>1, <2>2, <2>3, <2>4
<1>4. CASE CreateClsact
  <2> USE <1>4 DEF CreateClsact
  <2>1. TypeOK'
    <3>1. (faults \in 0 .. MaxFaults)' /\ (retries \in 0 .. MaxRetries)'
      OBVIOUS
    <3>2. (attached \subseteq Programs)'
      BY DEF Programs
    <3>3. (src_mac \subseteq wanted)' /\ (handles \subseteq MapFiles)'
      BY DEF MapFiles
    <3>4. (wanted \subseteq Directions)' /\ (pc \in PCs)'
      OBVIOUS
    <3> QED
      BY <3>1, <3>2, <3>3, <3>4
  <2>2. FwdBehindEnc'
    BY DEF FwdBehindEnc
  <2>3. Progress'
    OBVIOUS
  <2>4. (retries + Debt <= 3)'
    BY <2>3 DEF FwdBehindEnc, Debt
  <2> QED
    BY <2>1, <2>2, <2>3, <2>4
<1>5. CASE AttachEnc
  <2> USE <1>5 DEF AttachEnc, Attach, Filters
  <2>1. TypeOK'
    <3>1. (faults \in 0 .. MaxFaults)' /\ (retries \in 0 .. MaxRetries)'
      OBVIOUS
    <3>2. (attached \subseteq Programs)'
      BY DEF Programs
    <3>3. (src_mac \subseteq wanted)' /\ (handles \subseteq MapFiles)'
      BY DEF MapFiles
    <3>4. (wanted \subseteq Directions)' /\ (pc \in PCs)'
      OBVIOUS
    <3> QED
      BY <3>1, <3>2, <3>3, <3>4
  <2>2. FwdBehindEnc'
    BY DEF FwdBehindEnc
  <2>3. Progress'
    BY DEF FwdBehindEnc
  <2>4. (retries + Debt <= 3)'
    BY <2>3 DEF FwdBehindEnc, Debt
  <2> QED
    BY <2>1, <2>2, <2>3, <2>4
<1>6. CASE AttachFwd
  <2> USE <1>6 DEF AttachFwd, Attach, Filters
  <2>1. TypeOK'
    <3>1. (faults \in 0 .. MaxFaults)' /\ (retries \in 0 .. MaxRetries)'
      OBVIOUS
    <3>2. (attached \subseteq Programs)'
      BY DEF Programs
    <3>3. (src_mac \subseteq wanted)' /\ (handles \subseteq MapFiles)'
      BY DEF MapFiles
    <3>4. (wanted \subseteq Directions)' /\ (pc \in PCs)'
      OBVIOUS
    <3> QED
      BY <3>1, <3>2, <3>3, <3>4
  <2>2. FwdBehindEnc'
    BY DEF FwdBehindEnc
  <2>3. Progress'
    OBVIOUS
  <2>4. (retries + Debt <= 3)'
    BY <2>3 DEF FwdBehindEnc, Debt
  <2> QED
    BY <2>1, <2>2, <2>3, <2>4
<1>7. CASE WriteEgressMac
  <2> USE <1>7 DEF WriteEgressMac, WriteMac
  <2>1. TypeOK'
    <3>1. (faults \in 0 .. MaxFaults)' /\ (retries \in 0 .. MaxRetries)'
      OBVIOUS
    <3>2. (attached \subseteq Programs)'
      BY DEF Programs
    <3>3. (src_mac \subseteq wanted)' /\ (handles \subseteq MapFiles)'
      BY DEF MapFiles
    <3>4. (wanted \subseteq Directions)' /\ (pc \in PCs)'
      OBVIOUS
    <3> QED
      BY <3>1, <3>2, <3>3, <3>4
  <2>2. FwdBehindEnc'
    BY DEF FwdBehindEnc
  <2>3. Progress'
    OBVIOUS
  <2>4. (retries + Debt <= 3)'
    BY <2>3 DEF FwdBehindEnc, Debt
  <2> QED
    BY <2>1, <2>2, <2>3, <2>4
<1>8. CASE Die
  BY <1>8 DEF Die, FwdBehindEnc, Debt
<1>9. CASE Restart
  BY <1>9 DEF Restart, FwdBehindEnc, Debt
<1>10. CASE UNCHANGED vars
  BY <1>10 DEF vars, FwdBehindEnc, Debt
<1> QED
  BY <1>1, <1>2, <1>3, <1>4, <1>5, <1>6, <1>7, <1>8, <1>9, <1>10 DEF Next

\* What is attached determines how many processes can still be refused, and the
\* place of a process what it has attached: this holds of the loader in every
\* history of failures, deaths and restarts.
THEOREM LoadInductive == Spec => []IndInv
BY LoadInit, LoadStep, PTL DEF Spec

\* The programs attached, the map files that can be opened and the MACs written are
\* those of the two directions, and faults and retries stay in their bounds.
THEOREM LoadTypes == Spec => []TypeOK
<1>1. IndInv => TypeOK
  BY DEF IndInv
<1> QED
  BY LoadInductive, <1>1, PTL

\* The agent says Hello only when all its stages are attached and its MACs written,
\* with any number of earlier processes.
THEOREM HelloReady == Spec => []HelloMeansReady
<1>1. IndInv => HelloMeansReady
  BY DEF IndInv, TypeOK, Progress, HelloMeansReady, Directions
<1> QED
  BY LoadInductive, <1>1, PTL

\* Fwd is never attached without Enc.
THEOREM FwdAfterEnc == Spec => []FwdBehindEnc
<1>1. IndInv => FwdBehindEnc
  BY DEF IndInv
<1> QED
  BY LoadInductive, <1>1, PTL

\* The loader's removals bound the number of processes that are refused.
THEOREM RetriesBounded == Spec => []ThreeRetriesSuffice
<1>1. IndInv => ThreeRetriesSuffice
  BY StageLoadingAssumption DEF IndInv, TypeOK, Debt, ThreeRetriesSuffice
<1> QED
  BY LoadInductive, <1>1, PTL
=============================================================================
