--------------------------- MODULE ProgramsProofs ---------------------------
(***************************************************************************)
(* The safety of the parts of the BPF programs that count packets or take  *)
(* them apart, for any number of packets, flows, CPUs and elements:        *)
(* FlowMonitor, and (BpfPrograms) Stats and Tuple.  The three              *)
(* share no state, and every theorem is about one of them.                 *)
(***************************************************************************)
EXTENDS BpfPrograms, WellFoundedInduction, FiniteSetTheorems, TLAPS

-----------------------------------------------------------------------------
(***************************************************************************)
(* Sums over finite sets.  SumFunctionOnSet is a fold, which is the value  *)
(* of a function defined by recursion on the subsets of the set.  That the *)
(* recursion has a solution, and that the order in which it takes the      *)
(* elements does not matter, follows by considering a smallest set for     *)
(* which it would not be so.                                               *)
(***************************************************************************)

\* A set of natural numbers has a least element.
LEMMA LeastNumber ==
    ASSUME NEW M, M \subseteq Nat, M # {}
    PROVE  \E m \in M : \A n \in M : m <= n
<1>1. IsWellFoundedOn(OpToRel(<, Nat), Nat)
  BY NatLessThanWellFounded
<1>2. PICK m \in M : \A n \in M : ~(<<n, m>> \in OpToRel(<, Nat))
  BY <1>1, WFMin
<1>3. \A n \in M : ~(n < m)
  BY <1>2 DEF OpToRel
<1> QED
  BY <1>3

Any(s) == CHOOSE x \in s : TRUE

\* The recursion of the fold, on the sets in D.
Sums(sum, fun, D) ==
    sum = [s \in D |-> IF s = {} THEN 0 ELSE fun[Any(s)] + sum[s \ {Any(s)}]]

Same(f, g, S) == \A x \in S : f[x] = g[x]
Integral(f, S) == \A x \in S : f[x] \in Int

\* The fold is a solution of the recursion, if there is one.
LEMMA SumIsSum ==
    ASSUME NEW fun, NEW S
    PROVE  SumFunctionOnSet(fun, S) = (CHOOSE sum : Sums(sum, fun, SUBSET S))[S]
BY Zenon DEF SumFunctionOnSet, FoldFunctionOnSet, MapThenFoldSet, Sums, Any

\* The element the fold takes is one of the set.
LEMMA AnyIn == ASSUME NEW s, s # {} PROVE Any(s) \in s
BY DEF Any

\* Without one of its elements a finite set is smaller.
LEMMA Smaller ==
    ASSUME NEW s, IsFiniteSet(s), NEW x \in s
    PROVE  /\ IsFiniteSet(s \ {x}) /\ Cardinality(s) \in Nat
           /\ Cardinality(s \ {x}) \in Nat
           /\ Cardinality(s \ {x}) = Cardinality(s) - 1
BY FS_RemoveElement, FS_CardinalityType

\* The recursion has a solution on the subsets of a finite set.
LEMMA SumsExist ==
    ASSUME NEW fun, NEW S, IsFiniteSet(S)
    PROVE  \E sum : Sums(sum, fun, SUBSET S)
<1> DEFINE Small(n) == { s \in SUBSET S : Cardinality(s) <= n }
           Bad == { n \in Nat : ~ \E sum : Sums(sum, fun, Small(n)) }
<1>1. \A s \in SUBSET S : IsFiniteSet(s) /\ Cardinality(s) \in Nat
  BY FS_Subset, FS_CardinalityType
<1>2. Bad = {}
  <2>1. SUFFICES ASSUME Bad # {} PROVE FALSE
    OBVIOUS
  <2>2. PICK n \in Bad : \A k \in Bad : n <= k
    <3>1. Bad \subseteq Nat
      OBVIOUS
    <3> HIDE DEF Bad
    <3> QED
      BY <2>1, <3>1, LeastNumber
  <2>3. CASE n = 0
    <3>1. \A s \in Small(0) : s = {}
      BY <1>1, FS_EmptySet
    <3>2. Sums([s \in Small(0) |-> 0], fun, Small(0))
      BY <3>1 DEF Sums
    <3> QED
      BY <2>3, <3>2
  <2>4. CASE n # 0
    <3>1. n \in Nat /\ n - 1 \in Nat /\ n - 1 \notin Bad
      <4>1. n \in Nat /\ n # 0
        BY <2>4
      <4> HIDE DEF Bad
      <4> QED
        BY <2>2, <4>1
    <3>2. PICK old : Sums(old, fun, Small(n - 1))
      BY <3>1
    <3> DEFINE sum == [s \in Small(n) |->
                          IF s = {} THEN 0 ELSE fun[Any(s)] + old[s \ {Any(s)}]]
    <3>3. \A s \in Small(n - 1) : s \in Small(n) /\ sum[s] = old[s]
      <4>1. \A s \in Small(n - 1) : s \in Small(n)
        BY <1>1, <3>1
      <4>2. \A s \in Small(n - 1) :
               old[s] = IF s = {} THEN 0 ELSE fun[Any(s)] + old[s \ {Any(s)}]
        BY <3>2 DEF Sums
      <4> QED
        BY <4>1, <4>2
    <3>4. \A s \in Small(n) : s # {} => s \ {Any(s)} \in Small(n - 1)
      BY <1>1, <3>1, AnyIn, Smaller
    <3>5. Sums(sum, fun, Small(n))
      <4>1. \A s \in Small(n) : s # {} => old[s \ {Any(s)}] = sum[s \ {Any(s)}]
        BY <3>3, <3>4
      <4> QED
        BY <4>1 DEF Sums
    <3> QED
      BY <3>5, <3>1
  <2> QED
    BY <2>3, <2>4
<1>3. Cardinality(S) \in Nat /\ Small(Cardinality(S)) = SUBSET S
  <2>1. \A s \in SUBSET S : Cardinality(s) <= Cardinality(S)
    BY FS_Subset
  <2> QED
    BY <1>1, <2>1
<1>4. Cardinality(S) \notin Bad
  BY <1>2
<1> QED
  BY <1>3, <1>4

\* Two solutions agree where their summands do.
LEMMA SumsAgree ==
    ASSUME NEW f, NEW g, NEW S, NEW U, NEW sf, NEW sg,
           S \subseteq U, IsFiniteSet(S), Same(f, g, S),
           Sums(sf, f, SUBSET S), Sums(sg, g, SUBSET U)
    PROVE  sf[S] = sg[S]
<1> DEFINE Bad == { s \in SUBSET S : sf[s] # sg[s] }
           Sizes == { Cardinality(s) : s \in Bad }
<1>1. \A s \in SUBSET S : IsFiniteSet(s) /\ Cardinality(s) \in Nat
  BY FS_Subset, FS_CardinalityType
<1>2. SUFFICES ASSUME S \in Bad PROVE FALSE
  OBVIOUS
<1>3. PICK n \in Sizes : \A k \in Sizes : n <= k
  <2>1. Sizes \subseteq Nat /\ Sizes # {}
    BY <1>1, <1>2
  <2> HIDE DEF Sizes
  <2> QED
    BY <2>1, LeastNumber
<1>4. PICK s \in Bad : n = Cardinality(s)
  OBVIOUS
<1>5. /\ sf[s] = IF s = {} THEN 0 ELSE f[Any(s)] + sf[s \ {Any(s)}]
      /\ sg[s] = IF s = {} THEN 0 ELSE g[Any(s)] + sg[s \ {Any(s)}]
  BY DEF Sums
<1>6. s # {}
  BY <1>5
<1>7. Any(s) \in S /\ s \ {Any(s)} \in SUBSET S
  BY <1>6, AnyIn
<1>8. s \ {Any(s)} \notin Bad
  <2>1. Cardinality(s \ {Any(s)}) < Cardinality(s)
    BY <1>1, <1>6, AnyIn, Smaller
  <2>2. Cardinality(s \ {Any(s)}) \in Nat
    BY <1>1, <1>7
  <2> QED
    BY <1>1, <1>3, <1>4, <2>1, <2>2
<1> QED
  BY <1>5, <1>6, <1>7, <1>8 DEF Same

\* The fold is any solution of the recursion.
LEMMA SumOf ==
    ASSUME NEW fun, NEW S, IsFiniteSet(S), NEW sum, Sums(sum, fun, SUBSET S)
    PROVE  SumFunctionOnSet(fun, S) = sum[S]
<1> DEFINE it == CHOOSE x : Sums(x, fun, SUBSET S)
<1>1. Sums(it, fun, SUBSET S)
  BY SumsExist
<1>2. it[S] = sum[S]
  <2> HIDE DEF it
  <2>1. S \subseteq S /\ Same(fun, fun, S)
    BY DEF Same
  <2> QED
    BY <1>1, <2>1, SumsAgree
<1> QED
  BY <1>2, SumIsSum

\* A sum depends on its summands only.
LEMMA SumSame ==
    ASSUME NEW f, NEW g, NEW S, IsFiniteSet(S), Same(f, g, S)
    PROVE  SumFunctionOnSet(f, S) = SumFunctionOnSet(g, S)
<1>1. PICK sf : Sums(sf, f, SUBSET S)
  BY SumsExist
<1>2. PICK sg : Sums(sg, g, SUBSET S)
  BY SumsExist
<1>3. sf[S] = sg[S]
  <2>1. S \subseteq S
    OBVIOUS
  <2> QED
    BY <1>1, <1>2, <2>1, SumsAgree
<1> QED
  BY <1>1, <1>2, <1>3, SumOf

\* The order in which the fold takes the elements does not matter.
LEMMA SumsAnyOrder ==
    ASSUME NEW fun, NEW S, NEW sum,
           IsFiniteSet(S), Integral(fun, S), Sums(sum, fun, SUBSET S)
    PROVE  \A s \in SUBSET S :
              sum[s] \in Int /\ \A x \in s : sum[s] = fun[x] + sum[s \ {x}]
<1> DEFINE Good(s) == sum[s] \in Int /\ \A x \in s : sum[s] = fun[x] + sum[s \ {x}]
           Bad == { s \in SUBSET S : ~Good(s) }
           Sizes == { Cardinality(s) : s \in Bad }
<1>1. \A s \in SUBSET S : IsFiniteSet(s) /\ Cardinality(s) \in Nat
  BY FS_Subset, FS_CardinalityType
<1>2. SUFFICES ASSUME Bad # {} PROVE FALSE
  OBVIOUS
<1>3. PICK n \in Sizes : \A k \in Sizes : n <= k
  <2>1. Sizes \subseteq Nat /\ Sizes # {}
    BY <1>1, <1>2
  <2> HIDE DEF Sizes
  <2> QED
    BY <2>1, LeastNumber
<1>4. PICK s \in Bad : n = Cardinality(s)
  OBVIOUS
<1>0. \A u \in SUBSET S : u \in Bad \/ Good(u)
  OBVIOUS
<1>9. \A u \in Bad : u \in SUBSET S /\ n <= Cardinality(u)
  BY <1>3
<1> HIDE DEF Good, Bad
<1>5. \A x \in s : Good(s \ {x})
  <2> SUFFICES ASSUME NEW x \in s PROVE Good(s \ {x})
    OBVIOUS
  <2>1. Cardinality(s \ {x}) < Cardinality(s) /\ s \ {x} \in SUBSET S
    BY <1>1, <1>9, Smaller
  <2>2. s \ {x} \notin Bad
    BY <1>1, <1>4, <1>9, <2>1
  <2> QED
    BY <1>0, <2>1, <2>2
<1>6. sum[s] = IF s = {} THEN 0 ELSE fun[Any(s)] + sum[s \ {Any(s)}]
  BY <1>4, <1>9 DEF Sums
<1>7. CASE s = {}
  BY <1>6, <1>7 DEF Good, Bad
<1>8. CASE s # {}
  <2> DEFINE y == Any(s)
  <2>0. s \in SUBSET S /\ \A x \in s : s \ {x} \in SUBSET S
    BY <1>9
  <2>1. y \in s /\ fun[y] \in Int /\ sum[s \ {y}] \in Int
    BY <1>5, <1>8, <2>0, AnyIn DEF Good, Integral
  <2>2. sum[s] \in Int /\ sum[s] = fun[y] + sum[s \ {y}]
    BY <1>6, <1>8, <2>1
  <2> HIDE DEF y
  <2>3. ASSUME NEW x \in s, x # y
        PROVE  sum[s] = fun[x] + sum[s \ {x}]
    <3> DEFINE u == (s \ {x}) \ {y}
    <3>1. sum[s \ {y}] = fun[x] + sum[u]
      <4>1. (s \ {y}) \ {x} = u /\ x \in s \ {y}
        BY <2>3
      <4> QED
        BY <1>5, <2>1, <4>1 DEF Good
    <3>2. sum[s \ {x}] = fun[y] + sum[u]
      <4>1. y \in s \ {x}
        BY <2>1, <2>3
      <4> QED
        BY <1>5, <4>1 DEF Good
    <3>3. fun[x] \in Int
      BY <2>0 DEF Integral
    <3>4. sum[u] \in Int
      <4>1. s \ {x} \in SUBSET S /\ y \in s \ {x} /\ u \in SUBSET S
        BY <2>0, <2>1, <2>3
      <4>2. /\ Cardinality(s) \in Nat
            /\ Cardinality(s \ {x}) = Cardinality(s) - 1
        BY <1>1, <2>0, Smaller
      <4>3. Cardinality(u) = Cardinality(s \ {x}) - 1
        BY <1>1, <4>1, Smaller
      <4>4. u \notin Bad
        <5> HIDE DEF u
        <5> QED
          BY <1>4, <1>9, <4>2, <4>3
      <4>5. Good(u)
        BY <1>0, <4>1, <4>4
      <4> QED
        BY <4>5 DEF Good
    <3> HIDE DEF u
    <3> QED
      BY <2>1, <2>2, <3>1, <3>2, <3>3, <3>4
  <2>4. Good(s)
    BY <2>2, <2>3 DEF Good
  <2>5. ~Good(s)
    <3> USE DEF Bad
    <3> QED
      BY <1>4
  <2> QED
    BY <2>4, <2>5
<1> QED
  BY <1>7, <1>8

\* One summand more.
LEMMA SumInsert ==
    ASSUME NEW fun, NEW S, IsFiniteSet(S), NEW x, x \notin S,
           fun[x] \in Int, \A y \in S : fun[y] \in Int
    PROVE  /\ SumFunctionOnSet(fun, S) \in Int
           /\ SumFunctionOnSet(fun, S \cup {x}) = SumFunctionOnSet(fun, S) + fun[x]
<1> DEFINE U == S \cup {x}
<1>1. IsFiniteSet(U)
  BY FS_AddElement
<1>2. PICK sum : Sums(sum, fun, SUBSET U)
  BY <1>1, SumsExist
<1>3. PICK sumS : Sums(sumS, fun, SUBSET S)
  BY SumsExist
<1>4. sumS[S] = sum[S]
  <2>1. S \subseteq U /\ Same(fun, fun, S)
    BY DEF Same
  <2> HIDE DEF U
  <2> QED
    BY <1>2, <1>3, <2>1, SumsAgree
<1>5. Integral(fun, U)
  BY DEF Integral
<1>6. sum[S] \in Int /\ sum[U] = fun[x] + sum[U \ {x}]
  <2>1. S \in SUBSET U /\ U \in SUBSET U /\ x \in U
    OBVIOUS
  <2> HIDE DEF U
  <2>2. Integral(fun, U) /\ IsFiniteSet(U) /\ Sums(sum, fun, SUBSET U)
    BY <1>1, <1>2, <1>5
  <2>3. sum[S] \in Int
    BY <2>1, <2>2, SumsAnyOrder
  <2>4. sum[U] = fun[x] + sum[U \ {x}]
    BY <2>1, <2>2, SumsAnyOrder
  <2> QED
    BY <2>3, <2>4
<1>7. U \ {x} = S
  OBVIOUS
<1>8. SumFunctionOnSet(fun, U) = sum[U] /\ SumFunctionOnSet(fun, S) = sumS[S]
  <2> HIDE DEF U
  <2> QED
    BY <1>1, <1>2, <1>3, SumOf
<1>9. sum[U] = fun[x] + sum[S]
  BY <1>6, <1>7
<1> HIDE DEF U
<1>10. /\ SumFunctionOnSet(fun, S) \in Int
       /\ SumFunctionOnSet(fun, U) = SumFunctionOnSet(fun, S) + fun[x]
  BY <1>4, <1>6, <1>8, <1>9
<1> QED
  BY <1>10 DEF U

\* The sum of nothing.
LEMMA SumEmpty == ASSUME NEW fun PROVE SumFunctionOnSet(fun, {}) = 0
<1>1. IsFiniteSet({})
  BY FS_EmptySet
<1>2. PICK sum : Sums(sum, fun, SUBSET {})
  BY <1>1, SumsExist
<1>3. sum[{}] = 0
  BY <1>2 DEF Sums
<1> QED
  BY <1>1, <1>2, <1>3, SumOf

\* A sum of integers is an integer.
LEMMA SumInt ==
    ASSUME NEW fun, NEW S, IsFiniteSet(S), Integral(fun, S)
    PROVE  SumFunctionOnSet(fun, S) \in Int
<1>1. PICK sum : Sums(sum, fun, SUBSET S)
  BY SumsExist
<1>2. S \in SUBSET S
  OBVIOUS
<1>3. sum[S] \in Int
  BY <1>1, <1>2, SumsAnyOrder
<1> QED
  BY <1>1, <1>3, SumOf

\* One summand changes.
LEMMA SumChange ==
    ASSUME NEW f, NEW g, NEW S, IsFiniteSet(S), NEW x \in S,
           \A y \in S : f[y] \in Int /\ g[y] \in Int,
           \A y \in S \ {x} : g[y] = f[y]
    PROVE  /\ SumFunctionOnSet(f, S) \in Int
           /\ SumFunctionOnSet(g, S) = SumFunctionOnSet(f, S) - f[x] + g[x]
<1> DEFINE R == S \ {x}
<1>1. IsFiniteSet(R) /\ x \notin R
  BY FS_Subset
<1>2. SumFunctionOnSet(f, R) = SumFunctionOnSet(g, R)
  BY <1>1, SumSame DEF Same
<1>3. R \cup {x} = S
  OBVIOUS
<1>4. /\ SumFunctionOnSet(f, R) \in Int
      /\ SumFunctionOnSet(f, R \cup {x}) = SumFunctionOnSet(f, R) + f[x]
      /\ SumFunctionOnSet(g, R \cup {x}) = SumFunctionOnSet(g, R) + g[x]
  <2>1. \A y \in R : f[y] \in Int /\ g[y] \in Int
    OBVIOUS
  <2>2. f[x] \in Int /\ g[x] \in Int
    OBVIOUS
  <2> HIDE DEF R
  <2> QED
    BY <1>1, <2>1, <2>2, SumInsert
<1>5. f[x] \in Int /\ g[x] \in Int
  OBVIOUS
<1>6. SumFunctionOnSet(f, S) \in Int
         /\ SumFunctionOnSet(g, S) = SumFunctionOnSet(f, S) - f[x] + g[x]
  <2> HIDE DEF R
  <2>1. /\ SumFunctionOnSet(f, S) = SumFunctionOnSet(f, R) + f[x]
        /\ SumFunctionOnSet(g, S) = SumFunctionOnSet(g, R) + g[x]
    BY <1>3, <1>4
  <2> QED
    BY <1>2, <1>4, <1>5, <2>1
<1> QED
  BY <1>6

\* A sum of zeros is zero.
LEMMA SumZero ==
    ASSUME NEW fun, NEW S, IsFiniteSet(S), \A x \in S : fun[x] = 0
    PROVE  SumFunctionOnSet(fun, S) = 0
<1> DEFINE sum == [s \in SUBSET S |-> 0]
<1>1. \A s \in SUBSET S : s # {} => Any(s) \in S /\ s \ {Any(s)} \in SUBSET S
  BY AnyIn
<1>2. Sums(sum, fun, SUBSET S)
  BY <1>1 DEF Sums
<1>3. sum[S] = 0
  OBVIOUS
<1> QED
  <2> HIDE DEF sum
  <2> QED
    BY <1>2, <1>3, SumOf

-----------------------------------------------------------------------------
(***************************************************************************)
(* FlowMonitor.                                                            *)
(***************************************************************************)

\* With fewer entries than elements there is one to spare.
LEMMA MonitorConstants ==
    /\ MaxEntries \in Nat /\ Elements # {}
    /\ \A p \in Packets : FlowOf[p] \in Flows /\ LenOf[p] \in Nat
<1>1. Cardinality(Elements) \in Nat
  BY FlowMonitorAssumption, FS_CardinalityType
<1>2. Elements = {} => Cardinality(Elements) = 0
  BY FS_EmptySet
<1> QED
  BY FlowMonitorAssumption, <1>1, <1>2

\* TypeOK is inductive once the map is known to be finite.
MonitorTypes == TypeOK /\ IsFiniteSet(DOMAIN stats)

\* The maps are empty.
LEMMA MonitorInit == Init => MonitorTypes
<1> SUFFICES ASSUME Init PROVE MonitorTypes
  OBVIOUS
<1>1. DOMAIN stats = {}
  BY DEF Init
<1>2. IsFiniteSet(DOMAIN stats) /\ Cardinality(DOMAIN stats) = 0
  BY <1>1, FS_EmptySet
<1> QED
  BY <1>1, <1>2, MonitorConstants DEF Init, MonitorTypes, TypeOK, PCs

\* An update of the map, where the capacity allows it.
LEMMA StoreShape ==
    ASSUME MonitorTypes, NEW f \in Flows, NEW v \in [pkts : Nat, bytes : Nat], Store(f, v),
           f \in DOMAIN stats \/ Cardinality(DOMAIN stats) < MaxEntries
    PROVE  /\ DOMAIN stats' = DOMAIN stats \cup {f}
           /\ IsFiniteSet(DOMAIN stats')
           /\ Cardinality(DOMAIN stats') <= MaxEntries
           /\ stats'[f] \in Elements \ InUse
           /\ value' = [value EXCEPT ![stats'[f]] = v]
           /\ \A g \in DOMAIN stats \ {f} : stats'[g] = stats[g] /\ stats'[g] # stats'[f]
<1>1. PICK e \in Elements \ InUse :
          /\ value' = [value EXCEPT ![e] = v]
          /\ stats' = [g \in DOMAIN stats \cup {f} |-> IF g = f THEN e ELSE stats[g]]
  BY DEF Store
<1>2. DOMAIN stats' = DOMAIN stats \cup {f} /\ stats'[f] = e
  BY <1>1
<1>3. \A g \in DOMAIN stats \ {f} : stats'[g] = stats[g] /\ stats[g] \in InUse
  BY <1>1 DEF InUse
<1>4. IsFiniteSet(DOMAIN stats) /\ Cardinality(DOMAIN stats) \in Nat
  BY FS_CardinalityType DEF MonitorTypes
<1>5. /\ IsFiniteSet(DOMAIN stats \cup {f})
      /\ Cardinality(DOMAIN stats \cup {f})
            = IF f \in DOMAIN stats THEN Cardinality(DOMAIN stats)
              ELSE Cardinality(DOMAIN stats) + 1
  BY <1>4, FS_AddElement
<1>6. Cardinality(DOMAIN stats) <= MaxEntries
  BY DEF MonitorTypes, TypeOK
<1>7. Cardinality(DOMAIN stats \cup {f}) <= MaxEntries
  BY <1>4, <1>5, <1>6, MonitorConstants
<1> QED
  BY <1>1, <1>2, <1>3, <1>5, <1>7

\* An update never puts an element into two entries.
LEMMA MonitorStep == ASSUME MonitorTypes, [Next]_vars PROVE MonitorTypes'
<1> USE DEF Goto
<1>1. ASSUME NEW p \in Packets, LookupStats(p)
      PROVE  MonitorTypes'
  BY <1>1 DEF LookupStats, MonitorTypes, TypeOK, PCs
<1>2. ASSUME NEW p \in Packets, AddPkts(p)
      PROVE  MonitorTypes'
  <2>1. ptr[p] \in Elements /\ value[ptr[p]] \in [pkts : Nat, bytes : Nat]
    BY DEF MonitorTypes, TypeOK
  <2>2. [value[ptr[p]] EXCEPT !.pkts = @ + 1] \in [pkts : Nat, bytes : Nat]
    BY <2>1
  <2>3. value' = [value EXCEPT ![ptr[p]] = [value[ptr[p]] EXCEPT !.pkts = @ + 1]]
    BY <1>2 DEF AddPkts
  <2>4. (value \in [Elements -> [pkts : Nat, bytes : Nat]])'
    BY ONLY <2>1, <2>2, <2>3, MonitorTypes DEF MonitorTypes, TypeOK
  <2> QED
    BY <1>2, <2>4 DEF AddPkts, MonitorTypes, TypeOK, PCs
<1>3. ASSUME NEW p \in Packets, AddBytes(p)
      PROVE  MonitorTypes'
  <2>1. ptr[p] \in Elements /\ value[ptr[p]] \in [pkts : Nat, bytes : Nat]
    BY DEF MonitorTypes, TypeOK
  <2>2. [value[ptr[p]] EXCEPT !.bytes = @ + LenOf[p]] \in [pkts : Nat, bytes : Nat]
    BY <2>1, MonitorConstants
  <2>3. value' = [value EXCEPT ![ptr[p]] = [value[ptr[p]] EXCEPT !.bytes = @ + LenOf[p]]]
    BY <1>3 DEF AddBytes
  <2>4. (value \in [Elements -> [pkts : Nat, bytes : Nat]])'
    BY ONLY <2>1, <2>2, <2>3, MonitorTypes DEF MonitorTypes, TypeOK
  <2> QED
    BY <1>3, <2>4 DEF AddBytes, MonitorTypes, TypeOK, PCs
<1>4. ASSUME NEW p \in Packets, InsertStats(p)
      PROVE  MonitorTypes'
  <2> DEFINE f == FlowOf[p]
             v == [pkts |-> 1, bytes |-> LenOf[p]]
  <2>1. f \in Flows /\ v \in [pkts : Nat, bytes : Nat]
    BY MonitorConstants
  <2>2. pc' = [pc EXCEPT ![p] = "hist"] /\ ptr' = ptr /\ szhist' = szhist
    BY <1>4 DEF InsertStats
  <2>3. (pc \in [Packets -> PCs])' /\ (ptr \in [Packets -> Elements])'
        /\ (szhist \in [0 .. Buckets - 1 -> Nat])'
    BY <2>2 DEF MonitorTypes, TypeOK, PCs
  <2>4. CASE Store(f, v) /\ (f \in DOMAIN stats \/ Cardinality(DOMAIN stats) < MaxEntries)
             /\ raced' = IF f \in DOMAIN stats THEN raced \cup {f} ELSE raced
    <3> HIDE DEF f, v
    <3>1. /\ DOMAIN stats' = DOMAIN stats \cup {f}
          /\ IsFiniteSet(DOMAIN stats')
          /\ Cardinality(DOMAIN stats') <= MaxEntries
          /\ stats'[f] \in Elements \ InUse
          /\ value' = [value EXCEPT ![stats'[f]] = v]
          /\ \A g \in DOMAIN stats \ {f} : stats'[g] = stats[g] /\ stats'[g] # stats'[f]
      BY <2>1, <2>4, StoreShape
    <3>2. (\A g, h \in DOMAIN stats :
              stats[g] \in Elements /\ (stats[g] = stats[h] => g = h))'
      BY <3>1 DEF MonitorTypes, TypeOK
    <3>3. (value \in [Elements -> [pkts : Nat, bytes : Nat]])'
      BY <2>1, <3>1 DEF MonitorTypes, TypeOK
    <3>4. (DOMAIN stats \subseteq Flows)' /\ (raced \subseteq Flows)'
      BY <2>1, <2>4, <3>1 DEF MonitorTypes, TypeOK
    <3> QED
      BY <2>3, <3>1, <3>2, <3>3, <3>4 DEF MonitorTypes, TypeOK
  <2>5. CASE UNCHANGED <<stats, value, raced>>
    BY <2>3, <2>5 DEF MonitorTypes, TypeOK
  <2> QED
    BY <1>4, <2>4, <2>5 DEF InsertStats
<1>5. ASSUME NEW p \in Packets, AddHist(p)
      PROVE  MonitorTypes'
  BY <1>5 DEF AddHist, MonitorTypes, TypeOK, PCs
<1>6. CASE UNCHANGED vars
  BY <1>6 DEF vars, MonitorTypes, TypeOK
<1> QED
  BY <1>1, <1>2, <1>3, <1>4, <1>5, <1>6 DEF Next

\* The packets the map shows, per flow, and those that were counted.
Shown == [f \in DOMAIN stats |-> value[stats[f]].pkts]
CountedPackets == { p \in Packets : Counted(p) }

\* Both sides of the inequality are numbers.
LEMMA ShownTypes ==
    ASSUME MonitorTypes
    PROVE  /\ IsFiniteSet(DOMAIN stats)
           /\ \A f \in DOMAIN stats : Shown[f] \in Nat
           /\ SumFunctionOnSet(Shown, DOMAIN stats) \in Int
           /\ IsFiniteSet(CountedPackets) /\ Cardinality(CountedPackets) \in Nat
<1>1. IsFiniteSet(DOMAIN stats) /\ \A f \in DOMAIN stats : Shown[f] \in Nat
  BY DEF MonitorTypes, TypeOK, Shown
<1>2. SumFunctionOnSet(Shown, DOMAIN stats) \in Int
  BY <1>1, SumInt DEF Integral
<1>3. IsFiniteSet(CountedPackets) /\ Cardinality(CountedPackets) \in Nat
  BY FlowMonitorAssumption, FS_Subset, FS_CardinalityType DEF CountedPackets
<1> QED
  BY <1>1, <1>2, <1>3

\* NeverOvercounted in these terms.
LEMMA NotOvercounted ==
    NeverOvercounted
      <=> SumFunctionOnSet(Shown, DOMAIN stats) <= Cardinality(CountedPackets)
BY DEF NeverOvercounted, SumFunction, Shown, CountedPackets

\* A packet that is counted makes room for one more in the sum.
LEMMA CountedStep ==
    ASSUME MonitorTypes, NEW p \in Packets, ~Counted(p),
           CountedPackets' = CountedPackets \cup {p}
    PROVE  Cardinality(CountedPackets') = Cardinality(CountedPackets) + 1
<1>1. p \notin CountedPackets
  BY DEF CountedPackets
<1> QED
  BY <1>1, ShownTypes, FS_AddElement

\* A late addition finds at most one entry, and an update of an entry only lowers it.
LEMMA OvercountStep ==
    ASSUME MonitorTypes, MonitorTypes', NeverOvercounted, [Next]_vars
    PROVE  NeverOvercounted'
<1> USE DEF Goto
<1>0. SumFunctionOnSet(Shown, DOMAIN stats) <= Cardinality(CountedPackets)
  BY NotOvercounted
<1> SUFFICES SumFunctionOnSet(Shown', DOMAIN stats') <= Cardinality(CountedPackets')
  <2>1. NeverOvercounted'
          <=> SumFunctionOnSet(Shown', DOMAIN stats') <= Cardinality(CountedPackets')
    BY DEF NeverOvercounted, SumFunction, Shown, CountedPackets
  <2> QED
    BY <2>1
<1>1. ASSUME NEW p \in Packets, LookupStats(p) \/ AddHist(p)
      PROVE  /\ Shown' = Shown /\ DOMAIN stats' = DOMAIN stats
             /\ CountedPackets' = CountedPackets
  BY <1>1 DEF LookupStats, AddHist, Shown, CountedPackets, Counted, MonitorTypes, TypeOK
<1>2. ASSUME NEW p \in Packets, AddBytes(p)
      PROVE  /\ Shown' = Shown /\ DOMAIN stats' = DOMAIN stats
             /\ CountedPackets' = CountedPackets
  <2>1. CountedPackets' = CountedPackets /\ stats' = stats
    BY <1>2 DEF AddBytes, CountedPackets, Counted, MonitorTypes, TypeOK
  <2>2. \A e \in Elements : value'[e].pkts = value[e].pkts
    BY <1>2 DEF AddBytes, MonitorTypes, TypeOK
  <2> QED
    BY <2>1, <2>2 DEF Shown, MonitorTypes, TypeOK
<1>3. ASSUME NEW p \in Packets, AddPkts(p)
      PROVE  SumFunctionOnSet(Shown', DOMAIN stats') <= Cardinality(CountedPackets')
  <2>1. Cardinality(CountedPackets') = Cardinality(CountedPackets) + 1
    <3>1. CountedPackets' = CountedPackets \cup {p} /\ ~Counted(p)
      BY <1>3 DEF AddPkts, CountedPackets, Counted, MonitorTypes, TypeOK
    <3> QED
      BY <3>1, CountedStep
  <2>2. stats' = stats /\ DOMAIN Shown' = DOMAIN stats
    BY <1>3 DEF AddPkts, Shown
  <2>3. /\ \A e \in Elements \ {ptr[p]} : value'[e].pkts = value[e].pkts
        /\ value'[ptr[p]].pkts = value[ptr[p]].pkts + 1
    BY <1>3 DEF AddPkts, MonitorTypes, TypeOK
  <2>4. CASE \E f \in DOMAIN stats : stats[f] = ptr[p]
    <3>1. PICK f \in DOMAIN stats : stats[f] = ptr[p]
      BY <2>4
    <3>2. Shown'[f] = Shown[f] + 1
      BY <2>2, <2>3, <3>1 DEF Shown
    <3>3. \A g \in DOMAIN stats \ {f} : Shown'[g] = Shown[g]
      BY <2>2, <2>3, <3>1 DEF Shown, MonitorTypes, TypeOK
    <3>4. \A g \in DOMAIN stats : Shown[g] \in Int /\ Shown'[g] \in Int
      BY ShownTypes, <3>2, <3>3
    <3>5. SumFunctionOnSet(Shown', DOMAIN stats)
             = SumFunctionOnSet(Shown, DOMAIN stats) - Shown[f] + Shown'[f]
      BY <3>3, <3>4, ShownTypes, SumChange
    <3> QED
      BY <1>0, <2>1, <2>2, <3>2, <3>4, <3>5, ShownTypes
  <2>5. CASE ~ \E f \in DOMAIN stats : stats[f] = ptr[p]
    <3>1. Same(Shown, Shown', DOMAIN stats)
      BY <2>2, <2>3, <2>5 DEF Shown, Same, MonitorTypes, TypeOK
    <3>2. SumFunctionOnSet(Shown, DOMAIN stats) = SumFunctionOnSet(Shown', DOMAIN stats)
      BY <3>1, ShownTypes, SumSame
    <3> QED
      BY <1>0, <2>1, <2>2, <3>2, ShownTypes
  <2> QED
    BY <2>4, <2>5
<1>4. ASSUME NEW p \in Packets, InsertStats(p)
      PROVE  SumFunctionOnSet(Shown', DOMAIN stats') <= Cardinality(CountedPackets')
  <2>1. Cardinality(CountedPackets') = Cardinality(CountedPackets) + 1
    <3>1. CountedPackets' = CountedPackets \cup {p} /\ ~Counted(p)
      BY <1>4 DEF InsertStats, CountedPackets, Counted, MonitorTypes, TypeOK
    <3> QED
      BY <3>1, CountedStep
  <2> DEFINE f == FlowOf[p]
             v == [pkts |-> 1, bytes |-> LenOf[p]]
  <2>2. f \in Flows /\ v \in [pkts : Nat, bytes : Nat] /\ v.pkts = 1
    BY MonitorConstants
  <2>3. CASE UNCHANGED <<stats, value>>
    BY <1>0, <2>1, <2>3, ShownTypes DEF Shown
  <2>4. CASE Store(f, v) /\ (f \in DOMAIN stats \/ Cardinality(DOMAIN stats) < MaxEntries)
    <3> HIDE DEF f, v
    <3>1. /\ DOMAIN stats' = DOMAIN stats \cup {f}
          /\ stats'[f] \in Elements \ InUse
          /\ value' = [value EXCEPT ![stats'[f]] = v]
          /\ \A g \in DOMAIN stats \ {f} : stats'[g] = stats[g] /\ stats'[g] # stats'[f]
      BY <2>2, <2>4, StoreShape
    <3>2. Shown'[f] = 1
      BY <2>2, <3>1 DEF Shown, MonitorTypes, TypeOK
    <3>3. \A g \in DOMAIN stats \ {f} : Shown'[g] = Shown[g]
      BY <3>1 DEF Shown, MonitorTypes, TypeOK
    <3>4. \A g \in DOMAIN stats : Shown[g] \in Nat /\ Shown'[g] \in Nat
      BY ShownTypes, <3>2, <3>3
    <3>5. CASE f \in DOMAIN stats
      <4>1. SumFunctionOnSet(Shown', DOMAIN stats)
               = SumFunctionOnSet(Shown, DOMAIN stats) - Shown[f] + Shown'[f]
        BY <3>3, <3>4, <3>5, ShownTypes, SumChange
      <4>2. DOMAIN stats' = DOMAIN stats
        BY <3>1, <3>5
      <4> QED
        BY <1>0, <2>1, <3>2, <3>4, <3>5, <4>1, <4>2, ShownTypes
    <3>6. CASE f \notin DOMAIN stats
      <4>1. Same(Shown, Shown', DOMAIN stats)
        BY <3>3, <3>6 DEF Same
      <4>2. SumFunctionOnSet(Shown, DOMAIN stats) = SumFunctionOnSet(Shown', DOMAIN stats)
        BY <4>1, ShownTypes, SumSame
      <4>3. SumFunctionOnSet(Shown', DOMAIN stats \cup {f})
               = SumFunctionOnSet(Shown', DOMAIN stats) + Shown'[f]
        BY <3>2, <3>4, <3>6, ShownTypes, SumInsert
      <4> QED
        BY <1>0, <2>1, <3>1, <3>2, <4>2, <4>3, ShownTypes
    <3> QED
      BY <3>5, <3>6
  <2> QED
    BY <1>4, <2>3, <2>4 DEF InsertStats
<1>5. CASE UNCHANGED vars
  BY <1>0, <1>5 DEF vars, Shown, CountedPackets, Counted
<1> QED
  BY <1>0, <1>1, <1>2, <1>3, <1>4, <1>5 DEF Next

\* An empty map shows nothing.
LEMMA OvercountInit == Init => NeverOvercounted
<1> SUFFICES ASSUME Init PROVE NeverOvercounted
  OBVIOUS
<1>1. DOMAIN stats = {} /\ MonitorTypes
  BY MonitorInit DEF Init
<1>2. SumFunctionOnSet(Shown, DOMAIN stats) = 0
  BY <1>1, SumEmpty
<1>3. Cardinality(CountedPackets) \in Nat
  BY <1>1, ShownTypes
<1> QED
  BY <1>2, <1>3, NotOvercounted

\* What holds while no update has met an entry: a pointer in use leads to the entry
\* of its flow, every entry is what was added to it, and a flow without an entry found
\* the map full.
CountedOf(f) == { p \in Packets : FlowOf[p] = f /\ Counted(p) }

PointersFresh ==
    \A p \in Packets : pc[p] \in {"pkts", "bytes"} =>
        FlowOf[p] \in DOMAIN stats /\ ptr[p] = stats[FlowOf[p]]

EntriesExact ==
    \A f \in DOMAIN stats :
        /\ value[stats[f]].pkts = Cardinality(CountedOf(f))
        /\ value[stats[f]].bytes = SumFunctionOnSet(LenOf, Done(f))

MissingOnlyWhenFull ==
    \A p \in Packets :
        pc[p] \in {"hist", "done"} /\ FlowOf[p] \notin DOMAIN stats =>
            Cardinality(DOMAIN stats) >= MaxEntries

ExactInv == raced = {} => PointersFresh /\ EntriesExact /\ MissingOnlyWhenFull

\* There is no entry, and no packet yet.
LEMMA ExactInit == Init => ExactInv
BY DEF Init, ExactInv, PointersFresh, EntriesExact, MissingOnlyWhenFull

\* The sets whose sizes and sums the entries show are finite.
LEMMA FlowSets ==
    ASSUME NEW f
    PROVE  /\ IsFiniteSet(CountedOf(f)) /\ Cardinality(CountedOf(f)) \in Nat
           /\ IsFiniteSet(Done(f)) /\ \A q \in Done(f) : LenOf[q] \in Int
BY FlowMonitorAssumption, FS_Subset, FS_CardinalityType DEF CountedOf, Done

\* A new entry is exact, because no packet of its flow is on its way or done.
LEMMA ExactStep ==
    ASSUME MonitorTypes, MonitorTypes', ExactInv, [Next]_vars
    PROVE  ExactInv'
<1> USE DEF Goto
<1>0. SUFFICES ASSUME raced' = {}
               PROVE  (PointersFresh /\ EntriesExact /\ MissingOnlyWhenFull)'
  BY DEF ExactInv
<1>1. raced = {}
  BY <1>0 DEF Next, vars, LookupStats, AddPkts, AddBytes, InsertStats, AddHist
<1>2. PointersFresh /\ EntriesExact /\ MissingOnlyWhenFull
  BY <1>1 DEF ExactInv
<1>a. pc \in [Packets -> PCs] /\ ptr \in [Packets -> Elements]
  BY DEF MonitorTypes, TypeOK
<1>b. value \in [Elements -> [pkts : Nat, bytes : Nat]]
  BY DEF MonitorTypes, TypeOK
<1>c. \A f, g \in DOMAIN stats : stats[f] \in Elements /\ (stats[f] = stats[g] => f = g)
  BY DEF MonitorTypes, TypeOK
<1>3. ASSUME NEW p \in Packets, LookupStats(p) \/ AddHist(p)
      PROVE  (PointersFresh /\ EntriesExact /\ MissingOnlyWhenFull)'
  <2>1. stats' = stats /\ value' = value
    BY <1>3 DEF LookupStats, AddHist
  <2>2. \A f : CountedOf(f)' = CountedOf(f) /\ Done(f)' = Done(f)
    BY <1>3, <1>a DEF LookupStats, AddHist, CountedOf, Counted, Done
  <2>3. PointersFresh'
    BY <1>2, <1>3, <1>a, <2>1 DEF LookupStats, AddHist, PointersFresh
  <2>4. MissingOnlyWhenFull'
    BY <1>2, <1>3, <1>a, <2>1 DEF LookupStats, AddHist, MissingOnlyWhenFull
  <2>5. EntriesExact'
    BY <1>2, <2>1, <2>2 DEF EntriesExact
  <2> QED
    BY <2>3, <2>4, <2>5
<1>4. ASSUME NEW p \in Packets, AddPkts(p)
      PROVE  (PointersFresh /\ EntriesExact /\ MissingOnlyWhenFull)'
  <2> DEFINE f == FlowOf[p]
  <2>1. stats' = stats /\ f \in DOMAIN stats /\ ptr[p] = stats[f]
    BY <1>2, <1>4 DEF AddPkts, PointersFresh
  <2>2. CountedOf(f)' = CountedOf(f) \cup {p} /\ p \notin CountedOf(f)
    BY <1>4, <1>a DEF AddPkts, CountedOf, Counted
  <2>3. \A g \in DOMAIN stats \ {f} : CountedOf(g)' = CountedOf(g)
    BY <1>4, <1>a DEF AddPkts, CountedOf, Counted
  <2>4. \A g : Done(g)' = Done(g)
    BY <1>4, <1>a DEF AddPkts, Done
  <2>5. Cardinality(CountedOf(f)') = Cardinality(CountedOf(f)) + 1
    BY <2>2, FlowSets, FS_AddElement
  <2>6. /\ value'[stats[f]].pkts = value[stats[f]].pkts + 1
        /\ value'[stats[f]].bytes = value[stats[f]].bytes
    BY <1>4, <1>b, <1>c, <2>1 DEF AddPkts
  <2>7. \A g \in DOMAIN stats \ {f} : value'[stats[g]] = value[stats[g]]
    BY <1>4, <1>b, <1>c, <2>1 DEF AddPkts
  <2>8. EntriesExact'
    <3> HIDE DEF f
    <3> QED
      BY <1>2, <2>1, <2>2, <2>3, <2>4, <2>5, <2>6, <2>7 DEF EntriesExact
  <2>9. PointersFresh' /\ MissingOnlyWhenFull'
    BY <1>2, <1>4, <1>a DEF AddPkts, PointersFresh, MissingOnlyWhenFull
  <2> QED
    BY <2>8, <2>9
<1>5. ASSUME NEW p \in Packets, AddBytes(p)
      PROVE  (PointersFresh /\ EntriesExact /\ MissingOnlyWhenFull)'
  <2> DEFINE f == FlowOf[p]
  <2>1. stats' = stats /\ f \in DOMAIN stats /\ ptr[p] = stats[f]
    BY <1>2, <1>5 DEF AddBytes, PointersFresh
  <2>2. Done(f)' = Done(f) \cup {p} /\ p \notin Done(f)
    BY <1>5, <1>a DEF AddBytes, Done
  <2>3. \A g \in DOMAIN stats \ {f} : Done(g)' = Done(g)
    BY <1>5, <1>a DEF AddBytes, Done
  <2>4. \A g : CountedOf(g)' = CountedOf(g)
    BY <1>5, <1>a DEF AddBytes, CountedOf, Counted
  <2>5. SumFunctionOnSet(LenOf, Done(f)') = SumFunctionOnSet(LenOf, Done(f)) + LenOf[p]
    <3>1. LenOf[p] \in Int
      BY MonitorConstants
    <3> QED
      BY <2>2, <3>1, FlowSets, SumInsert
  <2>6. /\ value'[stats[f]].bytes = value[stats[f]].bytes + LenOf[p]
        /\ value'[stats[f]].pkts = value[stats[f]].pkts
    BY <1>5, <1>b, <1>c, <2>1 DEF AddBytes
  <2>7. \A g \in DOMAIN stats \ {f} : value'[stats[g]] = value[stats[g]]
    BY <1>5, <1>b, <1>c, <2>1 DEF AddBytes
  <2>8. EntriesExact'
    <3> HIDE DEF f
    <3> QED
      BY <1>2, <2>1, <2>2, <2>3, <2>4, <2>5, <2>6, <2>7 DEF EntriesExact
  <2>9. PointersFresh' /\ MissingOnlyWhenFull'
    BY <1>2, <1>5, <1>a, <2>1 DEF AddBytes, PointersFresh, MissingOnlyWhenFull
  <2> QED
    BY <2>8, <2>9
<1>6. ASSUME NEW p \in Packets, InsertStats(p)
      PROVE  (PointersFresh /\ EntriesExact /\ MissingOnlyWhenFull)'
  <2> DEFINE f == FlowOf[p]
             v == [pkts |-> 1, bytes |-> LenOf[p]]
  <2>1. pc[p] = "insert" /\ pc' = [pc EXCEPT ![p] = "hist"] /\ ptr' = ptr
    BY <1>6 DEF InsertStats
  <2>2. \A g \in DOMAIN stats \ {f} : CountedOf(g)' = CountedOf(g) /\ Done(g)' = Done(g)
    BY <1>a, <2>1 DEF CountedOf, Counted, Done
  <2>3. CASE f \notin DOMAIN stats /\ Cardinality(DOMAIN stats) >= MaxEntries
             /\ UNCHANGED <<stats, value>>
    <3>1. EntriesExact'
      BY <1>2, <2>2, <2>3 DEF EntriesExact
    <3>2. PointersFresh' /\ MissingOnlyWhenFull'
      BY <1>2, <1>a, <2>1, <2>3 DEF PointersFresh, MissingOnlyWhenFull
    <3> QED
      BY <3>1, <3>2
  <2>4. CASE Store(f, v) /\ f \notin DOMAIN stats /\ Cardinality(DOMAIN stats) < MaxEntries
    <3>1. f \in Flows /\ v \in [pkts : Nat, bytes : Nat]
          /\ v.pkts = 1 /\ v.bytes = LenOf[p] /\ LenOf[p] \in Nat
      BY MonitorConstants
    <3>2. /\ DOMAIN stats' = DOMAIN stats \cup {f}
          /\ stats'[f] \in Elements
          /\ value' = [value EXCEPT ![stats'[f]] = v]
          /\ \A g \in DOMAIN stats \ {f} : stats'[g] = stats[g] /\ stats'[g] # stats'[f]
      <4> HIDE DEF f, v
      <4> QED
        BY <2>4, <3>1, StoreShape
    <3>3. Cardinality(DOMAIN stats) \in Nat /\ MaxEntries \in Nat
      BY MonitorConstants, FS_CardinalityType DEF MonitorTypes
    <3>4. \A q \in Packets : FlowOf[q] = f => pc[q] \notin {"pkts", "bytes", "hist", "done"}
      BY <1>2, <2>4, <3>3 DEF PointersFresh, MissingOnlyWhenFull
    <3>5. CountedOf(f)' = {} \cup {p} /\ Done(f)' = {} \cup {p}
      BY <1>a, <2>1, <3>4 DEF CountedOf, Counted, Done
    <3>6. Cardinality(CountedOf(f)') = 1 /\ SumFunctionOnSet(LenOf, Done(f)') = LenOf[p]
      <4>1. IsFiniteSet({}) /\ Cardinality({}) = 0 /\ SumFunctionOnSet(LenOf, {}) = 0
        BY FS_EmptySet, SumEmpty
      <4>2. Cardinality({} \cup {p}) = 1
        BY <4>1, FS_AddElement
      <4>3. SumFunctionOnSet(LenOf, {} \cup {p}) = 0 + LenOf[p]
        BY <3>1, <4>1, SumInsert
      <4> QED
        BY <3>1, <3>5, <4>2, <4>3
    <3>7. value'[stats'[f]] = v
          /\ \A g \in DOMAIN stats \ {f} : value'[stats'[g]] = value[stats[g]]
      BY <1>b, <1>c, <3>2
    <3>8. EntriesExact'
      <4> HIDE DEF f, v
      <4> QED
        BY <1>2, <2>2, <3>1, <3>2, <3>6, <3>7 DEF EntriesExact
    <3>9. PointersFresh'
      <4>1. \A q \in Packets : pc'[q] \in {"pkts", "bytes"} =>
               q # p /\ FlowOf[q] \in DOMAIN stats \ {f} /\ ptr[q] = stats[FlowOf[q]]
        BY <1>2, <1>a, <2>1, <2>4 DEF PointersFresh
      <4> HIDE DEF f
      <4> QED
        BY <2>1, <3>2, <4>1 DEF PointersFresh
    <3>10. MissingOnlyWhenFull'
      BY <1>2, <1>a, <2>1, <2>4, <3>2, <3>3 DEF MissingOnlyWhenFull
    <3> QED
      BY <3>8, <3>9, <3>10
  <2>5. f \in DOMAIN stats => ~(Store(f, v) /\ raced' = raced \cup {f})
    BY <1>0
  <2> QED
    BY <1>6, <2>3, <2>4, <2>5 DEF InsertStats
<1>7. CASE UNCHANGED vars
  BY <1>2, <1>7 DEF vars, PointersFresh, EntriesExact, MissingOnlyWhenFull, CountedOf,
                    Counted, Done
<1> QED
  BY <1>3, <1>4, <1>5, <1>6, <1>7 DEF Next

\* Where no addition of bytes is due, the packets counted are those that are done.
LEMMA ExactInvSuffices == ASSUME MonitorTypes, ExactInv PROVE ExactUnlessRaced
<1> SUFFICES ASSUME raced = {}, \A p \in Packets : pc[p] # "bytes", NEW f \in DOMAIN stats
             PROVE  value[stats[f]] = [pkts  |-> Cardinality(Done(f)),
                                       bytes |-> SumFunctionOnSet(LenOf, Done(f))]
  BY DEF ExactUnlessRaced
<1>1. CountedOf(f) = Done(f)
  BY DEF CountedOf, Done, Counted
<1>2. value[stats[f]] \in [pkts : Nat, bytes : Nat]
  BY DEF MonitorTypes, TypeOK
<1>3. value[stats[f]].pkts = Cardinality(Done(f))
      /\ value[stats[f]].bytes = SumFunctionOnSet(LenOf, Done(f))
  BY <1>1 DEF ExactInv, EntriesExact
<1> QED
  BY <1>2, <1>3

\* The packets the histogram has room for.
InHistogram == { p \in Packets : pc[p] = "done" /\ LenOf[p] < 64 * Buckets }

\* HistogramComplete in these terms.
LEMMA Histogram ==
    ASSUME MonitorTypes
    PROVE  /\ IsFiniteSet(0 .. Buckets - 1) /\ DOMAIN szhist = 0 .. Buckets - 1
           /\ \A b \in 0 .. Buckets - 1 : szhist[b] \in Int
           /\ IsFiniteSet(InHistogram) /\ Cardinality(InHistogram) \in Nat
           /\ HistogramComplete
                <=> SumFunctionOnSet(szhist, 0 .. Buckets - 1) = Cardinality(InHistogram)
<1>1. IsFiniteSet(0 .. Buckets - 1)
  BY FlowMonitorAssumption, FS_Interval
<1>2. szhist \in [0 .. Buckets - 1 -> Nat]
  BY DEF MonitorTypes, TypeOK
<1>3. IsFiniteSet(InHistogram) /\ Cardinality(InHistogram) \in Nat
  BY FlowMonitorAssumption, FS_Subset, FS_CardinalityType DEF InHistogram
<1>4. DOMAIN szhist = 0 .. Buckets - 1
  BY <1>2
<1>5. HistogramComplete
         <=> SumFunctionOnSet(szhist, 0 .. Buckets - 1) = Cardinality(InHistogram)
  BY <1>4 DEF HistogramComplete, SumFunction, InHistogram
<1> QED
  BY <1>1, <1>2, <1>3, <1>4, <1>5

\* Zero in all buckets, and no packet done.
LEMMA HistogramInit == Init => HistogramComplete
<1> SUFFICES ASSUME Init PROVE HistogramComplete
  OBVIOUS
<1>1. MonitorTypes
  BY MonitorInit
<1>2. InHistogram = {}
  BY DEF Init, InHistogram
<1>3. Cardinality(InHistogram) = 0
  BY <1>2, FS_EmptySet
<1>4. \A b \in 0 .. Buckets - 1 : szhist[b] = 0
  BY DEF Init
<1>5. SumFunctionOnSet(szhist, 0 .. Buckets - 1) = 0
  BY <1>1, <1>4, Histogram, SumZero
<1> QED
  BY <1>1, <1>3, <1>5, Histogram

\* A packet adds one to one bucket, unless it has none.
LEMMA HistogramStep ==
    ASSUME MonitorTypes, MonitorTypes', HistogramComplete, [Next]_vars
    PROVE  HistogramComplete'
<1> USE DEF Goto
<1> DEFINE D == 0 .. Buckets - 1
<1>0. SumFunctionOnSet(szhist, D) = Cardinality(InHistogram)
  BY Histogram
<1>1. DOMAIN szhist' = D
  BY DEF MonitorTypes, TypeOK
<1> SUFFICES SumFunctionOnSet(szhist', D) = Cardinality(InHistogram')
  BY <1>1 DEF HistogramComplete, SumFunction, InHistogram
<1>2. ASSUME NEW p \in Packets,
             LookupStats(p) \/ AddPkts(p) \/ AddBytes(p) \/ InsertStats(p)
      PROVE  szhist' = szhist /\ InHistogram' = InHistogram
  <2>1. szhist' = szhist
    BY <1>2 DEF LookupStats, AddPkts, AddBytes, InsertStats
  <2>2. pc[p] # "done" /\ \E l \in PCs \ {"done"} : pc' = [pc EXCEPT ![p] = l]
    BY <1>2 DEF LookupStats, AddPkts, AddBytes, InsertStats, PCs
  <2>3. InHistogram' = InHistogram
    BY <2>2 DEF InHistogram, MonitorTypes, TypeOK
  <2> QED
    BY <2>1, <2>3
<1>3. ASSUME NEW p \in Packets, AddHist(p)
      PROVE  SumFunctionOnSet(szhist', D) = Cardinality(InHistogram')
  <2>1. Bucket(p) \in D <=> LenOf[p] < 64 * Buckets
    BY FlowMonitorAssumption, MonitorConstants DEF Bucket
  <2>2. pc[p] = "hist" /\ pc' = [pc EXCEPT ![p] = "done"]
    BY <1>3 DEF AddHist
  <2>3. CASE Bucket(p) \in D
    <3>1. InHistogram' = InHistogram \cup {p} /\ p \notin InHistogram
      BY <2>1, <2>2, <2>3 DEF InHistogram, MonitorTypes, TypeOK
    <3>2. Cardinality(InHistogram') = Cardinality(InHistogram) + 1
      BY <3>1, Histogram, FS_AddElement
    <3>3. szhist' = [szhist EXCEPT ![Bucket(p)] = @ + 1]
      BY <1>3, <2>3, Histogram DEF AddHist
    <3>4. /\ \A b \in D : szhist[b] \in Int /\ szhist'[b] \in Int
          /\ \A b \in D \ {Bucket(p)} : szhist'[b] = szhist[b]
          /\ szhist'[Bucket(p)] = szhist[Bucket(p)] + 1
      BY <2>3, <3>3 DEF MonitorTypes, TypeOK
    <3>5. SumFunctionOnSet(szhist', D)
             = SumFunctionOnSet(szhist, D) - szhist[Bucket(p)] + szhist'[Bucket(p)]
      <4> HIDE DEF D
      <4>1. IsFiniteSet(D)
        BY Histogram DEF D
      <4> QED
        BY <2>3, <3>4, <4>1, SumChange
    <3> QED
      <4> HIDE DEF D
      <4>1. Cardinality(InHistogram) \in Nat
        BY Histogram
      <4> QED
        BY <1>0, <2>3, <3>2, <3>4, <3>5, <4>1
  <2>4. CASE Bucket(p) \notin D
    <3>1. InHistogram' = InHistogram
      BY <2>1, <2>2, <2>4 DEF InHistogram, MonitorTypes, TypeOK
    <3>2. szhist' = szhist
      BY <1>3, <2>4, Histogram DEF AddHist
    <3> QED
      BY <1>0, <3>1, <3>2
  <2> QED
    BY <2>3, <2>4
<1>4. CASE UNCHANGED vars
  BY <1>0, <1>4 DEF vars, InHistogram
<1> QED
  BY <1>0, <1>2, <1>3, <1>4 DEF Next

\* The maps keep their shape on any number of CPUs: no flow more than fits, and no
\* element in two entries.
THEOREM FlowMonitorTypes == Spec => []TypeOK
<1>1. MonitorTypes => TypeOK
  BY DEF MonitorTypes
<1> QED
  BY MonitorInit, MonitorStep, <1>1, PTL DEF Spec

\* For any number of packets, flows and elements, the map never shows more packets
\* than were seen, although additions go through pointers that may be stale.
THEOREM FlowsNotOvercounted == Spec => []NeverOvercounted
<1> DEFINE Inv == MonitorTypes /\ NeverOvercounted
<1>1. Init => Inv
  BY MonitorInit, OvercountInit
<1>2. Inv /\ [Next]_vars => Inv'
  BY MonitorStep, OvercountStep
<1> QED
  BY <1>1, <1>2, PTL DEF Spec

\* Packets and bytes of every entry are exact unless two first packets raced.
THEOREM FlowsExact == Spec => []ExactUnlessRaced
<1> DEFINE Inv == MonitorTypes /\ ExactInv
<1>1. Init => Inv
  BY MonitorInit, ExactInit
<1>2. Inv /\ [Next]_vars => Inv'
  BY MonitorStep, ExactStep
<1>3. Inv => ExactUnlessRaced
  BY ExactInvSuffices
<1> QED
  BY <1>1, <1>2, <1>3, PTL DEF Spec

\* For any number of buckets, the histogram adds up to the packets that fit it.
THEOREM HistogramExact == Spec => []HistogramComplete
<1> DEFINE Inv == MonitorTypes /\ HistogramComplete
<1>1. Init => Inv
  BY MonitorInit, HistogramInit
<1>2. Inv /\ [Next]_vars => Inv'
  BY MonitorStep, HistogramStep
<1> QED
  BY <1>1, <1>2, PTL DEF Spec

-----------------------------------------------------------------------------
(***************************************************************************)
(* Stats.                                                                  *)
(***************************************************************************)

\* struct stats.
Counters == [rx : Int, tx : Int, tx_other : Int, lat_avg_sum : Int, init_ts : Int]

\* Where the program uses the pointer of its last lookup.
Accessing == {"rx", "stamp", "tx", "lat", "tx_other"}

StatsTypes ==
    /\ clock \in Int /\ copy \in Int
    /\ spc \in [SPackets -> Accessing \cup {"idle", "insert", "run", "done"}]
    /\ ts \in [SPackets -> Int] /\ began \in [SPackets -> Int]
    /\ sptr \in [SPackets -> SElements]
    /\ live \subseteq SElements
    /\ svalue \in [SElements -> Counters] /\ since \in Counters
    /\ tool \in {"idle", "write"}

\* There is one entry from the first insert on, and unless the tool has replaced an
\* element in use, every pointer in use leads to it.
OneEntry ==
    /\ live # {} => \E e \in SElements : live = {e}
    /\ live = {} => \A p \in SPackets : spc[p] \in {"idle", "insert"}
    /\ live = {} => since = Stat!Zero
    /\ ~torn => \A p \in SPackets : spc[p] \in Accessing => sptr[p] \in live

CountersAgree ==
    ~torn => \A e \in live : 
          /\ svalue[e].rx = since.rx
          /\ svalue[e].tx = since.tx
          /\ svalue[e].tx_other = since.tx_other
          /\ ~blurred => svalue[e].lat_avg_sum = since.lat_avg_sum

\* A packet that is in neither set runs alone, and its time is in the entry from its
\* store on.
Alone ==
    \A p \in SPackets : (p \notin mixed /\ spc[p] \notin {"idle", "done"}) =>
        /\ tool = "idle"
        /\ \A q \in SPackets : q # p => spc[q] \in {"idle", "done"}

OwnTime ==
    \A p \in SPackets :
        /\ spc[p] = "insert" => p \in missed
        /\ spc[p] \in {"rx", "stamp"} => ts[p] = began[p]
        /\ (~torn /\ p \notin missed \cup mixed /\ spc[p] \in {"run", "tx", "lat"}) =>
              \A e \in live : svalue[e].init_ts = began[p]

StatsInv == StatsTypes /\ OneEntry /\ CountersAgree /\ Alone /\ OwnTime

\* There is no entry.
LEMMA StatsInit == ASSUME Stat!StatsAssumption, Stat!Init PROVE StatsInv
BY DEF Stat!StatsAssumption, Stat!Init, Stat!Zero, StatsInv, StatsTypes, OneEntry, CountersAgree,
       Alone, OwnTime, Counters, Accessing

\* One packet replaces a missing entry, and the tool an old one; a packet that is alone
\* finds its own time.
LEMMA StatsStep ==
    ASSUME Stat!StatsAssumption, StatsInv, [Stat!Next]_(Stat!vars) PROVE StatsInv'
<1> USE DEF StatsInv, Stat!Goto, Stat!Lookup, Stat!ghosts, Stat!Zero, Stat!Under
<1>1. CASE Stat!Tick
  <2> USE <1>1 DEF Stat!Tick
  <2>1. StatsTypes'
    BY DEF StatsTypes, Stat!StatsAssumption, Counters, Accessing
  <2>2. OneEntry'
    BY DEF OneEntry, StatsTypes, Accessing
  <2>3. CountersAgree'
    BY DEF CountersAgree, OneEntry, StatsTypes, Counters, Accessing
  <2>4. Alone'
    BY DEF Alone, StatsTypes, Accessing
  <2>5. OwnTime'
    BY DEF OwnTime, Alone, OneEntry, StatsTypes, Counters, Accessing
  <2> QED
    BY <2>1, <2>2, <2>3, <2>4, <2>5
<1>2. ASSUME NEW p \in SPackets, Stat!MarkInit(p)
      PROVE  StatsInv'
  <2> USE <1>2 DEF Stat!MarkInit
  <2>1. StatsTypes'
    BY DEF StatsTypes, Stat!StatsAssumption, Counters, Accessing
  <2>2. OneEntry'
    BY DEF OneEntry, StatsTypes, Accessing
  <2>3. CountersAgree'
    BY DEF CountersAgree, OneEntry, StatsTypes, Counters, Accessing
  <2>4. Alone'
    BY DEF Alone, StatsTypes, Accessing
  <2>5. OwnTime'
    BY DEF OwnTime, Alone, OneEntry, StatsTypes, Counters, Accessing
  <2> QED
    BY <2>1, <2>2, <2>3, <2>4, <2>5
<1>3. ASSUME NEW p \in SPackets, Stat!Insert(p)
      PROVE  StatsInv'
  <2> USE <1>3 DEF Stat!Insert
  <2>1. StatsTypes'
    BY DEF StatsTypes, Stat!StatsAssumption, Counters, Accessing
  <2>2. OneEntry'
    BY DEF OneEntry, StatsTypes, Accessing
  <2>3. CountersAgree'
    BY DEF CountersAgree, OneEntry, StatsTypes, Counters, Accessing
  <2>4. Alone'
    BY DEF Alone, StatsTypes, Accessing
  <2>5. OwnTime'
    BY DEF OwnTime, Alone, OneEntry, StatsTypes, Counters, Accessing
  <2> QED
    BY <2>1, <2>2, <2>3, <2>4, <2>5
<1>4. ASSUME NEW p \in SPackets, Stat!AddRx(p)
      PROVE  StatsInv'
  <2> USE <1>4 DEF Stat!AddRx
  <2>1. StatsTypes'
    BY DEF StatsTypes, Stat!StatsAssumption, Counters, Accessing
  <2>2. OneEntry'
    BY DEF OneEntry, StatsTypes, Accessing
  <2>3. CountersAgree'
    BY DEF CountersAgree, OneEntry, StatsTypes, Counters, Accessing
  <2>4. Alone'
    BY DEF Alone, StatsTypes, Accessing
  <2>5. OwnTime'
    BY DEF OwnTime, Alone, OneEntry, StatsTypes, Counters, Accessing
  <2> QED
    BY <2>1, <2>2, <2>3, <2>4, <2>5
<1>5. ASSUME NEW p \in SPackets, Stat!Stamp(p)
      PROVE  StatsInv'
  <2> USE <1>5 DEF Stat!Stamp
  <2>1. StatsTypes'
    BY DEF StatsTypes, Stat!StatsAssumption, Counters, Accessing
  <2>2. OneEntry'
    BY DEF OneEntry, StatsTypes, Accessing
  <2>3. CountersAgree'
    BY DEF CountersAgree, OneEntry, StatsTypes, Counters, Accessing
  <2>4. Alone'
    BY DEF Alone, StatsTypes, Accessing
  <2>5. OwnTime'
    BY DEF OwnTime, Alone, OneEntry, StatsTypes, Counters, Accessing
  <2> QED
    BY <2>1, <2>2, <2>3, <2>4, <2>5
<1>6. ASSUME NEW p \in SPackets, Stat!RetOk(p)
      PROVE  StatsInv'
  <2> USE <1>6 DEF Stat!RetOk
  <2>1. StatsTypes'
    BY DEF StatsTypes, Stat!StatsAssumption, Counters, Accessing
  <2>2. OneEntry'
    BY DEF OneEntry, StatsTypes, Accessing
  <2>3. CountersAgree'
    BY DEF CountersAgree, OneEntry, StatsTypes, Counters, Accessing
  <2>4. Alone'
    BY DEF Alone, StatsTypes, Accessing
  <2>5. OwnTime'
    BY DEF OwnTime, Alone, OneEntry, StatsTypes, Counters, Accessing
  <2> QED
    BY <2>1, <2>2, <2>3, <2>4, <2>5
<1>7. ASSUME NEW p \in SPackets, Stat!AddTx(p)
      PROVE  StatsInv'
  <2> USE <1>7 DEF Stat!AddTx
  <2>1. StatsTypes'
    BY DEF StatsTypes, Stat!StatsAssumption, Counters, Accessing
  <2>2. OneEntry'
    BY DEF OneEntry, StatsTypes, Accessing
  <2>3. CountersAgree'
    BY DEF CountersAgree, OneEntry, StatsTypes, Counters, Accessing
  <2>4. Alone'
    BY DEF Alone, StatsTypes, Accessing
  <2>5. OwnTime'
    BY DEF OwnTime, Alone, OneEntry, StatsTypes, Counters, Accessing
  <2> QED
    BY <2>1, <2>2, <2>3, <2>4, <2>5
<1>8. ASSUME NEW p \in SPackets, Stat!AddLat(p)
      PROVE  StatsInv'
  <2> USE <1>8 DEF Stat!AddLat
  <2>1. StatsTypes'
    BY DEF StatsTypes, Stat!StatsAssumption, Counters, Accessing
  <2>2. OneEntry'
    BY DEF OneEntry, StatsTypes, Accessing
  <2>3. CountersAgree'
    <3> SUFFICES ASSUME ~torn, NEW e \in live
                 PROVE  /\ svalue'[e].rx = since'.rx
                        /\ svalue'[e].tx = since'.tx
                        /\ svalue'[e].tx_other = since'.tx_other
                        /\ ~blurred' => svalue'[e].lat_avg_sum = since'.lat_avg_sum
      BY DEF CountersAgree
    <3>1. e = sptr[p] /\ e \in SElements /\ torn' = torn /\ spc[p] = "lat"
      BY DEF OneEntry, StatsTypes, Accessing
    <3>2. svalue'[e] = [svalue[e] EXCEPT !.lat_avg_sum =
                           (@ + ts[p] - svalue[e].init_ts) % TimeMod]
      BY <3>1 DEF StatsTypes
    <3>3. since' = [since EXCEPT !.lat_avg_sum = (@ + ts[p] - began[p]) % TimeMod]
      OBVIOUS
    <3>4. svalue[e] \in Counters /\ since \in Counters
      BY <3>1 DEF StatsTypes
    <3>5. ~blurred' => /\ ~blurred
                       /\ svalue[e].init_ts = began[p]
      BY <3>1 DEF OwnTime
    <3>6. ~blurred => svalue[e].lat_avg_sum = since.lat_avg_sum
      BY DEF CountersAgree
    <3>7. /\ svalue[e].rx = since.rx /\ svalue[e].tx = since.tx
          /\ svalue[e].tx_other = since.tx_other
      BY DEF CountersAgree
    <3> QED
      BY ONLY <3>2, <3>3, <3>4, <3>5, <3>6, <3>7 DEF Counters
  <2>4. Alone'
    BY DEF Alone, StatsTypes, Accessing
  <2>5. OwnTime'
    BY DEF OwnTime, Alone, OneEntry, StatsTypes, Counters, Accessing
  <2> QED
    BY <2>1, <2>2, <2>3, <2>4, <2>5
<1>9. ASSUME NEW p \in SPackets, Stat!RetOther(p)
      PROVE  StatsInv'
  <2> USE <1>9 DEF Stat!RetOther
  <2>1. StatsTypes'
    BY DEF StatsTypes, Stat!StatsAssumption, Counters, Accessing
  <2>2. OneEntry'
    BY DEF OneEntry, StatsTypes, Accessing
  <2>3. CountersAgree'
    BY DEF CountersAgree, OneEntry, StatsTypes, Counters, Accessing
  <2>4. Alone'
    BY DEF Alone, StatsTypes, Accessing
  <2>5. OwnTime'
    BY DEF OwnTime, Alone, OneEntry, StatsTypes, Counters, Accessing
  <2> QED
    BY <2>1, <2>2, <2>3, <2>4, <2>5
<1>10. ASSUME NEW p \in SPackets, Stat!AddOther(p)
      PROVE  StatsInv'
  <2> USE <1>10 DEF Stat!AddOther
  <2>1. StatsTypes'
    BY DEF StatsTypes, Stat!StatsAssumption, Counters, Accessing
  <2>2. OneEntry'
    BY DEF OneEntry, StatsTypes, Accessing
  <2>3. CountersAgree'
    BY DEF CountersAgree, OneEntry, StatsTypes, Counters, Accessing
  <2>4. Alone'
    BY DEF Alone, StatsTypes, Accessing
  <2>5. OwnTime'
    BY DEF OwnTime, Alone, OneEntry, StatsTypes, Counters, Accessing
  <2> QED
    BY <2>1, <2>2, <2>3, <2>4, <2>5
<1>11. CASE Stat!ReadStats
  <2> USE <1>11 DEF Stat!ReadStats
  <2>1. StatsTypes'
    BY DEF StatsTypes, Stat!StatsAssumption, Counters, Accessing
  <2>2. OneEntry'
    BY DEF OneEntry, StatsTypes, Accessing
  <2>3. CountersAgree'
    BY DEF CountersAgree, OneEntry, StatsTypes, Counters, Accessing
  <2>4. Alone'
    BY DEF Alone, StatsTypes, Accessing
  <2>5. OwnTime'
    BY DEF OwnTime, Alone, OneEntry, StatsTypes, Counters, Accessing
  <2> QED
    BY <2>1, <2>2, <2>3, <2>4, <2>5
<1>12. CASE Stat!WriteZeros
  <2> USE <1>12 DEF Stat!WriteZeros
  <2>1. StatsTypes'
    BY DEF StatsTypes, Stat!StatsAssumption, Counters, Accessing
  <2>2. OneEntry'
    BY DEF OneEntry, StatsTypes, Accessing
  <2>3. CountersAgree'
    BY DEF CountersAgree, OneEntry, StatsTypes, Counters, Accessing
  <2>4. Alone'
    BY DEF Alone, StatsTypes, Accessing
  <2>5. OwnTime'
    BY DEF OwnTime, Alone, OneEntry, StatsTypes, Counters, Accessing
  <2> QED
    BY <2>1, <2>2, <2>3, <2>4, <2>5
<1>13. CASE UNCHANGED Stat!vars
  BY <1>13 DEF Stat!vars, StatsTypes, OneEntry, CountersAgree, Alone, OwnTime
<1> QED
  BY <1>1, <1>2, <1>3, <1>4, <1>5, <1>6, <1>7, <1>8, <1>9, <1>10, <1>11, <1>12, <1>13
     DEF Stat!Next

\* StatsInv is an invariant of Stats.
LEMMA StatsInvariant == ASSUME Stat!StatsAssumption PROVE Stat!Spec => []StatsInv
<1>1. Stat!Init => StatsInv
  BY StatsInit
<1>2. StatsInv /\ [Stat!Next]_(Stat!vars) => StatsInv'
  BY StatsStep
<1> QED
  BY <1>1, <1>2, PTL DEF Stat!Spec

\* For any number of packets and CPUs, the entry is there when a packet returns, and
\* its counters are what was added to them.
THEOREM CountersAddUp == Stat!Spec => []CountersExact
<1>1. StatsInv => CountersExact
  BY DEF StatsInv, OneEntry, CountersAgree, Stat!CountersExact, CountersExact
<1> QED
  BY ProgramsAssumption, StatsInvariant, <1>1, PTL

\* The latencies of packets that ran alone add up, modulo the width of the sum.
THEOREM LatenciesAddUp == Stat!Spec => []LatencyExact
<1>1. StatsInv => LatencyExact
  BY DEF StatsInv, CountersAgree, Stat!LatencyExact, LatencyExact
<1> QED
  BY ProgramsAssumption, StatsInvariant, <1>1, PTL

-----------------------------------------------------------------------------
(***************************************************************************)
(* Tuple.                                                                  *)
(***************************************************************************)

\* A packet of the shape came has, behind an outer header.
Tunnelled(p) == [p EXCEPT !.tunnel = TRUE, !.len = @ + 20]

\* A packet that is sent is the one that came, or chacha has put it behind a header.
SentAs ==
    \/ pkt = came
    \/ ~came.tunnel /\ pkt = Tunnelled(came) /\ came.len >= T!ClearBytes(came)

TupleInv ==
    /\ came \in T!Arriving
    /\ tpc = "wire" => pkt = came
    /\ tpc # "wire" => stored = T!GetTuple(came)
    /\ tpc = "sf" => pkt = came
    /\ tpc \in {"egress", "sent"} => SentAs
    /\ tpc = "sent" => sought = T!GetTuple(pkt)
    /\ T!Restored

\* The shape of every packet.
Packet == [tunnel : BOOLEAN, len : Int, src : Addrs, dst : Addrs,
           proto : {"udp", "tcp", "icmp", "other"}, sport : Ports, dport : Ports,
           echo : BOOLEAN]

\* The packet is the one that came.
LEMMA TupleInit == T!Init => TupleInv
BY DEF T!Init, TupleInv, T!Restored

\* A packet that arrives is of this shape.
LEMMA ArrivingPacket == ASSUME T!TupleAssumption, NEW p \in T!Arriving PROVE p \in Packet
<1>1. p \in [ tunnel : BOOLEAN, len : Lengths, src : Addrs, dst : Addrs,
              proto : {"udp", "tcp", "icmp", "other"}, sport : Ports, dport : Ports,
              echo : BOOLEAN ]
  BY Zenon DEF T!Arriving
<1>2. Lengths \subseteq Int
  BY DEF T!TupleAssumption
<1> QED
  BY ONLY <1>1, <1>2 DEF Packet

\* What remove-ipip takes off is what chacha put in front.
LEMMA TunnelledPacket ==
    ASSUME NEW p \in Packet, ~p.tunnel
    PROVE  /\ Tunnelled(p).tunnel /\ Tunnelled(p).len = p.len + 20
           /\ Tunnelled(p).src = p.src /\ Tunnelled(p).dst = p.dst
           /\ Tunnelled(p).proto = p.proto
           /\ T!Stripped(Tunnelled(p)) = p
<1> DEFINE q == Tunnelled(p)
<1>1. p.len \in Int /\ p.tunnel = FALSE
  BY DEF Packet
<1>5. q \in Packet
  <2>1. p.len + 20 \in Int
    BY <1>1
  <2> QED
    BY <2>1, Zenon DEF Tunnelled, Packet
<1>2. /\ q.tunnel = TRUE /\ q.len = p.len + 20
      /\ q.src = p.src /\ q.dst = p.dst /\ q.proto = p.proto
      /\ q.sport = p.sport /\ q.dport = p.dport /\ q.echo = p.echo
  BY DEF Tunnelled, Packet
<1> DEFINE r == T!Stripped(q)
<1>6. r \in Packet
  <2> HIDE DEF q
  <2>1. q.len - 20 \in Int
    BY <1>1, <1>2
  <2> QED
    BY <2>1, <1>5, Zenon DEF T!Stripped, T!IPHDR, Packet
<1>3. /\ r.tunnel = FALSE /\ r.len = q.len - 20
      /\ r.src = q.src /\ r.dst = q.dst /\ r.proto = q.proto
      /\ r.sport = q.sport /\ r.dport = q.dport /\ r.echo = q.echo
  <2> HIDE DEF q
  <2> QED
    BY <1>5 DEF T!Stripped, T!IPHDR, Packet
<1>4. r = p
  <2> HIDE DEF q, r
  <2>1. r.len = p.len
    BY <1>1, <1>2, <1>3
  <2> QED
    BY <1>1, <1>2, <1>3, <1>6, <2>1 DEF Packet
<1> QED
  BY <1>2, <1>4

\* Only chacha changes a packet before it is sent, and only one that is not tunnelled.
LEMMA TupleStep == ASSUME T!TupleAssumption, TupleInv, [T!Next]_(T!vars) PROVE TupleInv'
<1> USE DEF TupleInv
<1>0. came \in Packet
  BY ArrivingPacket
<1>1. CASE T!Decap
  BY <1>1 DEF T!Decap, T!Restored
<1>2. CASE T!Forward
  BY <1>2 DEF T!Forward, T!Restored, SentAs
<1>3. CASE T!Chacha
  <2>1. SentAs' \/ tpc' # "egress"
    BY <1>0, <1>3 DEF T!Chacha, SentAs, Tunnelled, T!ProtoAt, T!InnerOffset, T!IPHDR, Packet
  <2> QED
    BY <1>3, <2>1 DEF T!Chacha, T!Restored
<1>4. CASE T!Encap
  BY <1>4 DEF T!Encap, T!Restored, SentAs
<1>5. CASE T!RemoveIpip
  <2>1. /\ came' = came /\ stored' = stored
        /\ tpc' \in {"delivered", "answered"} /\ tpc # "wire"
    BY <1>5 DEF T!RemoveIpip
  <2>2. SentAs
    BY <1>5 DEF T!RemoveIpip
  <2>3. T!Restored'
    <3>1. CASE pkt = came
      BY <1>0, <1>5, <3>1 DEF T!RemoveIpip, T!Restored, T!ProtoAt, T!InnerOffset,
                              T!Stripped, T!IPHDR, Packet
    <3>2. CASE ~came.tunnel /\ pkt = Tunnelled(came)
      <4>1. T!Stripped(pkt) = came /\ T!ProtoAt(pkt, 0) = "ipip"
        BY <1>0, <3>2, TunnelledPacket DEF T!ProtoAt, T!InnerOffset, T!IPHDR
      <4> QED
        BY <1>5, <3>2, <4>1 DEF T!RemoveIpip, T!Restored
    <3> QED
      BY <2>2, <3>1, <3>2 DEF SentAs
  <2> QED
    BY <2>1, <2>3
<1>6. CASE UNCHANGED T!vars
  BY <1>6 DEF T!vars, SentAs, T!Restored
<1> QED
  BY <1>1, <1>2, <1>3, <1>4, <1>5, <1>6 DEF T!Next

\* get_tuple on a packet without an outer header.
LEMMA PlainKey ==
    ASSUME T!TupleAssumption, TupleInv PROVE T!PlainTupleExact
<1>1. came \in Packet
  BY ArrivingPacket DEF TupleInv
<1> QED
  BY <1>1 DEF TupleInv, T!PlainTupleExact, T!GetTuple, T!ProtoAt, T!InnerOffset,
              T!WordsAt, T!IpOffset, T!L4Offset, T!Key, T!Fail, T!IPHDR, T!L4Size, Packet

\* A ping has no ports, and its addresses are those of the inner header.
LEMMA PingKey ==
    ASSUME T!TupleAssumption, TupleInv PROVE T!IcmpTunnelKeepsKey
<1>1. came \in Packet
  BY ArrivingPacket DEF TupleInv
<1> SUFFICES ASSUME tpc = "sent", pkt.proto = "icmp", pkt # came
             PROVE  T!GetTuple(pkt) = T!GetTuple(came)
  BY DEF TupleInv, T!IcmpTunnelKeepsKey
<1>2. ~came.tunnel /\ pkt = Tunnelled(came) /\ came.len >= 28 /\ came.proto = "icmp"
  <2>1. ~came.tunnel /\ pkt = Tunnelled(came) /\ came.len >= T!ClearBytes(came)
    BY DEF TupleInv, SentAs
  <2>2. came.proto = "icmp" /\ came.len \in Int
    BY <1>1, <2>1, TunnelledPacket DEF Packet
  <2>3. T!ClearBytes(came) \in {28, 44}
    BY <2>2 DEF T!ClearBytes, T!IPHDR, T!L4Size
  <2> QED
    BY <2>1, <2>2, <2>3
<1>3. T!GetTuple(came) = T!Key(came, <<0, 0>>)
  BY <1>1, <1>2 DEF T!GetTuple, T!ProtoAt, T!InnerOffset, T!IpOffset, T!IPHDR, Packet
<1>4. /\ pkt.tunnel /\ pkt.len = came.len + 20 /\ pkt.proto = "icmp"
      /\ pkt.src = came.src /\ pkt.dst = came.dst
  BY <1>1, <1>2, TunnelledPacket
<1>5. T!GetTuple(pkt) = T!Key(pkt, <<0, 0>>)
  BY <1>1, <1>2, <1>4 DEF T!GetTuple, T!ProtoAt, T!InnerOffset, T!IpOffset, T!IPHDR, Packet
<1> QED
  BY <1>2, <1>3, <1>4, <1>5 DEF T!Key

\* TupleInv is an invariant of Tuple.
LEMMA TupleInvariant == ASSUME T!TupleAssumption PROVE T!Spec => []TupleInv
<1>1. T!Init => TupleInv
  BY TupleInit
<1>2. TupleInv /\ [T!Next]_(T!vars) => TupleInv'
  BY TupleStep
<1> QED
  BY <1>1, <1>2, PTL DEF T!Spec

\* For packets of any length, Dec takes the complete ones, under a key of their own.
THEOREM PlainKeysExact == T!Spec => []PlainTupleExact
<1>1. TupleInv => PlainTupleExact
  BY ProgramsAssumption, PlainKey DEF PlainTupleExact
<1> QED
  BY ProgramsAssumption, TupleInvariant, <1>1, PTL

\* Enc finds a ping that chacha has put behind an outer header, whatever its length.
THEOREM PingsKeepKey == T!Spec => []IcmpTunnelKeepsKey
<1>1. TupleInv => IcmpTunnelKeepsKey
  BY ProgramsAssumption, PingKey DEF IcmpTunnelKeepsKey
<1> QED
  BY ProgramsAssumption, TupleInvariant, <1>1, PTL

\* remove-ipip delivers the packet that came, or answers a ping with its reply.
THEOREM PacketsRestored == T!Spec => []Restored
<1>1. TupleInv => Restored
  BY DEF TupleInv, Restored
<1> QED
  BY ProgramsAssumption, TupleInvariant, <1>1, PTL
=============================================================================
