---------------------------- MODULE MCDataPlane ----------------------------
(***************************************************************************)
(* Small instances of DataPlane.                                           *)
(***************************************************************************)
EXTENDS DataPlane, TLC

CONSTANTS s1, s2, s3, f1, f2, p1, p2

MCNodes == {s1, s2, s3}
MCFlows == {f1, f2}

OneChain(nodes, remote) ==
    [chains |-> 100 :> nodes, flows |-> 100 :> {f1}, remote |-> remote]

\* Every placement of a chain of three functions, and of one function.
Placements ==
    { OneChain(<<s1, s2, s3>>, r) : r \in SUBSET MCNodes }
    \cup { OneChain(<<s1>>, r) : r \in {{}, {s1}} }

\* Two chains that share a remote function, as in test/chains-config/len-2-mix.json,
\* one that ends at the shared node and one that goes on; two chains that have the
\* same functions in opposite order; a chain with a direct link beside another.
SharedConfigs ==
    { [chains |-> (100 :> <<s2, s3>> @@ 200 :> <<s1, s3>>),
       flows |-> (100 :> {f1} @@ 200 :> {f2}), remote |-> MCNodes],
      [chains |-> (100 :> <<s1, s2>> @@ 200 :> <<s2, s1, s3>>),
       flows |-> (100 :> {f1} @@ 200 :> {f2}), remote |-> MCNodes],
      [chains |-> (100 :> <<s1, s2>> @@ 200 :> <<s3>>),
       flows |-> (100 :> {f1} @@ 200 :> {f2}), remote |-> {}] }

MCConfigs == Placements \cup SharedConfigs

SameFlow  == p1 :> f1 @@ p2 :> f1
TwoFlows  == p1 :> f1 @@ p2 :> f2
=============================================================================
