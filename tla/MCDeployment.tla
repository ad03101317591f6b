---------------------------- MODULE MCDeployment ----------------------------
(***************************************************************************)
(* A small instance of Deployment: every pair of chains over three nodes,  *)
(* valid or not.                                                           *)
(***************************************************************************)
EXTENDS Deployment, TLC

CONSTANTS s1, s2, s3, f1

MCNodes == {s1, s2, s3}

Paths == { <<a>> : a \in MCNodes } \cup (MCNodes \X MCNodes)
         \cup (MCNodes \X MCNodes \X MCNodes)

\* The function on s1 has a type cb_deploy does not know.
PairFiles ==
    { [chains |-> (100 :> u @@ 200 :> v), remote |-> r, known |-> {s2, s3}] :
        u \in Paths, v \in Paths, r \in SUBSET MCNodes }
=============================================================================
