--------------------------- MODULE MCChainingBox ---------------------------
(***************************************************************************)
(* A small instance of ChainingBox.                                        *)
(***************************************************************************)
EXTENDS ChainingBox, TLC

CONSTANTS s1, s2, s3, f1, p1

ProxyConfig ==
    [chains |-> 100 :> <<s1, s2, s3>>, flows |-> 100 :> {f1}, remote |-> {s3}]

MCFlowOf == p1 :> f1
=============================================================================
