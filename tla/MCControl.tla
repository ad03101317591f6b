----------------------------- MODULE MCControl -----------------------------
(***************************************************************************)
(* Small instances of Control.                                             *)
(***************************************************************************)
EXTENDS Control, TLC

CONSTANTS s1, s2, s3, f1

\* The situation of test/chains-config/test-proxy-rules.json: a direct link into
\* s2, which is followed by a remote function.  s1 needs no rule, s2 a forwarding
\* and a proxy rule, s3 the end of the chain.
ProxyConfig ==
    [chains |-> 100 :> <<s1, s2, s3>>, flows |-> 100 :> {f1}, remote |-> {s3}]
=============================================================================
