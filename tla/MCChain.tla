------------------------------ MODULE MCChain ------------------------------
(* Values of the constants of Chain for TLC. *)
EXTENDS Chain

CONSTANTS k1, s1, svc

OneEndpoint == {[key |-> k1, service |-> s1]}

\* Discovery knows the endpoints of svc, then loses them all.
OneOrNone == {[d \in {svc} |-> OneEndpoint], [d \in {svc} |-> {}]}
=============================================================================
