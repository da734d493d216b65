----------------------------- MODULE MCBreaker -----------------------------
(* Values of the constants of Breaker for TLC. *)
EXTENDS Breaker

CONSTANTS k1, k2, s1, s2, s3

\* One endpoint behind one service.
OneEndpoint == {[key |-> k1, service |-> s1]}

\* k1 is the only endpoint of s1; k2 is a pod behind both s2 and s3.
SharedPod == {[key |-> k1, service |-> s1],
              [key |-> k2, service |-> s2], [key |-> k2, service |-> s3]}
=============================================================================
