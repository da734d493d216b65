---------------------------- MODULE MCEnrolment ----------------------------
(***************************************************************************)
(* Two pods, two roots and files that differ in one setting each: what the *)
(* hops make of a file, and pods that outlive the mesh that admitted them. *)
(***************************************************************************)
EXTENDS Enrolment

CONSTANTS p1, p2, r1, r2

File == [plain |-> 15006, outbound |-> 15002, mtlsPort |-> 0, mtls |-> Unset, metrics |-> 0,
         exclude |-> Unset, algorithm |-> Unset, timeout |-> Unset, attempts |-> 0,
         threshold |-> 0, recovery |-> Unset]

SomeFiles ==
    {File,
     [File EXCEPT !.mtlsPort = -1, !.exclude = {8081, 9090}, !.timeout = Malformed,
                  !.recovery = Malformed],
     [File EXCEPT !.metrics = 9091, !.exclude = {9091}],
     [File EXCEPT !.algorithm = "leastConn"],
     [File EXCEPT !.mtls = TRUE, !.mtlsPort = 15006],
     [File EXCEPT !.mtls = FALSE, !.outbound = 70000],
     [File EXCEPT !.recovery = 0],
     [File EXCEPT !.timeout = -1],
     [File EXCEPT !.attempts = -1],
     [File EXCEPT !.threshold = -1],
     [File EXCEPT !.metrics = -1],
     [File EXCEPT !.mtls = TRUE, !.mtlsPort = -1],
     [File EXCEPT !.plain = 0]}

App(ports) == <<[name |-> "app", ports |-> ports]>>
Fetch == [name |-> "fetch", ports |-> {}]

SomeSpecs ==
    {[service |-> "a", account |-> Unset, optOut |-> FALSE, init |-> <<>>, containers |-> App({8080, 8081})],
     [service |-> "b", account |-> "default", optOut |-> FALSE, init |-> <<>>, containers |-> App({8081})],
     [service |-> "c", account |-> "c", optOut |-> TRUE, init |-> <<>>, containers |-> App({8080})],
     [service |-> "d", account |-> "d", optOut |-> FALSE, init |-> <<Fetch>>, containers |-> App({8080})],
     [service |-> "f", account |-> "f", optOut |-> FALSE, init |-> <<>>, containers |-> App({9090})],
     [service |-> "e", account |-> "e", optOut |-> FALSE, init |-> <<>>, containers |-> App({})]}

SomePods == {p1, p2}
SomeRoots == {r1, r2}
Symmetry == Permutations(SomePods) \union Permutations(SomeRoots)
=============================================================================
