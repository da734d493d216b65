------------------------------ MODULE Routing ------------------------------
(***************************************************************************)
(* Load balancing of the k8s sidecar, middleware_routing.go, for one       *)
(* destination of the discovery cache (destinations share nothing but the  *)
(* mutex).  A goroutine takes a copy of the destination's endpoint list    *)
(* and, later, picks from its copy with an index it shares with the        *)
(* others; between the two the list may be replaced.  Every relist         *)
(* replaces it, in an order of its own: dedupeEndpoints ranges over a map. *)
(***************************************************************************)
EXTENDS Integers, Sequences, FiniteSets

CONSTANTS Conns,      \* connection goroutines
          Endpoints,  \* endpoints the destination can have
          Algorithm,  \* loadBalancerAlgorithm
          NoList,     \* a goroutine that is not between the two steps
          MaxPicks    \* bound: picks counted from one list

ASSUME RoutingAssumption ==
    /\ IsFiniteSet(Endpoints)
    /\ Algorithm \in {"none", "random", "roundRobin"}
    /\ MaxPicks \in Nat

\* The endpoint lists: dedupeEndpoints leaves no endpoint twice.
Lists ==
    UNION {{s \in [1..n -> Endpoints] : \A i, j \in 1..n : s[i] = s[j] => i = j} :
               n \in 0..Cardinality(Endpoints)}

ASSUME NoListAssumption == NoList \notin Lists

VARIABLES list,    \* the destination's endpoints in the cache
          copies,  \* what GetEndpoints has returned to a goroutine
          next,    \* roundRobinState of the destination
          picks    \* history: picks of each endpoint from the present list, since
                   \* it was installed or a pick from an older list disturbed the index

routingVars == <<list, copies, next, picks>>

RoutingTypeOK ==
    /\ list \in Lists
    /\ copies \in [Conns -> (Lists \ {<<>>}) \union {NoList}]
    /\ next \in 0..Cardinality(Endpoints)
    /\ picks \in [Endpoints -> 0..MaxPicks]

NoPicks == [e \in Endpoints |-> 0]

RoutingInit ==
    /\ list \in Lists
    /\ copies = [c \in Conns |-> NoList]
    /\ next = 0
    /\ picks = NoPicks

\* Discovery replaces the cache.
Replace ==
    /\ list' \in Lists
    /\ picks' = NoPicks
    /\ UNCHANGED <<copies, next>>

\* GetEndpoints.  An empty list routes to the original destination instead.
GetEndpoints(c) ==
    /\ copies[c] = NoList
    /\ list # <<>>
    /\ copies' = [copies EXCEPT ![c] = list]
    /\ UNCHANGED <<list, next, picks>>

\* The positions of the list that selectEndpoint may return.
Selected(eps) ==
    CASE Algorithm = "none" -> {1}
      [] Algorithm = "random" -> 1..Len(eps)
      [] Algorithm = "roundRobin" -> {(next % Len(eps)) + 1}

AdvanceNowhere(eps) == next % Len(eps)
AdvanceUnwrapped(eps) == next + 1
\* The index that selectEndpoint leaves for the next goroutine.
Advance(eps) == IF Algorithm = "roundRobin" THEN (next + 1) % Len(eps) ELSE next

\* selectEndpoint, under the mutex.
SelectEndpoint(c) ==
    /\ copies[c] # NoList
    /\ LET eps == copies[c]
       IN  /\ next' = Advance(eps)
           /\ \E i \in Selected(eps) :
                 IF eps = list
                 THEN /\ picks[eps[i]] < MaxPicks
                      /\ picks' = [picks EXCEPT ![eps[i]] = @ + 1]
                 ELSE picks' = NoPicks
    /\ copies' = [copies EXCEPT ![c] = NoList]
    /\ UNCHANGED list

RoutingNext == Replace \/ \E c \in Conns : GetEndpoints(c) \/ SelectEndpoint(c)

RoutingSpec == RoutingInit /\ [][RoutingNext]_routingVars

-----------------------------------------------------------------------------
(***************************************************************************)
(* Properties                                                              *)
(***************************************************************************)

\* Round robin is fair at every moment: as long as all goroutines pick from the
\* present list, no endpoint of it is ahead of another by more than one pick,
\* whatever index the earlier lists have left (selectEndpoint).
Balanced ==
    Algorithm = "roundRobin" =>
        \A i, j \in 1..Len(list) : picks[list[i]] <= picks[list[j]] + 1

\* The inductive invariant: the picks went round the list from some first
\* position; those it has passed in the present round have one pick more.
Turn(i, first, n) == IF i >= first THEN i - first ELSE i - first + n
Rotated(base, first) ==
    LET n == Len(list) IN
    \A i \in 1..n :
        picks[list[i]] =
            IF Turn(i, first, n) < Turn((next % n) + 1, first, n) THEN base + 1 ELSE base
RoutingInv ==
    /\ RoutingTypeOK
    /\ Algorithm = "roundRobin" /\ list # <<>> =>
           \E base \in 0..MaxPicks, first \in 1..Len(list) : Rotated(base, first)
=============================================================================
