--------------------------- MODULE SlidingWindow ---------------------------
(***************************************************************************)
(* What a sliding-window rate limiter promises for one key: a request is   *)
(* let through when fewer than MaxHits were let through in the Window      *)
(* before it, and refused when MaxHits were.  A request takes time, so the *)
(* promise speaks of some moment between its arrival and its answer.       *)
(*                                                                         *)
(* Requests whose handling overlaps are promised nothing, and neither is   *)
(* one that arrives less than a Window after such an overlap: its window   *)
(* may hold hits that the limiter has miscounted.  After that the promise  *)
(* is exact again.  RateLimiter implements this module.                    *)
(***************************************************************************)
EXTENDS Integers, Sequences, FiniteSets

CONSTANTS
  Callers,     \* requests that can be in progress at once
  MaxHits,     \* Config.MaxHits
  Window       \* Config.Window, in ticks of the clock

VARIABLES
  clock,       \* time
  hits,        \* the arrival times of the requests that were let through
  request,     \* per caller: idle, asked or answered, and its arrival time
  disturbed    \* the last moment at which an overlap of two requests ended

absVars == <<clock, hits, request, disturbed>>

NoRequest == [at |-> "idle", arrival |-> 0]

WindowInit ==
  /\ clock = 0
  /\ hits = << >>
  /\ request = [c \in Callers |-> NoRequest]
  /\ disturbed = -Window

InProgress == {c \in Callers : request[c].at # "idle"}

HitsWithin(t) == Cardinality({i \in DOMAIN hits : t - Window < hits[i] /\ hits[i] <= t})

Promised(c) == request[c].arrival >= disturbed + Window /\ InProgress = {c}

Advance == clock' = clock + 1 /\ UNCHANGED <<hits, request, disturbed>>

\* A request is done while others still are in progress.
Disturbs == disturbed' = IF Cardinality(InProgress) > 1 THEN clock ELSE disturbed

Ask(c) ==
  /\ request[c].at = "idle"
  /\ request' = [request EXCEPT ![c] = [at |-> "asked", arrival |-> clock]]
  /\ UNCHANGED <<clock, hits, disturbed>>

Admit(c) ==
  /\ request[c].at = "asked"
  /\ Promised(c) => \E t \in request[c].arrival .. clock : HitsWithin(t) < MaxHits
  /\ hits' = Append(hits, request[c].arrival)
  /\ request' = [request EXCEPT ![c].at = "answered"]
  /\ UNCHANGED <<clock, disturbed>>

Refuse(c) ==
  /\ request[c].at = "asked"
  /\ Promised(c) => \E t \in request[c].arrival .. clock : HitsWithin(t) >= MaxHits
  /\ request' = [request EXCEPT ![c] = NoRequest]
  /\ Disturbs
  /\ UNCHANGED <<clock, hits>>

Finish(c) ==
  /\ request[c].at = "answered"
  /\ request' = [request EXCEPT ![c] = NoRequest]
  /\ Disturbs
  /\ UNCHANGED <<clock, hits>>

\* The limiter dies: no request is answered any more.
Die ==
  /\ request' = [c \in Callers |-> NoRequest]
  /\ UNCHANGED <<clock, hits, disturbed>>

WindowNext ==
  \/ Advance \/ Die
  \/ \E c \in Callers : Ask(c) \/ Admit(c) \/ Refuse(c) \/ Finish(c)

WindowSpec == WindowInit /\ [][WindowNext]_absVars
=============================================================================
