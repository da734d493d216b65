---------------------------- MODULE RateLimiter ----------------------------
(***************************************************************************)
(* The rate limiter of the Docker sidecar: the middleware of               *)
(* ratelimiter.NewSlidingWindow over the repository InMemory               *)
(* (src/docker/sidecar/pkg/middleware/ratelimiter/), for one key.  Keys    *)
(* share nothing but the repository's mutex.                               *)
(*                                                                         *)
(* A request is a process: RemoveOldRecords, CountRecords, AddRecord and   *)
(* ExpireKey each hold the mutex, and anything may happen between them.    *)
(* Time is a counter that Tick moves; time.Now() is read on arrival and    *)
(* again by isExpired and ExpireKey.  CountRecords calls isExpired, which  *)
(* deletes from two maps, under the read lock: two that find the key       *)
(* expired together are a data race, and the Go runtime may end the        *)
(* process (CountsRace).                                                   *)
(*                                                                         *)
(* An operator whose name says what it gets wrong is a mutant of the one   *)
(* below it, used only to check that a property notices.                   *)
(***************************************************************************)
EXTENDS Integers, Sequences, FiniteSets, SequencesExt

CONSTANTS
  Callers,     \* requests that can be in progress at once
  MaxHits,     \* Config.MaxHits
  Window,      \* Config.Window, in ticks of the clock
  MaxTime,     \* bound: ticks of a behaviour
  MaxRequests, \* bound: requests of a behaviour
  Never        \* the key has no expiry

ASSUME RateLimiterAssumption ==
  /\ IsFiniteSet(Callers) /\ Callers # {}
  /\ MaxHits \in Nat \ {0}
  /\ Window \in Nat \ {0}
  /\ MaxTime \in Nat /\ MaxRequests \in Nat
  /\ Never \notin Int

VARIABLES
  clock,       \* time.Now()
  data,        \* InMemory.data[key]
  expires,     \* InMemory.expires[key]
  call,        \* per caller: its next repository call, and its `now`
  up,          \* the process lives
  asked,       \* requests so far, for the bound
  passed,      \* history: arrival and AddRecord of the requests let through
  disturbed    \* history: the last moment at which an overlap ended

vars == <<clock, data, expires, call, up, asked, passed, disturbed>>

NoCall == [at |-> "idle", now |-> 0]

Init ==
  /\ clock = 0
  /\ data = << >>
  /\ expires = Never
  /\ call = [c \in Callers |-> NoCall]
  /\ up = TRUE
  /\ asked = 0
  /\ passed = << >>
  /\ disturbed = -Window

At(c, at) == up /\ call[c].at = at
Goes(c, at) == call' = [call EXCEPT ![c].at = at]

InProgress == {c \in Callers : call[c].at # "idle"}
Ends(c) ==
  /\ call' = [call EXCEPT ![c] = NoCall]
  /\ disturbed' = IF Cardinality(InProgress) > 1 THEN clock ELSE disturbed

IsExpired == expires # Never /\ clock > expires

\* isExpired, or the branches that follow it: the key is forgotten.
Forget == data' = << >> /\ expires' = Never

-----------------------------------------------------------------------------
(* The middleware, one action per call of the repository. *)

Arrive(c) ==
  /\ At(c, "idle") /\ asked < MaxRequests
  /\ asked' = asked + 1
  /\ call' = [call EXCEPT ![c] = [at |-> "remove", now |-> clock]]
  /\ UNCHANGED <<clock, data, expires, up, passed, disturbed>>

YoungerOrAtEdge(stamps, edge) ==
  LET after == {i \in DOMAIN stamps : stamps[i] >= edge}
  IN IF after = {} THEN << >>
     ELSE SubSeq(stamps, CHOOSE i \in after : \A j \in after : i <= j, Len(stamps))
\* sort.Search for the first record after the edge; what precedes it goes.
Younger(stamps, edge) ==
  LET after == {i \in DOMAIN stamps : stamps[i] > edge}
  IN IF after = {} THEN << >>
     ELSE SubSeq(stamps, CHOOSE i \in after : \A j \in after : i <= j, Len(stamps))

RemoveOldRecords(c) ==
  /\ At(c, "remove")
  /\ IF IsExpired THEN Forget
     ELSE /\ data' = Younger(data, call[c].now - Window)
          /\ UNCHANGED expires
  /\ Goes(c, "count")
  /\ UNCHANGED <<clock, up, asked, passed, disturbed>>

Counted == IF IsExpired THEN 0 ELSE Len(data)

LetsOneMoreThrough(count) == count > MaxHits
TooMany(count) == count >= MaxHits

\* 429, or on to AddRecord with the count as it was under the lock.
CountRecords(c) ==
  /\ At(c, "count")
  /\ IF IsExpired THEN Forget ELSE UNCHANGED <<data, expires>>
  /\ IF TooMany(Counted)
     THEN Ends(c)
     ELSE Goes(c, "add") /\ UNCHANGED disturbed
  /\ UNCHANGED <<clock, up, asked, passed>>

\* Two CountRecords delete from the same maps at once: fatal error.  Nothing
\* restarts the sidecar: the health monitor restarts applications only.
CountsRace ==
  /\ \E c, d \in Callers : c # d /\ At(c, "count") /\ At(d, "count")
  /\ IsExpired
  /\ up' = FALSE
  /\ call' = [c \in Callers |-> NoCall]
  /\ UNCHANGED <<clock, data, expires, asked, passed, disturbed>>

InsertedLast(stamps, s) == Append(stamps, s)
\* sort.Search for the first record that is not earlier, and the shift.
Inserted(stamps, s) ==
  InsertAt(stamps, 1 + Cardinality({i \in DOMAIN stamps : stamps[i] < s}), s)

\* AddRecord with the time of arrival, not of the insertion.
AddRecord(c) ==
  /\ At(c, "add")
  /\ IF IsExpired
     THEN data' = <<call[c].now>> /\ expires' = Never
     ELSE data' = Inserted(data, call[c].now) /\ UNCHANGED expires
  /\ passed' = Append(passed, [arrival |-> call[c].now, added |-> clock])
  /\ Goes(c, "expire")
  /\ UNCHANGED <<clock, up, asked, disturbed>>

ExpiryHalved(t) == t + (Window \div 2)
Expiry(t) == t + Window

\* ExpireKey; the request is then served, outside the limiter.
ExpireKey(c) ==
  /\ At(c, "expire")
  /\ expires' = Expiry(clock)
  /\ Ends(c)
  /\ UNCHANGED <<clock, data, up, asked, passed>>

Tick ==
  /\ clock < MaxTime
  /\ clock' = clock + 1
  /\ UNCHANGED <<data, expires, call, up, asked, passed, disturbed>>

Handler(c) ==
  \/ Arrive(c) \/ RemoveOldRecords(c) \/ CountRecords(c) \/ AddRecord(c)
  \/ ExpireKey(c)

Next == Tick \/ CountsRace \/ \E c \in Callers : Handler(c)

Spec == Init /\ [][Next]_vars

-----------------------------------------------------------------------------
(* What holds. *)

Ascending(stamps) == \A i \in 1 .. Len(stamps) - 1 : stamps[i] <= stamps[i + 1]

TypeOK ==
  /\ clock \in Nat
  /\ data \in Seq(Nat) /\ Ascending(data)
  /\ expires = Never \/ expires \in Nat
  /\ call \in [Callers -> [at : {"idle", "remove", "count", "add", "expire"}, now : Nat]]
  /\ up \in BOOLEAN
  /\ asked \in Nat
  /\ passed \in Seq([arrival : Nat, added : Nat])
  /\ disturbed \in Int

(***************************************************************************)
(* The middleware over the repository is a sliding window: exact for       *)
(* requests that come one at a time, whatever the moments at which records *)
(* are purged and the whole key expires, and exact again one Window after  *)
(* the last requests that overlapped.                                      *)
(***************************************************************************)
Request(c) ==
  [at |-> CASE call[c].at = "idle" -> "idle"
            [] call[c].at = "expire" -> "answered"
            [] OTHER -> "asked",
   arrival |-> call[c].now]
W == INSTANCE SlidingWindow
       WITH hits <- [i \in DOMAIN passed |-> passed[i].arrival],
            request <- [c \in Callers |-> Request(c)]
ImplementsWindow == W!WindowSpec

(***************************************************************************)
(* However requests overlap, none is refused for nothing: a refusal means  *)
(* that at least MaxHits records were added less than a Window before the  *)
(* refused request arrived, or after it.                                   *)
(***************************************************************************)
RefusedForAReason ==
  [][\A c \in Callers :
       At(c, "count") /\ up' /\ call'[c].at = "idle"
         => Cardinality({i \in DOMAIN passed : passed[i].added > call[c].now - Window})
              >= MaxHits]_vars

(***************************************************************************)
(* The overshoot of overlapping requests is bounded.  Of those that        *)
(* arrived and were recorded in any one Window, each other request in      *)
(* progress may add one that had been counted too early, and one whose     *)
(* record went with the expiry of the key before its own ExpireKey.        *)
(***************************************************************************)
OvershootBounded ==
  \A t \in 0 .. clock :
    Cardinality({i \in DOMAIN passed : t - Window < passed[i].arrival /\ passed[i].added <= t})
      <= MaxHits + 2 * (Cardinality(Callers) - 1)

(***************************************************************************)
(* The inductive invariant of RateLimiterProofs.  It compares, for every   *)
(* edge e, the requests let through that arrived after e with the records  *)
(* kept that are younger than e.  A record is only ever lost when the key  *)
(* expires, and then only the requests that have not set a new expiry yet  *)
(* can have arrived within the Window: the other callers of the one that   *)
(* finds the key expired, and none when it is alone.                       *)
(***************************************************************************)
Edges == -Window .. MaxTime
Passed(e) == {i \in DOMAIN passed : passed[i].arrival > e}
Added(e) == {i \in DOMAIN passed : passed[i].added > e}
Kept(e) == {j \in DOMAIN data : data[j] > e}
Stage(at) == {c \in Callers : call[c].at = at}
Others == Cardinality(Callers) - 1

InThePast ==
  /\ clock <= MaxTime /\ disturbed <= clock
  /\ \A c \in Callers : call[c].now <= clock
  /\ \A i \in DOMAIN passed : passed[i].arrival <= passed[i].added /\ passed[i].added <= clock
  /\ \A j \in DOMAIN data : data[j] <= clock

ExpiryIsLate ==
  up /\ expires # Never =>
    \A e \in Edges : e >= expires - Window => Cardinality(Passed(e)) <= Cardinality(Stage("expire"))

NoneInvented == \A e \in Edges : Cardinality(Kept(e)) <= Cardinality(Passed(e))

FewForgotten ==
  up => \A e \in Edges : e >= clock - Window => Cardinality(Passed(e)) <= Cardinality(Kept(e)) + Others

\* Alone, and after the last overlap, none is forgotten.
NoneForgotten ==
  up /\ Cardinality(InProgress) <= 1 =>
    \A e \in Edges : e >= clock - Window /\ e >= disturbed => Cardinality(Passed(e)) <= Cardinality(Kept(e))

FewAhead ==
  Cardinality(Passed(clock - Window)) + Cardinality(Stage("add")) <= MaxHits + 2 * Others

CountedRight ==
  \A c \in Callers : At(c, "count") => Len(data) <= Cardinality(Added(call[c].now - Window))

\* What SlidingWindow calls Promised, in the variables of the limiter.
Undisturbed(c) == call[c].now >= disturbed + Window /\ InProgress = {c}
Recent(t) == {i \in DOMAIN passed : t - Window < passed[i].arrival /\ passed[i].arrival <= t}

PromisesKept ==
  \A c \in Callers : Undisturbed(c) =>
    /\ \A i \in DOMAIN passed : passed[i].arrival <= call[c].now
    /\ At(c, "count") => Len(data) <= Cardinality(Passed(call[c].now - Window))
    /\ At(c, "add") => \E t \in call[c].now .. clock : Cardinality(Recent(t)) < MaxHits

IInv ==
  /\ TypeOK /\ InThePast /\ ExpiryIsLate /\ NoneInvented /\ FewForgotten /\ NoneForgotten
  /\ FewAhead /\ CountedRight /\ PromisesKept /\ OvershootBounded
=============================================================================
