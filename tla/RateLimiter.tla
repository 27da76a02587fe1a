---------------------------- MODULE RateLimiter ----------------------------
(***************************************************************************)
(* The per-session sliding-window limiter of the generate endpoint:        *)
(* src/src/storyflow/security/rate_limit.py, consulted at                  *)
(* api/routes/generation.py:124-126.                                       *)
(*                                                                         *)
(* The clock is time.monotonic: it never goes back, and several requests   *)
(* may read the same time.  is_allowed has no suspension point, so a       *)
(* request is one step.  admitted and refused record the answers; the code *)
(* keeps neither.                                                          *)
(***************************************************************************)
EXTENDS Integers, Sequences, FiniteSets

CONSTANTS
  Sessions,      \* session ids; a request without one is not limited
  MaxRequests,   \* max_requests
  Window,        \* window_seconds
  MaxTime        \* bound: the clock stops here

ASSUME LimiterAssumption ==
  /\ MaxRequests \in Nat
  /\ Window \in Nat \ {0}
  /\ MaxTime \in Nat

VARIABLES
  now,           \* the clock
  history,       \* RateLimiter._history
  admitted,      \* times of all admissions of a session
  refused        \* times at which a request of a session was refused

vars == <<now, history, admitted, refused>>

TypeOK ==
  /\ now \in Nat
  /\ history \in [Sessions -> Seq(Nat)]
  /\ admitted \in [Sessions -> Seq(Nat)]
  /\ refused \in [Sessions -> SUBSET Nat]

Init ==
  /\ now = 0
  /\ history = [s \in Sessions |-> <<>>]
  /\ admitted = [s \in Sessions |-> <<>>]
  /\ refused = [s \in Sessions |-> {}]

-----------------------------------------------------------------------------
Tick ==
  /\ now < MaxTime
  /\ now' = now + 1
  /\ UNCHANGED <<history, admitted, refused>>

\* Mutant: an entry that is exactly as old as the window is kept.
PrunedLate(times) ==
  LET stale == {i \in DOMAIN times : \A j \in 1 .. i : times[j] < now - Window}
  IN  SubSeq(times, Cardinality(stale) + 1, Len(times))

\* The oldest entries go while they are no younger than the window.
Pruned(times) ==
  LET stale == {i \in DOMAIN times : \A j \in 1 .. i : times[j] <= now - Window}
  IN  SubSeq(times, Cardinality(stale) + 1, Len(times))

\* Mutant: one request more.
HasRoomForOneMore(times) == Len(times) <= MaxRequests

HasRoom(times) == Len(times) < MaxRequests

IsAllowed(s) ==
  LET recent == Pruned(history[s])
  IN  /\ IF HasRoom(recent)
         THEN /\ history' = [history EXCEPT ![s] = Append(recent, now)]
              /\ admitted' = [admitted EXCEPT ![s] = Append(@, now)]
              /\ UNCHANGED refused
         ELSE /\ history' = [history EXCEPT ![s] = recent]
              /\ refused' = [refused EXCEPT ![s] = @ \cup {now}]
              /\ UNCHANGED admitted
      /\ UNCHANGED now

Next == Tick \/ \E s \in Sessions : IsAllowed(s)

Spec == Init /\ [][Next]_vars

-----------------------------------------------------------------------------
\* Admissions of a session in the window that ends at time t.
InWindow(s, t) ==
  {i \in DOMAIN admitted[s] : t - Window < admitted[s][i] /\ admitted[s][i] <= t}

\* No window of the clock, wherever it starts, holds more than MaxRequests
\* admissions of one session, although the code only looks at what it has kept.
WindowBound ==
  \A s \in Sessions : \A t \in 0 .. now : Cardinality(InWindow(s, t)) <= MaxRequests

\* A request is refused only when its own session has used up the window:
\* neither old requests, nor refused ones, nor other sessions count.
RefusedOnlyWhenFull ==
  \A s \in Sessions : \A t \in refused[s] : Cardinality(InWindow(s, t)) >= MaxRequests

=============================================================================
