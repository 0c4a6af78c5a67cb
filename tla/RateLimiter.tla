----------------------------- MODULE RateLimiter -----------------------------
(***************************************************************************)
(* The sliding-window rate limiter: the class RateLimitMiddleware.         *)
(*                                                                         *)
(* The application does not install the class.  Its middleware is that of  *)
(* main.py, request_middleware and CORS, so that today every request goes  *)
(* past dispatch (PassBy) and the program limits nothing.  What is said    *)
(* below is said of dispatch and of the requests that are given to it.     *)
(*                                                                         *)
(* One process serves all requests in one event loop, and nothing between  *)
(* reading the clock and the answer awaits anything but a lock that nobody *)
(* ever holds across an await: what dispatch decides is ONE step.  The     *)
(* clock is monotonic; several requests may read the same time.            *)
(*                                                                         *)
(* counters[k] holds the admitted requests whose time stamps are in the    *)
(* list of key k (the list is in order of time: its head is the oldest).   *)
(***************************************************************************)
EXTENDS Integers, FiniteSets

CONSTANTS
  Requests,    \* requests; each arrives once
  Clients,     \* client addresses
  Limit,       \* Limit[c]: requests per window for route class c
  Window,      \* length of a window, in ticks of the clock
  Second,      \* ticks per second
  MaxTime,     \* bound of the clock
  NoRequest    \* the request has not arrived yet

Class   == {"auth", "default"}
Key     == Clients \X Class
Answer  == {"admitted", "refused", "passed"}
Arrival == [key : Key, at : Nat, answer : Answer, retry_after : Nat]

ASSUME LimiterAssumption ==
  /\ IsFiniteSet(Requests)
  /\ Limit \in [Class -> Nat \ {0}]
  /\ Window \in Nat \ {0} /\ Second \in Nat \ {0} /\ MaxTime \in Nat
  /\ NoRequest \notin Arrival

VARIABLES
  now,        \* time.monotonic()
  arrived,    \* arrived[r]: key, time and answer of request r
  counters    \* counters[k]: the requests whose time stamps are kept

vars == <<now, arrived, counters>>

TypeOK ==
  /\ now \in Nat
  /\ arrived \in [Requests -> Arrival \cup {NoRequest}]
  /\ counters \in [Key -> SUBSET Requests]

Init ==
  /\ now = 0
  /\ arrived = [r \in Requests |-> NoRequest]
  /\ counters = [k \in Key |-> {}]

\* t > window_start: a stamp exactly one window old does not count any more.
InWindow(r, t) == arrived[r].at > t - Window

Kept(k) == {r \in counters[k] : InWindow(r, now)}

\* The head of the list.
Oldest(k) ==
  CHOOSE r \in Kept(k) : \A x \in Kept(k) : arrived[r].at <= arrived[x].at

\* Mutant: without the second that rounds up.
MutRetryAfter(k) == (arrived[Oldest(k)].at + Window - now) \div Second

\* int(oldest + window - now) + 1, in whole seconds.
RetryAfter(k) == (arrived[Oldest(k)].at + Window - now) \div Second + 1

Arrive(r, k, answer, retry_after, stamps) ==
  /\ arrived[r] = NoRequest
  /\ arrived' = [arrived EXCEPT ![r] = [key |-> k, at |-> now, answer |-> answer,
                                        retry_after |-> retry_after]]
  /\ counters' = [counters EXCEPT ![k] = stamps]
  /\ UNCHANGED now

\* Mutant: > for >=.
MutFull(k) == Cardinality(Kept(k)) > Limit[k[2]]

Full(k) == Cardinality(Kept(k)) >= Limit[k[2]]

Admit(r, k) == ~Full(k) /\ Arrive(r, k, "admitted", 0, Kept(k) \cup {r})

\* Mutant: a refused request is counted as well.
MutRefuse(r, k) == Full(k) /\ Arrive(r, k, "refused", RetryAfter(k), Kept(k) \cup {r})

Refuse(r, k) == Full(k) /\ Arrive(r, k, "refused", RetryAfter(k), Kept(k))

\* A request that dispatch does not see, or one for an exempt route: no stamp of
\* it is kept.
PassBy(r, k) == Arrive(r, k, "passed", 0, counters[k])

Tick == now < MaxTime /\ now' = now + 1 /\ UNCHANGED <<arrived, counters>>

Next ==
  \/ \E r \in Requests, k \in Key : Admit(r, k) \/ Refuse(r, k) \/ PassBy(r, k)
  \/ Tick

Spec == Init /\ [][Next]_vars

-----------------------------------------------------------------------------
(* Properties.                                                             *)

Answered(k, a) == {r \in Requests : /\ arrived[r] # NoRequest
                                    /\ arrived[r].key = k /\ arrived[r].answer = a}

AdmittedIn(k, t) == {r \in Answered(k, "admitted") : /\ InWindow(r, t)
                                                     /\ arrived[r].at <= t}

\* "60 requests per 60-second window": in any window of time whatever, not
\* only in those that start with an eviction, dispatch admits at most Limit
\* requests of a client.  Those it is not given are not limited.
AtMostLimit ==
  \A k \in Key : \A t \in 0..now : Cardinality(AdmittedIn(k, t)) <= Limit[k[2]]

\* Nobody is refused for less: when dispatch refuses a request, it has admitted
\* Limit requests of the same client and class in the window that ends then;
\* refused requests, those that passed by, other clients and the other class do
\* not count.
RefusedOnlyAtLimit ==
  \A k \in Key, r \in Requests :
    r \in Answered(k, "refused") =>
      Cardinality(AdmittedIn(k, arrived[r].at)) >= Limit[k[2]]

\* Retry-After is enough: a client that waits that many seconds is refused
\* again only if dispatch admitted another request of its key in between.
RetryAfterSuffices ==
  \A k \in Key : \A r, s \in Answered(k, "refused") :
    arrived[s].at >= arrived[r].at + Second * arrived[r].retry_after
      => \E x \in Answered(k, "admitted") :
           arrived[x].at > arrived[r].at /\ arrived[x].at <= arrived[s].at
=============================================================================
