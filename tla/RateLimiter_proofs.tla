-------------------------- MODULE RateLimiter_proofs --------------------------
(***************************************************************************)
(* Proofs about RateLimiter, for all requests, clients, limits and windows.*)
(* They are of dispatch: of any request it is left open whether it comes   *)
(* there or passes by, as all do in an application without the class.      *)
(*                                                                         *)
(* The argument: what a key keeps and has not outlived the window is       *)
(* exactly what was admitted in the window that ends now (KeptExact).  So  *)
(* the count that dispatch compares with the limit is the true one, the    *)
(* window that ends now stays within the limit, and no earlier window      *)
(* changes any more.                                                       *)
(***************************************************************************)
EXTENDS RateLimiter, FiniteSetTheorems, WellFoundedInduction, TLAPS

\* Every counted stamp is of an admitted request of the key; every admitted
\* request still in the window is counted; no request is from the future.
Stamps ==
  /\ \A k \in Key : counters[k] \subseteq Answered(k, "admitted")
  /\ \A k \in Key : \A r \in Answered(k, "admitted") :
       InWindow(r, now) => r \in counters[k]
  /\ \A r \in Requests : arrived[r] # NoRequest => arrived[r].at <= now

IInv == TypeOK /\ Stamps /\ AtMostLimit /\ RefusedOnlyAtLimit

USE LimiterAssumption

-----------------------------------------------------------------------------
\* A non-empty set of naturals has a smallest element.
LEMMA LeastNatural ==
  ASSUME NEW T \in SUBSET Nat, T # {}
  PROVE  \E x \in T : \A y \in T : x <= y
<1>1. PICK x \in T : \A y \in T : ~ (<<y, x>> \in OpToRel(<, Nat))
  BY NatLessThanWellFounded, WFMin
<1>2. \A y \in T : ~ (y < x)
  BY <1>1 DEF OpToRel
<1> QED BY <1>2

\* What is known of a request that has been answered.
LEMMA AnsweredType ==
  ASSUME TypeOK, NEW k, NEW a, NEW r \in Answered(k, a)
  PROVE  r \in Requests /\ arrived[r] \in Arrival /\ arrived[r].at \in Nat
BY DEF TypeOK, Answered, Arrival

\* The stamps that survive eviction are those of the window that ends now.
LEMMA KeptExact ==
  ASSUME TypeOK, Stamps, NEW k \in Key
  PROVE  Kept(k) = AdmittedIn(k, now)
BY DEF Kept, AdmittedIn, Stamps, Answered

\* Windows hold finitely many requests.
LEMMA WindowFinite ==
  ASSUME NEW k, NEW t
  PROVE  IsFiniteSet(AdmittedIn(k, t)) /\ Cardinality(AdmittedIn(k, t)) \in Nat
BY FS_Subset, FS_CardinalityType DEF AdmittedIn, Answered

\* A full key has an oldest stamp, still in the window: CHOOSE is defined.
LEMMA OldestKept ==
  ASSUME TypeOK, Stamps, NEW k \in Key, Full(k)
  PROVE  /\ Oldest(k) \in Kept(k)
         /\ \A x \in Kept(k) : arrived[Oldest(k)].at <= arrived[x].at
<1> DEFINE T == {arrived[r].at : r \in Kept(k)}
<1>1. Kept(k) # {}
  BY FS_EmptySet DEF Full, Key
<1>2. \A r \in Kept(k) : arrived[r].at \in Nat
  BY AnsweredType DEF Kept, Stamps
<1>3. T \in SUBSET Nat /\ T # {}
  BY <1>1, <1>2
<1>4. PICK t \in T : \A u \in T : t <= u
  BY <1>3, LeastNatural
<1>5. \E r \in Kept(k) : \A x \in Kept(k) : arrived[r].at <= arrived[x].at
  BY <1>4
<1> QED BY <1>5 DEF Oldest

\* Retry-After is a number of seconds, and by then the oldest stamp is gone.
LEMMA RetryAfterType ==
  ASSUME TypeOK, Stamps, NEW k \in Key, Full(k)
  PROVE  RetryAfter(k) \in Nat
<1>1. Oldest(k) \in Kept(k)
  BY OldestKept
<1>2. arrived[Oldest(k)].at \in Nat
  BY <1>1, AnsweredType DEF Kept, Stamps
<1>3. arrived[Oldest(k)].at + Window - now \in Nat
  BY <1>1, <1>2 DEF Kept, InWindow, TypeOK
<1> QED BY <1>3 DEF RetryAfter

-----------------------------------------------------------------------------
\* The limit of every path is a positive number.
LEMMA LimitType == ASSUME NEW k \in Key PROVE Limit[k[2]] \in Nat \ {0}
BY DEF Key

\* After an arrival only the answer of r has changed.
LEMMA ArriveKeepsOthers ==
  ASSUME TypeOK, NEW r \in Requests, NEW k \in Key, NEW a \in Answer,
         NEW n \in Nat, NEW S \in SUBSET Requests, Arrive(r, k, a, n, S)
  PROVE  /\ TypeOK'
         /\ \A j, b : Answered(j, b)' = IF j = k /\ b = a THEN Answered(j, b) \cup {r}
                                        ELSE Answered(j, b)
         /\ \A j, b : r \notin Answered(j, b)
         /\ \A q \in Requests : q # r => arrived'[q] = arrived[q]
         /\ arrived'[r].at = now /\ now' = now
<1>1. arrived'[r] = [key |-> k, at |-> now, answer |-> a, retry_after |-> n]
  BY DEF Arrive, TypeOK
<1>2. arrived'[r] \in Arrival
  BY <1>1 DEF Arrival, TypeOK
<1>3. arrived'[r] # NoRequest
  BY <1>2
<1>4. \A q \in Requests : q # r => arrived'[q] = arrived[q]
  BY DEF Arrive, TypeOK
<1>5. TypeOK'
  BY <1>2 DEF Arrive, TypeOK
<1> QED BY <1>1, <1>3, <1>4, <1>5 DEF Answered, Arrive

\* An arrival adds r to the windows that end now, if it is admitted, and
\* leaves every other window alone.
LEMMA ArriveKeepsWindows ==
  ASSUME TypeOK, NEW r \in Requests, NEW k \in Key, NEW a \in Answer,
         NEW n \in Nat, NEW S \in SUBSET Requests, Arrive(r, k, a, n, S),
         NEW j \in Key, NEW t \in Nat, t <= now
  PROVE  AdmittedIn(j, t)' = IF j = k /\ a = "admitted" /\ t = now
                             THEN AdmittedIn(j, t) \cup {r} ELSE AdmittedIn(j, t)
<1>1. /\ \A b : Answered(j, b)' = IF j = k /\ b = a THEN Answered(j, b) \cup {r}
                                  ELSE Answered(j, b)
      /\ \A b : r \notin Answered(j, b)
      /\ \A q \in Requests : q # r => arrived'[q] = arrived[q]
      /\ arrived'[r].at = now
  BY ArriveKeepsOthers
<1>2. \A q \in Answered(j, "admitted") : q \in Requests /\ arrived'[q] = arrived[q]
  BY <1>1, AnsweredType
<1>3. InWindow(r, t)' /\ (arrived'[r].at <= t <=> t = now)
  BY <1>1 DEF InWindow, TypeOK, Arrive
<1>4. \A q \in Answered(j, "admitted") : InWindow(q, t)' <=> InWindow(q, t)
  BY <1>2 DEF InWindow
<1>5. AdmittedIn(j, t)' = {q \in Answered(j, "admitted")' :
                             InWindow(q, t)' /\ arrived'[q].at <= t}
  BY DEF AdmittedIn
<1>6. CASE j = k /\ a = "admitted"
  BY <1>1, <1>2, <1>3, <1>4, <1>5, <1>6 DEF AdmittedIn
<1>7. CASE ~(j = k /\ a = "admitted")
  BY <1>1, <1>2, <1>4, <1>5, <1>7 DEF AdmittedIn
<1> QED BY <1>6, <1>7

-----------------------------------------------------------------------------
\* The invariant holds before the first request.
LEMMA IInvInit == Init => IInv
<1> SUFFICES ASSUME Init PROVE IInv
  OBVIOUS
<1>1. TypeOK
  BY DEF Init, TypeOK
<1>2. \A k, a : Answered(k, a) = {}
  BY DEF Init, Answered
<1>3. AtMostLimit
  BY <1>2, FS_EmptySet DEF AtMostLimit, AdmittedIn, Key
<1> QED BY <1>1, <1>2, <1>3 DEF IInv, Stamps, RefusedOnlyAtLimit, Init

\* An admitted request fits into the window that ends now.
LEMMA AdmitStep ==
  ASSUME IInv, NEW r \in Requests, NEW k \in Key, Admit(r, k)
  PROVE  IInv'
<1> USE DEF IInv
<1>1. Arrive(r, k, "admitted", 0, Kept(k) \cup {r}) /\ Kept(k) \cup {r} \in SUBSET Requests
  BY DEF Admit, Kept, TypeOK
<1>2. /\ TypeOK'
      /\ \A j, b : Answered(j, b)' = IF j = k /\ b = "admitted"
                                     THEN Answered(j, b) \cup {r} ELSE Answered(j, b)
      /\ \A j, b : r \notin Answered(j, b)
      /\ \A q \in Requests : q # r => arrived'[q] = arrived[q]
      /\ arrived'[r].at = now /\ now' = now
  BY <1>1, ArriveKeepsOthers DEF Answer
<1>3. Stamps'
  BY <1>1, <1>2 DEF Stamps, Arrive, TypeOK, Kept, InWindow, Answered
<1>4. \A j \in Key, t \in Nat :
        t <= now => AdmittedIn(j, t)' = IF j = k /\ t = now
                                        THEN AdmittedIn(j, t) \cup {r}
                                        ELSE AdmittedIn(j, t)
  BY <1>1, ArriveKeepsWindows DEF Answer
<1>5. Cardinality(AdmittedIn(k, now) \cup {r}) <= Limit[k[2]]
  <2>1. r \notin AdmittedIn(k, now)
    BY <1>2 DEF AdmittedIn
  <2>2. Cardinality(AdmittedIn(k, now)) < Limit[k[2]]
    BY KeptExact, WindowFinite, LimitType DEF Admit, Full
  <2>3. Cardinality(AdmittedIn(k, now) \cup {r}) = Cardinality(AdmittedIn(k, now)) + 1
    BY <2>1, WindowFinite, FS_AddElement
  <2> QED BY <2>2, <2>3, WindowFinite, LimitType
<1>6. AtMostLimit'
  <2> SUFFICES ASSUME NEW j \in Key, NEW t \in 0..now
               PROVE  Cardinality(AdmittedIn(j, t)') <= Limit[j[2]]
    BY <1>2 DEF AtMostLimit
  <2>1. t \in Nat /\ t <= now /\ Cardinality(AdmittedIn(j, t)) <= Limit[j[2]]
    BY DEF AtMostLimit, TypeOK
  <2>2. CASE j = k /\ t = now
    BY <1>4, <1>5, <2>1, <2>2
  <2>3. CASE ~(j = k /\ t = now)
    BY <1>4, <2>1, <2>3
  <2> QED BY <2>2, <2>3
<1>7. RefusedOnlyAtLimit'
  <2> SUFFICES ASSUME NEW j \in Key, NEW q \in Answered(j, "refused")'
               PROVE  Cardinality(AdmittedIn(j, arrived[q].at)') >= Limit[j[2]]
    BY DEF RefusedOnlyAtLimit, Answered
  <2>1. q \in Answered(j, "refused") /\ q # r /\ arrived'[q] = arrived[q]
    BY <1>2, AnsweredType
  <2>2. arrived[q].at \in Nat /\ arrived[q].at <= now
    BY <2>1, AnsweredType DEF Stamps, Answered
  <2>3. Cardinality(AdmittedIn(j, arrived[q].at)) >= Limit[j[2]]
    BY <2>1, AnsweredType DEF RefusedOnlyAtLimit
  <2>4. AdmittedIn(j, arrived[q].at) \in SUBSET (AdmittedIn(j, arrived[q].at)')
    BY <1>4, <2>1, <2>2
  <2>5. IsFiniteSet(AdmittedIn(j, arrived[q].at)')
    BY FS_Subset DEF AdmittedIn, Answered
  <2>6. Cardinality(AdmittedIn(j, arrived[q].at)) <= Cardinality(AdmittedIn(j, arrived[q].at)')
    BY <2>4, <2>5, FS_Subset
  <2>7. Cardinality(AdmittedIn(j, arrived[q].at)') \in Nat
    BY <2>5, FS_CardinalityType
  <2> QED BY <2>3, <2>6, <2>7, WindowFinite, LimitType
<1> QED BY <1>2, <1>3, <1>6, <1>7

\* A refused request changes no window, and finds its own full.
LEMMA RefuseStep ==
  ASSUME IInv, NEW r \in Requests, NEW k \in Key, Refuse(r, k)
  PROVE  IInv'
<1> USE DEF IInv
<1>1. /\ Arrive(r, k, "refused", RetryAfter(k), Kept(k)) /\ Kept(k) \in SUBSET Requests
      /\ RetryAfter(k) \in Nat
  BY RetryAfterType DEF Refuse, Kept, TypeOK
<1>2. /\ TypeOK'
      /\ \A j, b : Answered(j, b)' = IF j = k /\ b = "refused"
                                     THEN Answered(j, b) \cup {r} ELSE Answered(j, b)
      /\ \A j, b : r \notin Answered(j, b)
      /\ \A q \in Requests : q # r => arrived'[q] = arrived[q]
      /\ arrived'[r].at = now /\ now' = now
  BY <1>1, ArriveKeepsOthers DEF Answer
<1>3. Stamps'
  BY <1>1, <1>2 DEF Stamps, Arrive, TypeOK, Kept, InWindow, Answered
<1>4. \A j \in Key, t \in Nat : t <= now => AdmittedIn(j, t)' = AdmittedIn(j, t)
  BY <1>1, ArriveKeepsWindows DEF Answer
<1>5. AtMostLimit'
  BY <1>2, <1>4 DEF AtMostLimit, TypeOK
<1>6. RefusedOnlyAtLimit'
  <2> SUFFICES ASSUME NEW j \in Key, NEW q \in Answered(j, "refused")'
               PROVE  Cardinality(AdmittedIn(j, arrived[q].at)') >= Limit[j[2]]
    BY DEF RefusedOnlyAtLimit, Answered
  <2>1. CASE q = r
    <3>1. j = k
      BY <1>2, <2>1
    <3>2. AdmittedIn(j, arrived[q].at)' = Kept(k)
      BY <1>2, <1>4, <2>1, <3>1, KeptExact DEF TypeOK
    <3> QED BY <3>1, <3>2 DEF Refuse, Full
  <2>2. CASE q # r
    <3>1. q \in Answered(j, "refused") /\ arrived'[q] = arrived[q]
      BY <1>2, <2>2, AnsweredType
    <3>2. arrived[q].at \in Nat /\ arrived[q].at <= now
      BY <3>1, AnsweredType DEF Stamps, Answered
    <3>3. AdmittedIn(j, arrived[q].at)' = AdmittedIn(j, arrived[q].at)
      BY <1>4, <3>1, <3>2
    <3> QED BY <3>1, <3>3, AnsweredType DEF RefusedOnlyAtLimit
  <2> QED BY <2>1, <2>2
<1> QED BY <1>2, <1>3, <1>5, <1>6

\* A request that passes by leaves no stamp, and every window as it is.
LEMMA PassByStep ==
  ASSUME IInv, NEW r \in Requests, NEW k \in Key, PassBy(r, k)
  PROVE  IInv'
<1> USE DEF IInv
<1>1. Arrive(r, k, "passed", 0, counters[k]) /\ counters[k] \in SUBSET Requests
  BY DEF PassBy, TypeOK
<1>2. /\ TypeOK'
      /\ \A j, b : b # "passed" => Answered(j, b)' = Answered(j, b)
      /\ \A j, b : r \notin Answered(j, b)
      /\ \A q \in Requests : q # r => arrived'[q] = arrived[q]
      /\ arrived'[r].at = now /\ now' = now
  BY <1>1, ArriveKeepsOthers DEF Answer
<1>3. Stamps'
  <2>1. \A j \in Key : counters'[j] = counters[j]
    BY <1>1 DEF Arrive, TypeOK
  <2> QED BY <1>2, <2>1 DEF Stamps, TypeOK, InWindow, Answered
<1>4. \A j \in Key, t \in Nat : t <= now => AdmittedIn(j, t)' = AdmittedIn(j, t)
  BY <1>1, ArriveKeepsWindows DEF Answer
<1>5. AtMostLimit'
  BY <1>2, <1>4 DEF AtMostLimit, TypeOK
<1>6. RefusedOnlyAtLimit'
  <2> SUFFICES ASSUME NEW j \in Key, NEW q \in Answered(j, "refused")'
               PROVE  Cardinality(AdmittedIn(j, arrived[q].at)') >= Limit[j[2]]
    BY DEF RefusedOnlyAtLimit, Answered
  <2>1. q \in Answered(j, "refused") /\ q # r /\ arrived'[q] = arrived[q]
    BY <1>2, AnsweredType
  <2>2. arrived[q].at \in Nat /\ arrived[q].at <= now
    BY <2>1, AnsweredType DEF Stamps, Answered
  <2>3. AdmittedIn(j, arrived[q].at)' = AdmittedIn(j, arrived[q].at)
    BY <1>4, <2>1, <2>2
  <2> QED BY <2>1, <2>3, AnsweredType DEF RefusedOnlyAtLimit
<1> QED BY <1>2, <1>3, <1>5, <1>6

\* The window that ends a tick later holds no more than the one before.
LEMMA TickStep ==
  ASSUME IInv, Tick
  PROVE  IInv'
<1> USE DEF IInv
<1>1. now' = now + 1 /\ arrived' = arrived /\ counters' = counters /\ now \in Nat
  BY DEF Tick, TypeOK
<1>2. TypeOK'
  BY <1>1 DEF TypeOK
<1>3. \A j, b : Answered(j, b)' = Answered(j, b)
  BY <1>1 DEF Answered
<1>4. \A j, t : AdmittedIn(j, t)' = AdmittedIn(j, t)
  BY <1>1, <1>3 DEF AdmittedIn, InWindow
<1>5. Stamps'
  <2>1. \A q \in Requests : arrived[q] # NoRequest => arrived[q].at \in Nat
    BY DEF TypeOK, Arrival
  <2>2. \A q \in Requests : arrived[q] # NoRequest /\ InWindow(q, now)' => InWindow(q, now)
    BY <1>1, <2>1 DEF InWindow
  <2> QED BY <1>1, <1>3, <2>1, <2>2 DEF Stamps, Answered
<1>6. AtMostLimit'
  <2> SUFFICES ASSUME NEW j \in Key, NEW t \in 0..(now + 1)
               PROVE  Cardinality(AdmittedIn(j, t)) <= Limit[j[2]]
    BY <1>1, <1>4 DEF AtMostLimit
  <2>1. CASE t <= now
    BY <2>1, <1>1 DEF AtMostLimit
  <2>2. CASE t = now + 1
    <3>0. \A q \in Answered(j, "admitted") : arrived[q].at \in Nat /\ arrived[q].at <= now
      BY AnsweredType DEF Stamps, Answered
    <3>1. AdmittedIn(j, t) \in SUBSET AdmittedIn(j, now)
      BY <1>1, <2>2, <3>0 DEF AdmittedIn, InWindow
    <3>2. Cardinality(AdmittedIn(j, t)) <= Cardinality(AdmittedIn(j, now))
      BY <3>1, WindowFinite, FS_Subset
    <3>3. Cardinality(AdmittedIn(j, now)) <= Limit[j[2]]
      BY <1>1 DEF AtMostLimit
    <3> QED BY <3>2, <3>3, WindowFinite, LimitType
  <2> QED BY <2>1, <2>2, <1>1
<1>7. RefusedOnlyAtLimit'
  BY <1>1, <1>3, <1>4 DEF RefusedOnlyAtLimit
<1> QED BY <1>2, <1>5, <1>6, <1>7

\* Nothing but the windows and the requests is in the invariant.
LEMMA StutterStep ==
  ASSUME IInv, UNCHANGED vars
  PROVE  IInv'
BY DEF IInv, TypeOK, Stamps, AtMostLimit, RefusedOnlyAtLimit, vars, Answered, AdmittedIn,
       InWindow

\* The invariant holds in every reachable state.
LEMMA IInvCorrect == Spec => []IInv
<1>1. IInv /\ [Next]_vars => IInv'
  BY AdmitStep, RefuseStep, PassByStep, TickStep, StutterStep DEF Next
<1> QED BY IInvInit, <1>1, PTL DEF Spec

-----------------------------------------------------------------------------
(* Retry-After.                                                            *)

\* int(x) + 1 seconds are more than x.
LEMMA RoundedUp ==
  ASSUME NEW x \in Nat, NEW s \in Nat \ {0}
  PROVE  x < s * (x \div s + 1)
BY SMTT(30)

\* A refused request was told to wait until some request that filled its
\* window has left it.
RetryInv ==
  \A k \in Key : \A r \in Answered(k, "refused") :
    \E o \in AdmittedIn(k, arrived[r].at) :
      arrived[o].at + Window < arrived[r].at + Second * arrived[r].retry_after

\* What refusals said before an arrival stays true.
LEMMA RetryKept ==
  ASSUME IInv, RetryInv, NEW r \in Requests, NEW k \in Key, NEW a \in Answer,
         NEW n \in Nat, NEW S \in SUBSET Requests, Arrive(r, k, a, n, S),
         NEW j \in Key, NEW q \in Answered(j, "refused")
  PROVE  \E o \in AdmittedIn(j, arrived[q].at)' :
           arrived'[o].at + Window < arrived'[q].at + Second * arrived'[q].retry_after
<1>1. /\ \A i, b : r \notin Answered(i, b)
      /\ \A p \in Requests : p # r => arrived'[p] = arrived[p]
  BY ArriveKeepsOthers DEF IInv
<1>2. q \in Requests /\ arrived'[q] = arrived[q] /\ arrived[q].at \in Nat
  BY <1>1, AnsweredType DEF IInv
<1>3. arrived[q].at <= now
  BY <1>2 DEF IInv, Stamps, Answered
<1>4. AdmittedIn(j, arrived[q].at) \subseteq AdmittedIn(j, arrived[q].at)'
  BY <1>2, <1>3, ArriveKeepsWindows DEF IInv
<1>5. PICK o \in AdmittedIn(j, arrived[q].at) :
        arrived[o].at + Window < arrived[q].at + Second * arrived[q].retry_after
  BY DEF RetryInv
<1>6. arrived'[o] = arrived[o]
  BY <1>1, AnsweredType DEF IInv, AdmittedIn
<1> QED BY <1>2, <1>4, <1>5, <1>6

\* An admission keeps what is known of the Retry-After answers.
LEMMA RetryAdmit ==
  ASSUME IInv, RetryInv, NEW r \in Requests, NEW k \in Key, Admit(r, k)
  PROVE  RetryInv'
<1>1. Arrive(r, k, "admitted", 0, Kept(k) \cup {r}) /\ Kept(k) \cup {r} \in SUBSET Requests
  BY DEF Admit, Kept, IInv, TypeOK
<1>2. \A j : Answered(j, "refused")' = Answered(j, "refused")
  BY <1>1, ArriveKeepsOthers DEF Answer, IInv
<1> QED BY <1>1, <1>2, RetryKept DEF RetryInv, Answer

\* A refusal keeps it: its Retry-After is computed from the window it found full.
LEMMA RetryRefuse ==
  ASSUME IInv, RetryInv, NEW r \in Requests, NEW k \in Key, Refuse(r, k)
  PROVE  RetryInv'
<1>1. /\ Arrive(r, k, "refused", RetryAfter(k), Kept(k)) /\ Kept(k) \in SUBSET Requests
      /\ RetryAfter(k) \in Nat
  BY RetryAfterType DEF Refuse, Kept, IInv, TypeOK
<1>2. /\ \A j : Answered(j, "refused")' = IF j = k THEN Answered(j, "refused") \cup {r}
                                          ELSE Answered(j, "refused")
      /\ \A j, b : r \notin Answered(j, b)
      /\ \A q \in Requests : q # r => arrived'[q] = arrived[q]
  BY <1>1, ArriveKeepsOthers DEF Answer, IInv
<1>3. arrived'[r].at = now /\ arrived'[r].retry_after = RetryAfter(k)
  BY <1>1 DEF Arrive, IInv, TypeOK
<1> DEFINE o == Oldest(k)
<1>4. o \in AdmittedIn(k, now) /\ o \in Kept(k)
  BY OldestKept, KeptExact DEF Refuse, IInv
<1>5. arrived[o].at \in Nat /\ now \in Nat /\ o # r /\ arrived'[o] = arrived[o]
  BY <1>2, <1>4, AnsweredType DEF AdmittedIn, IInv, TypeOK
<1>6. arrived[o].at + Window - now \in Nat
  BY <1>4, <1>5 DEF Kept, InWindow
<1>7. arrived[o].at + Window - now < Second * RetryAfter(k)
  BY <1>6, RoundedUp DEF RetryAfter
<1>8. Second * RetryAfter(k) \in Nat
  BY <1>1
<1>9. arrived'[o].at + Window < arrived'[r].at + Second * arrived'[r].retry_after
  BY <1>3, <1>5, <1>7, <1>8
<1>10. o \in AdmittedIn(k, arrived[r].at)'
  BY <1>1, <1>3, <1>4, <1>5, ArriveKeepsWindows DEF Answer, IInv
<1> QED BY <1>1, <1>2, <1>9, <1>10, RetryKept DEF RetryInv, Answer

\* A request that passes by was told nothing.
LEMMA RetryPassBy ==
  ASSUME IInv, RetryInv, NEW r \in Requests, NEW k \in Key, PassBy(r, k)
  PROVE  RetryInv'
<1>1. Arrive(r, k, "passed", 0, counters[k]) /\ counters[k] \in SUBSET Requests
  BY DEF PassBy, IInv, TypeOK
<1>2. \A j : Answered(j, "refused")' = Answered(j, "refused")
  BY <1>1, ArriveKeepsOthers DEF Answer, IInv
<1> QED BY <1>1, <1>2, RetryKept DEF RetryInv, Answer

\* Every step keeps it.
LEMMA RetryStep == IInv /\ RetryInv /\ [Next]_vars => RetryInv'
<1> SUFFICES ASSUME IInv, RetryInv, [Next]_vars PROVE RetryInv'
  OBVIOUS
<1>1. CASE Tick \/ UNCHANGED vars
  <2>1. arrived' = arrived
    BY <1>1 DEF Tick, vars
  <2> QED BY <2>1 DEF RetryInv, Answered, AdmittedIn, InWindow
<1> QED BY <1>1, RetryAdmit, RetryRefuse, RetryPassBy DEF Next

\* If nobody was admitted since, the window of the second refusal would lack
\* the request that the first refusal was told to wait for.
LEMMA RetryInvSuffices == IInv /\ RetryInv => RetryAfterSuffices
<1> SUFFICES ASSUME IInv, RetryInv, NEW k \in Key,
                    NEW r \in Answered(k, "refused"), NEW s \in Answered(k, "refused"),
                    arrived[s].at >= arrived[r].at + Second * arrived[r].retry_after,
                    ~ \E x \in Answered(k, "admitted") :
                        arrived[x].at > arrived[r].at /\ arrived[x].at <= arrived[s].at
             PROVE  FALSE
  BY DEF RetryAfterSuffices
<1> DEFINE A == arrived[r].at
           T == arrived[s].at
           d == Second * arrived[r].retry_after
<1>1. A \in Nat /\ T \in Nat /\ A <= now /\ T <= now /\ arrived[r].retry_after \in Nat
  BY AnsweredType DEF IInv, Stamps, Answered, Arrival
<1>2. d \in Nat
  BY <1>1
<1>3. PICK o \in AdmittedIn(k, A) : arrived[o].at + Window < A + d
  BY DEF RetryInv
<1>4. \A q \in Answered(k, "admitted") : arrived[q].at \in Nat
                                      /\ ~(arrived[q].at > A /\ arrived[q].at <= T)
  BY AnsweredType DEF IInv
<1>5. arrived[o].at \in Nat
  BY <1>3, <1>4 DEF AdmittedIn
<1>6. AdmittedIn(k, T) \in SUBSET (AdmittedIn(k, A) \ {o})
  BY <1>1, <1>2, <1>3, <1>4, <1>5 DEF AdmittedIn, InWindow
<1>7. Cardinality(AdmittedIn(k, A) \ {o}) = Cardinality(AdmittedIn(k, A)) - 1
  BY <1>3, WindowFinite, FS_RemoveElement
<1>8. Cardinality(AdmittedIn(k, T)) <= Cardinality(AdmittedIn(k, A) \ {o})
  BY <1>6, WindowFinite, FS_Subset, FS_RemoveElement
<1>9. Cardinality(AdmittedIn(k, A)) <= Limit[k[2]]
  BY <1>1 DEF IInv, AtMostLimit, TypeOK
<1>10. Cardinality(AdmittedIn(k, T)) >= Limit[k[2]]
  BY AnsweredType DEF IInv, RefusedOnlyAtLimit
<1> QED BY <1>7, <1>8, <1>9, <1>10, WindowFinite, LimitType

-----------------------------------------------------------------------------
(* Theorems.                                                               *)

\* The variables keep their types; in particular Retry-After is never
\* negative and always defined.
THEOREM TypeCorrect == Spec => []TypeOK
BY IInvCorrect, PTL DEF IInv

\* Of the requests that come to it, dispatch never admits more than Limit of a
\* client in any window, whichever others pass it by, for every limit and every
\* window length.
THEOREM DispatchAdmitsAtMostLimit == Spec => []AtMostLimit
BY IInvCorrect, PTL DEF IInv

\* Dispatch refuses nobody while it has admitted fewer than Limit in the window.
THEOREM RefusedOnlyAtLimitAlways == Spec => []RefusedOnlyAtLimit
BY IInvCorrect, PTL DEF IInv

\* A client that waits as long as Retry-After says finds room, unless another
\* request of its own was admitted meanwhile.
THEOREM RetryAfterSufficesAlways == Spec => []RetryAfterSuffices
<1>1. Init => RetryInv
  BY DEF Init, RetryInv, Answered
<1> QED BY <1>1, IInvCorrect, RetryStep, RetryInvSuffices, PTL DEF Spec
=============================================================================
