-------------------------- MODULE Broadcast_proofs --------------------------
(***************************************************************************)
(* Theorems about Broadcast, for any number of sockets, users, alerts and  *)
(* lists.                                                                  *)
(*                                                                         *)
(* The argument: a connected socket has one place in the table (Tidy), and *)
(* places only move towards the front.  So what lies ahead of a broadcast  *)
(* has not been told yet (Ahead), and behind one that nothing disturbs all *)
(* has been (Behind).                                                      *)
(***************************************************************************)
EXTENDS Broadcast, FiniteSetTheorems, SequenceTheorems, WellFoundedInduction, TLAPS

-----------------------------------------------------------------------------
(* The table of connections.                                               *)

Connected(s) == s \in Up \/ socket[s] = "gone"

\* The socket s is the k-th of list i.
At(i, k, s) ==
  i \in DOMAIN lists /\ k \in DOMAIN lists[i].socks /\ lists[i].socks[k] = s

\* A list is listed while it is not empty, and a user has one such list.
Lists ==
  /\ lists \in Seq(List)
  /\ \A i \in DOMAIN lists : lists[i].listed <=> lists[i].socks # <<>>
  /\ \A i, j \in Listed : lists[i].user = lists[j].user => i = j

\* The connected sockets have one place each, and nothing else has.
Places ==
  /\ \A s \in Sockets : Connected(s) <=> \E i, k : At(i, k, s)
  /\ \A s : \A i, j, k, l : At(i, k, s) /\ At(j, l, s) => i = j /\ k = l

Tidy == socket \in [Sockets -> SocketState] /\ Lists /\ Places

\* Where a socket is after a change of the table: where it was or further to the
\* front, unless it is new.
Shifts ==
  \A i, k, s : At(i, k, s)' =>
    /\ k \in Nat /\ s \in Sockets
    /\ socket[s] = "new" \/ \E m \in Nat : m >= k /\ At(i, m, s)

\* The lists and their sockets.
LEMMA ListFacts ==
  ASSUME lists \in Seq(List)
  PROVE  /\ Len(lists) \in Nat /\ DOMAIN lists = 1..Len(lists)
         /\ \A i \in DOMAIN lists :
              /\ lists[i].user \in Users /\ lists[i].listed \in BOOLEAN
              /\ lists[i].socks \in Seq(Sockets)
              /\ Len(lists[i].socks) \in Nat
              /\ DOMAIN lists[i].socks = 1..Len(lists[i].socks)
              /\ \A k \in DOMAIN lists[i].socks : lists[i].socks[k] \in Sockets
<1>1. Len(lists) \in Nat /\ DOMAIN lists = 1..Len(lists)
  OBVIOUS
<1>2. ASSUME NEW i \in DOMAIN lists
      PROVE  /\ lists[i].user \in Users /\ lists[i].listed \in BOOLEAN
             /\ lists[i].socks \in Seq(Sockets)
  <2>1. lists[i] \in List
    BY <1>2
  <2> QED
    BY <2>1 DEF List
<1>3. ASSUME NEW q \in Seq(Sockets)
      PROVE  /\ Len(q) \in Nat /\ DOMAIN q = 1..Len(q)
             /\ \A k \in DOMAIN q : q[k] \in Sockets
  OBVIOUS
<1> QED
  BY <1>1, <1>2, <1>3

\* What removing the k-th socket leaves.
LEMMA Removed ==
  ASSUME NEW S, NEW q \in Seq(S), NEW k \in 1..Len(q)
  PROVE  /\ RemoveAt(q, k) \in Seq(S) /\ Len(RemoveAt(q, k)) = Len(q) - 1
         /\ \A l \in 1..(Len(q) - 1) : RemoveAt(q, k)[l] = IF l < k THEN q[l] ELSE q[l + 1]
<1>1. PICK a, b : a = SubSeq(q, 1, k - 1) /\ b = SubSeq(q, k + 1, Len(q))
  OBVIOUS
<1>2. Len(q) \in Nat /\ k \in Int /\ 1 <= k /\ k <= Len(q)
  OBVIOUS
<1>3. /\ a \in Seq(S) /\ Len(a) = k - 1
      /\ \A l \in 1..(k - 1) : a[l] = q[l]
  BY <1>1, <1>2, SubSeqProperties
<1>4. /\ b \in Seq(S) /\ Len(b) = Len(q) - k
      /\ \A l \in 1..(Len(q) - k) : b[l] = q[k + l]
  BY <1>1, <1>2, SubSeqProperties
<1>5. RemoveAt(q, k) = a \o b
  BY <1>1 DEF RemoveAt
<1>6. /\ a \o b \in Seq(S) /\ Len(a \o b) = Len(a) + Len(b)
      /\ \A l \in 1..(Len(a) + Len(b)) :
           (a \o b)[l] = IF l <= Len(a) THEN a[l] ELSE b[l - Len(a)]
  BY <1>3, <1>4, ConcatProperties
<1>7. ASSUME NEW l \in 1..(Len(q) - 1)
      PROVE  (a \o b)[l] = IF l < k THEN q[l] ELSE q[l + 1]
  <2>1. CASE l < k
    BY <1>2, <1>3, <1>4, <1>6, <2>1
  <2>2. CASE ~(l < k)
    <3>1. PICK n : n = l - (k - 1)
      OBVIOUS
    <3>2. n \in 1..(Len(q) - k) /\ k + n = l + 1 /\ ~(l <= k - 1)
      BY <1>2, <2>2, <3>1
    <3>3. (a \o b)[l] = b[n]
      BY <1>2, <1>3, <1>4, <1>6, <3>1, <3>2
    <3> QED
      BY <1>4, <2>2, <3>2, <3>3
  <2> QED
    BY <2>1, <2>2
<1> QED
  BY <1>2, <1>3, <1>4, <1>5, <1>6, <1>7

\* A place is that of a socket, and its list is listed.
LEMMA PlaceFacts ==
  ASSUME Lists, NEW i, NEW k, NEW s, At(i, k, s)
  PROVE  /\ i \in Listed /\ i \in Nat \ {0} /\ k \in Nat \ {0} /\ s \in Sockets
         /\ k <= Len(lists[i].socks)
<1>1. /\ i \in DOMAIN lists /\ k \in DOMAIN lists[i].socks /\ lists[i].socks[k] = s
      /\ lists \in Seq(List) /\ (lists[i].listed <=> lists[i].socks # <<>>)
  BY DEF At, Lists
<1>2. lists[i].socks # <<>>
  BY <1>1, ListFacts
<1> QED
  BY <1>1, <1>2, ListFacts DEF Listed

\* A new place at the end of a list: everything else stays.
LEMMA PlaceAdded ==
  ASSUME Tidy, NEW s \in Sockets, socket[s] = "new",
         socket' = [socket EXCEPT ![s] = "open"], NEW i, NEW k \in Nat,
         \A x : ~At(i, k, x),
         \A j, m, x : At(j, m, x)' <=> At(j, m, x) \/ (j = i /\ m = k /\ x = s)
  PROVE  Places' /\ Shifts
<1>1. socket \in [Sockets -> SocketState] /\ Lists /\ Places
  BY DEF Tidy
<1>2. \A x \in Sockets : Connected(x)' <=> Connected(x) \/ x = s
  BY <1>1 DEF Connected, Up
<1>3. ~Connected(s)
  BY DEF Connected, Up
<1>4. \A j, m : ~At(j, m, s)
  BY <1>1, <1>3 DEF Places
<1>5. ASSUME NEW x \in Sockets
      PROVE  Connected(x)' <=> \E j, m : At(j, m, x)'
  <2>1. CASE x = s
    BY <1>2, <2>1
  <2>2. CASE x # s
    BY <1>1, <1>2, <2>2 DEF Places
  <2> QED
    BY <2>1, <2>2
<1>6. ASSUME NEW x, NEW j, NEW h, NEW m, NEW l, At(j, m, x)', At(h, l, x)'
      PROVE  j = h /\ m = l
  <2>1. CASE x = s
    BY <1>4, <1>6, <2>1
  <2>2. CASE x # s
    <3>1. At(j, m, x) /\ At(h, l, x)
      BY <1>6, <2>2
    <3> QED
      BY <1>1, <3>1 DEF Places
  <2> QED
    BY <2>1, <2>2
<1>7. Places'
  BY <1>5, <1>6 DEF Places
<1>8. ASSUME NEW j, NEW m, NEW x, At(j, m, x)'
      PROVE  /\ m \in Nat /\ x \in Sockets
             /\ socket[x] = "new" \/ \E l \in Nat : l >= m /\ At(j, l, x)
  <2>1. CASE x = s /\ m = k
    BY <2>1
  <2>2. CASE At(j, m, x)
    <3>1. m \in Nat /\ x \in Sockets
      BY <1>1, <2>2, PlaceFacts
    <3> QED
      BY <2>2, <3>1
  <2> QED
    BY <1>8, <2>1, <2>2
<1>9. Shifts
  BY <1>8 DEF Shifts
<1> QED
  BY <1>7, <1>9

\* A place that is given up: those behind it in the list move up.
LEMMA PlaceGivenUp ==
  ASSUME Tidy, NEW s \in Sockets, socket[s] = "gone",
         socket' = [socket EXCEPT ![s] = "closed"],
         NEW i, NEW k, At(i, k, s),
         \A j, m, x : At(j, m, x)' <=>
           \/ j # i /\ At(j, m, x)
           \/ j = i /\ m \in Nat \ {0} /\ m < k /\ At(i, m, x)
           \/ j = i /\ m \in Nat \ {0} /\ m >= k /\ At(i, m + 1, x)
  PROVE  Places' /\ Shifts
<1>1. socket \in [Sockets -> SocketState] /\ Lists /\ Places
  BY DEF Tidy
<1>2. \A x \in Sockets : Connected(x)' <=> Connected(x) /\ x # s
  BY <1>1 DEF Connected, Up
<1>3. k \in Nat \ {0}
  BY <1>1, PlaceFacts
<1>4. ASSUME NEW j, NEW m, NEW x, At(j, m, x)'
      PROVE  /\ m \in Nat /\ x # s /\ x \in Sockets
             /\ \E l \in Nat : /\ l >= m /\ At(j, l, x)
                             /\ l = IF j = i /\ m >= k THEN m + 1 ELSE m
  <2>1. CASE j # i
    <3>1. At(j, m, x)
      BY <1>4, <2>1
    <3>2. m \in Nat /\ x \in Sockets
      BY <1>1, <3>1, PlaceFacts
    <3>3. x # s
      BY <1>1, <2>1, <3>1 DEF Places
    <3> QED
      BY <2>1, <3>1, <3>2, <3>3
  <2>2. CASE j = i /\ m \in Nat \ {0} /\ m < k /\ At(i, m, x)
    <3>1. x # s
      BY <1>1, <1>3, <2>2 DEF Places
    <3>2. x \in Sockets
      BY <1>1, <2>2, PlaceFacts
    <3> QED
      BY <1>3, <2>2, <3>1, <3>2
  <2>3. CASE j = i /\ m \in Nat \ {0} /\ m >= k /\ At(i, m + 1, x)
    <3>1. PICK l : l = m + 1
      OBVIOUS
    <3>2. l \in Nat /\ l > k /\ l >= m /\ At(i, l, x)
      BY <1>3, <2>3, <3>1
    <3>3. x # s
      BY <1>1, <1>3, <3>2 DEF Places
    <3>4. x \in Sockets
      BY <1>1, <3>2, PlaceFacts
    <3> QED
      BY <2>3, <3>1, <3>2, <3>3, <3>4
  <2> QED
    BY <1>4, <2>1, <2>2, <2>3
<1>5. ASSUME NEW x \in Sockets, x # s, NEW j, NEW l, At(j, l, x)
      PROVE  \E m : At(j, m, x)'
  <2>1. l \in Nat \ {0}
    BY <1>1, <1>5, PlaceFacts
  <2>2. CASE j # i \/ l < k
    BY <1>5, <2>1, <2>2
  <2>3. CASE j = i /\ l = k
    BY <1>5, <2>3 DEF At
  <2>4. CASE j = i /\ l > k
    <3>1. PICK m : m = l - 1
      OBVIOUS
    <3>2. m \in Nat \ {0} /\ m >= k /\ m + 1 = l
      BY <1>3, <2>1, <2>4, <3>1
    <3>3. At(j, m, x)'
      BY <1>5, <2>4, <3>2
    <3> QED
      BY <3>3
  <2> QED
    BY <1>3, <2>1, <2>2, <2>3, <2>4
<1>6. ASSUME NEW x \in Sockets
      PROVE  Connected(x)' <=> \E j, m : At(j, m, x)'
  <2>1. ASSUME NEW j, NEW m, At(j, m, x)'
        PROVE  Connected(x)'
    BY <1>1, <1>2, <1>4, <2>1 DEF Places
  <2>2. ASSUME Connected(x)'
        PROVE  \E j, m : At(j, m, x)'
    <3>1. PICK j, l : At(j, l, x)
      BY <1>1, <1>2, <2>2 DEF Places
    <3> QED
      BY <1>2, <1>5, <2>2, <3>1
  <2> QED
    BY <2>1, <2>2
<1>7. ASSUME NEW x, NEW j, NEW h, NEW m, NEW l, At(j, m, x)', At(h, l, x)'
      PROVE  j = h /\ m = l
  <2>1. PICK a \in Nat : At(j, a, x) /\ a = IF j = i /\ m >= k THEN m + 1 ELSE m
    BY <1>4, <1>7
  <2>2. PICK b \in Nat : At(h, b, x) /\ b = IF h = i /\ l >= k THEN l + 1 ELSE l
    BY <1>4, <1>7
  <2>3. j = h /\ a = b
    BY <1>1, <2>1, <2>2 DEF Places
  <2>4. m \in Nat /\ l \in Nat
    BY <1>4, <1>7
  <2> QED
    BY <1>3, <2>1, <2>2, <2>3, <2>4
<1>8. Places'
  BY <1>6, <1>7 DEF Places
<1>9. Shifts
  BY <1>4 DEF Shifts
<1> QED
  BY <1>8, <1>9

\* A connection joins the list of its user, or makes one.
LEMMA ConnectTidy ==
  ASSUME Tidy, NEW s \in Sockets, NEW u \in Users, Connect(s, u)
  PROVE  Tidy' /\ Shifts /\ DOMAIN lists \subseteq DOMAIN lists'
<1>1. /\ socket \in [Sockets -> SocketState] /\ lists \in Seq(List)
      /\ \A i \in DOMAIN lists : lists[i].listed <=> lists[i].socks # <<>>
      /\ \A i, j \in Listed : lists[i].user = lists[j].user => i = j
  BY DEF Tidy, Lists
<1>2. socket[s] = "new" /\ socket' = [socket EXCEPT ![s] = "open"]
  BY DEF Connect
<1>3. socket' \in [Sockets -> SocketState]
  BY <1>1, <1>2 DEF SocketState
<1>4. /\ Len(lists) \in Nat /\ DOMAIN lists = 1..Len(lists)
      /\ \A i \in DOMAIN lists :
           /\ lists[i].user \in Users /\ lists[i].listed \in BOOLEAN
           /\ lists[i].socks \in Seq(Sockets)
           /\ Len(lists[i].socks) \in Nat
           /\ DOMAIN lists[i].socks = 1..Len(lists[i].socks)
           /\ \A k \in DOMAIN lists[i].socks : lists[i].socks[k] \in Sockets
  BY <1>1, ListFacts
<1>5. ASSUME NEW i \in OfUser(u), lists' = [lists EXCEPT ![i].socks = Added(s, @)]
      PROVE  Tidy' /\ Shifts /\ DOMAIN lists \subseteq DOMAIN lists'
  <2>1. i \in DOMAIN lists /\ lists[i].listed
    BY DEF OfUser, Listed
  <2>2. PICK q, n : q = lists[i].socks /\ n = Len(q)
    OBVIOUS
  <2>3. PICK p : p = Append(q, s)
    OBVIOUS
  <2>4. /\ q \in Seq(Sockets) /\ n \in Nat /\ DOMAIN q = 1..n
        /\ p \in Seq(Sockets) /\ DOMAIN p = 1..(n + 1) /\ p[n + 1] = s /\ p # <<>>
        /\ \A k \in 1..n : p[k] = q[k]
    BY <1>4, <2>1, <2>2, <2>3
  <2>5. PICK r : r = [user |-> lists[i].user, socks |-> p, listed |-> lists[i].listed]
    OBVIOUS
  <2>6. r \in List
    BY <1>4, <2>1, <2>4, <2>5 DEF List
  <2>7. lists' = [lists EXCEPT ![i] = r]
    <3>1. lists[i] \in List
      BY <1>1, <2>1
    <3>2. [lists[i] EXCEPT !.socks = p] = r
      BY <2>5, <3>1 DEF List
    <3>3. lists' = [lists EXCEPT ![i] = [lists[i] EXCEPT !.socks = p]]
      BY <1>1, <1>5, <2>1, <2>2, <2>3 DEF Added
    <3> QED
      BY <3>2, <3>3
  <2>8. /\ lists' \in Seq(List) /\ DOMAIN lists' = DOMAIN lists /\ Len(lists') = Len(lists)
        /\ lists'[i] = r /\ \A j \in DOMAIN lists \ {i} : lists'[j] = lists[j]
    BY <1>1, <1>4, <2>1, <2>6, <2>7
  <2>9. \A j \in DOMAIN lists : lists'[j].listed = lists[j].listed /\ lists'[j].user = lists[j].user
    BY <2>5, <2>8
  <2>10. Lists'
    <3>1. \A j \in DOMAIN lists' : lists'[j].listed <=> lists'[j].socks # <<>>
      BY <1>1, <2>1, <2>4, <2>5, <2>8
    <3>2. Listed' = Listed
      BY <2>8, <2>9 DEF Listed
    <3>3. \A j, h \in Listed' : lists'[j].user = lists'[h].user => j = h
      BY <1>1, <2>9, <3>2 DEF Listed
    <3> QED
      BY <2>8, <3>1, <3>3 DEF Lists
  <2>11. ASSUME NEW j, NEW m, NEW x
         PROVE  At(j, m, x)' <=> At(j, m, x) \/ (j = i /\ m = n + 1 /\ x = s)
    <3>1. CASE j = i
      <4>1. At(i, m, x) <=> m \in 1..n /\ q[m] = x
        BY <2>1, <2>2, <2>4 DEF At
      <4>2. At(i, m, x)' <=> m \in 1..(n + 1) /\ p[m] = x
        BY <2>1, <2>4, <2>5, <2>8 DEF At
      <4> QED
        BY <2>4, <3>1, <4>1, <4>2
    <3>2. CASE j # i
      BY <2>8, <3>2 DEF At
    <3> QED
      BY <3>1, <3>2
  <2>12. \A x : ~At(i, n + 1, x)
    BY <2>2, <2>4 DEF At
  <2>13. Places' /\ Shifts
    <3>1. n + 1 \in Nat
      BY <2>4
    <3> QED
      BY <1>2, <2>11, <2>12, <3>1, PlaceAdded
  <2> QED
    BY <1>3, <1>4, <2>8, <2>10, <2>13 DEF Tidy
<1>6. ASSUME OfUser(u) = {}, lists' = Append(lists, [user |-> u, socks |-> <<s>>, listed |-> TRUE])
      PROVE  Tidy' /\ Shifts /\ DOMAIN lists \subseteq DOMAIN lists'
  <2>1. PICK n : n = Len(lists) + 1
    OBVIOUS
  <2>2. PICK p : p = <<s>>
    OBVIOUS
  <2>3. p \in Seq(Sockets) /\ DOMAIN p = {1} /\ p[1] = s /\ p # <<>>
    BY <2>2
  <2>4. PICK r : r = [user |-> u, socks |-> p, listed |-> TRUE]
    OBVIOUS
  <2>5. r \in List
    BY <2>3, <2>4 DEF List
  <2>6. /\ lists' \in Seq(List) /\ DOMAIN lists' = 1..n /\ n \notin DOMAIN lists /\ n \in Nat
        /\ DOMAIN lists' = DOMAIN lists \cup {n} /\ Len(lists') = n
        /\ lists'[n] = r /\ \A j \in DOMAIN lists : lists'[j] = lists[j]
    BY <1>1, <1>4, <1>6, <2>1, <2>2, <2>4, <2>5
  <2>7. r.user = u /\ r.socks = p /\ r.listed = TRUE
    BY <2>4
  <2>8. Lists'
    <3>1. \A j \in DOMAIN lists' : lists'[j].listed <=> lists'[j].socks # <<>>
      BY <1>1, <2>3, <2>6, <2>7
    <3>2. ASSUME NEW j \in Listed', NEW h \in Listed', lists'[j].user = lists'[h].user
          PROVE  j = h
      <4>1. \A l \in Listed' : l = n \/ l \in Listed
        BY <2>6 DEF Listed
      <4>2. \A l \in Listed : lists'[l] = lists[l] /\ lists[l].user # u
        BY <1>6, <2>6 DEF Listed, OfUser
      <4> QED
        BY <1>1, <2>6, <2>7, <3>2, <4>1, <4>2
    <3> QED
      BY <2>6, <3>1, <3>2 DEF Lists
  <2>9. ASSUME NEW j, NEW m, NEW x
        PROVE  At(j, m, x)' <=> At(j, m, x) \/ (j = n /\ m = 1 /\ x = s)
    <3>1. CASE j = n
      BY <2>3, <2>6, <2>7, <3>1 DEF At
    <3>2. CASE j # n
      BY <2>6, <3>2 DEF At
    <3> QED
      BY <3>1, <3>2
  <2>10. \A x : ~At(n, 1, x)
    BY <2>6 DEF At
  <2>11. Places' /\ Shifts
    BY <1>2, <2>9, <2>10, PlaceAdded
  <2> QED
    BY <1>3, <1>4, <2>1, <2>6, <2>8, <2>11 DEF Tidy
<1> QED
  BY <1>5, <1>6 DEF Connect

\* A connection that is gone leaves its list.
LEMMA DisconnectTidy ==
  ASSUME Tidy, NEW s \in Sockets, Disconnect(s)
  PROVE  Tidy' /\ Shifts /\ DOMAIN lists \subseteq DOMAIN lists'
<1>1. /\ socket \in [Sockets -> SocketState] /\ lists \in Seq(List)
      /\ \A i \in DOMAIN lists : lists[i].listed <=> lists[i].socks # <<>>
      /\ \A i, j \in Listed : lists[i].user = lists[j].user => i = j
  BY DEF Tidy, Lists
<1>2. socket[s] = "gone" /\ socket' = [socket EXCEPT ![s] = "closed"]
  BY DEF Disconnect
<1>3. socket' \in [Sockets -> SocketState]
  BY <1>1, <1>2 DEF SocketState
<1>4. /\ Len(lists) \in Nat /\ DOMAIN lists = 1..Len(lists)
      /\ \A i \in DOMAIN lists :
           /\ lists[i].user \in Users /\ lists[i].listed \in BOOLEAN
           /\ lists[i].socks \in Seq(Sockets)
           /\ Len(lists[i].socks) \in Nat
           /\ DOMAIN lists[i].socks = 1..Len(lists[i].socks)
           /\ \A k \in DOMAIN lists[i].socks : lists[i].socks[k] \in Sockets
  BY <1>1, ListFacts
<1>5. PICK i \in Listed : \E k \in DOMAIN lists[i].socks :
        lists[i].socks[k] = s /\ lists' = [lists EXCEPT ![i] = Without(lists[i], k)]
  BY DEF Disconnect
<1>6. PICK k \in DOMAIN lists[i].socks :
        lists[i].socks[k] = s /\ lists' = [lists EXCEPT ![i] = Without(lists[i], k)]
  BY <1>5
<1>7. i \in DOMAIN lists /\ lists[i].listed
  BY DEF Listed
<1>8. PICK q, n : q = lists[i].socks /\ n = Len(q)
  OBVIOUS
<1>9. PICK p : p = RemoveAt(q, k)
  OBVIOUS
<1>10. /\ q \in Seq(Sockets) /\ n \in Nat /\ DOMAIN q = 1..n /\ k \in 1..n
  BY <1>4, <1>7, <1>8
<1>11. /\ p \in Seq(Sockets) /\ Len(p) = n - 1
       /\ \A l \in 1..(n - 1) : p[l] = IF l < k THEN q[l] ELSE q[l + 1]
  BY <1>8, <1>9, <1>10, Removed
<1>12. DOMAIN p = 1..(n - 1) /\ (p # <<>> <=> n > 1)
  BY <1>10, <1>11
<1>13. PICK r : r = [user |-> lists[i].user, socks |-> p, listed |-> (n > 1)]
  OBVIOUS
<1>14. r \in List /\ r.user = lists[i].user /\ r.socks = p /\ r.listed = (n > 1)
  <2>1. lists[i].user \in Users /\ (n > 1) \in BOOLEAN
    BY <1>4, <1>7
  <2> QED
    BY <1>11, <1>13, <2>1 DEF List
<1>15. lists' = [lists EXCEPT ![i] = r]
  <2>1. lists[i] \in List
    BY <1>1, <1>7
  <2>2. [lists[i] EXCEPT !.socks = p, !.listed = (n > 1)] = r
    <3>1. PICK c : c = (n > 1)
      OBVIOUS
    <3>2. PICK e : e = [lists[i] EXCEPT !.socks = p]
      OBVIOUS
    <3>3. e = [user |-> lists[i].user, socks |-> p, listed |-> lists[i].listed]
      BY <2>1, <3>2 DEF List
    <3>4. [e EXCEPT !.listed = c] = [user |-> lists[i].user, socks |-> p, listed |-> c]
      BY <3>3
    <3>5. [lists[i] EXCEPT !.socks = p, !.listed = c] = [e EXCEPT !.listed = c]
      BY <3>2
    <3> QED
      BY <1>13, <3>1, <3>4, <3>5
  <2>3. Without(lists[i], k) = [lists[i] EXCEPT !.socks = p, !.listed = (n > 1)]
    BY <1>8, <1>9, <2>1 DEF Without, List
  <2> QED
    BY <1>6, <2>2, <2>3
<1>16. /\ lists' \in Seq(List) /\ DOMAIN lists' = DOMAIN lists /\ Len(lists') = Len(lists)
       /\ lists'[i] = r /\ \A j \in DOMAIN lists \ {i} : lists'[j] = lists[j]
  BY <1>1, <1>4, <1>7, <1>14, <1>15
<1>17. Lists'
  <2>1. \A j \in DOMAIN lists' : lists'[j].listed <=> lists'[j].socks # <<>>
    BY <1>1, <1>12, <1>14, <1>16
  <2>2. \A j \in Listed' : j \in Listed /\ lists'[j].user = lists[j].user
    BY <1>7, <1>14, <1>16 DEF Listed
  <2>3. \A j, h \in Listed' : lists'[j].user = lists'[h].user => j = h
    BY <1>1, <2>2
  <2> QED
    BY <1>16, <2>1, <2>3 DEF Lists
<1>18. ASSUME NEW j, NEW m, NEW x
       PROVE  At(j, m, x)' <=> \/ j # i /\ At(j, m, x)
                               \/ j = i /\ m \in Nat \ {0} /\ m < k /\ At(i, m, x)
                               \/ j = i /\ m \in Nat \ {0} /\ m >= k /\ At(i, m + 1, x)
  <2>1. CASE j # i
    BY <1>16, <2>1 DEF At
  <2>2. CASE j = i
    <3>1. At(i, m, x)' <=> m \in 1..(n - 1) /\ p[m] = x
      BY <1>7, <1>12, <1>14, <1>16 DEF At
    <3>2. \A l : At(i, l, x) <=> l \in 1..n /\ q[l] = x
      BY <1>7, <1>8, <1>10 DEF At
    <3>3. ASSUME m \in Nat \ {0}, m < k
          PROVE  At(i, m, x)' <=> At(i, m, x)
      BY <1>10, <1>11, <3>1, <3>2, <3>3
    <3>4. ASSUME m \in Nat \ {0}, m >= k
          PROVE  At(i, m, x)' <=> At(i, m + 1, x)
      BY <1>10, <1>11, <3>1, <3>2, <3>4
    <3>5. m \in 1..(n - 1) => m \in Nat \ {0} /\ (m < k \/ m >= k)
      BY <1>10
    <3> QED
      BY <2>2, <3>1, <3>3, <3>4, <3>5
  <2> QED
    BY <2>1, <2>2
<1>19. At(i, k, s)
  BY <1>6, <1>7 DEF At
<1>20. Places' /\ Shifts
  BY <1>2, <1>18, <1>19, PlaceGivenUp
<1> QED
  BY <1>3, <1>16, <1>17, <1>20 DEF Tidy

\* A peer that is gone keeps its place until the endpoint notices.
LEMMA GoneTidy ==
  ASSUME Tidy, NEW s \in Sockets, PeerGone(s)
  PROVE  Tidy' /\ Shifts
<1>1. /\ socket \in [Sockets -> SocketState] /\ Lists /\ Places
      /\ s \in Up /\ socket' = [socket EXCEPT ![s] = "gone"] /\ lists' = lists
  BY DEF Tidy, PeerGone
<1>2. socket' \in [Sockets -> SocketState] /\ \A x \in Sockets : Connected(x)' <=> Connected(x)
  BY <1>1 DEF Connected, Up, SocketState
<1>3. \A i, k, x : At(i, k, x)' <=> At(i, k, x)
  BY <1>1 DEF At
<1>4. Lists'
  BY <1>1 DEF Lists, Listed
<1>5. Places'
  BY <1>1, <1>2, <1>3 DEF Places
<1>6. Shifts
  <2>1. ASSUME NEW i, NEW k, NEW x, At(i, k, x)
        PROVE  k \in Nat /\ k >= k /\ x \in Sockets
    BY <1>1, <2>1, PlaceFacts
  <2> QED
    BY <1>3, <2>1 DEF Shifts
<1> QED
  BY <1>2, <1>4, <1>5, <1>6 DEF Tidy

\* The table stays tidy when it stays.
LEMMA TableStays ==
  ASSUME Tidy, UNCHANGED table
  PROVE  /\ Tidy' /\ Listed' = Listed
         /\ \A i, k, s : At(i, k, s)' <=> At(i, k, s)
<1>1. socket' = socket /\ lists' = lists
  BY DEF table
<1>2. Listed' = Listed /\ \A i, k, s : At(i, k, s)' <=> At(i, k, s)
  BY <1>1 DEF Listed, At
<1>3. Lists'
  BY <1>1 DEF Tidy, Lists, Listed
<1>4. Places'
  BY <1>1, <1>2 DEF Tidy, Places, Connected, Up
<1> QED
  BY <1>1, <1>2, <1>3, <1>4 DEF Tidy

\* The dict has a size.
LEMMA ListedFinite ==
  ASSUME Lists
  PROVE  IsFiniteSet(Listed) /\ Cardinality(Listed) \in Nat /\ Listed \subseteq Nat \ {0}
<1>1. Listed \subseteq 1..Len(lists) /\ Len(lists) \in Nat
  BY ListFacts DEF Lists, Listed
<1>2. IsFiniteSet(1..Len(lists))
  BY <1>1, FS_Interval
<1>3. IsFiniteSet(Listed)
  BY <1>1, <1>2, FS_Subset
<1> QED
  BY <1>1, <1>3, FS_CardinalityType

\* The next of the lists exists.
LEMMA LeastNatural ==
  ASSUME NEW T \in SUBSET Nat, T # {}
  PROVE  \E x \in T : \A y \in T : x <= y
<1>1. PICK x \in T : \A y \in T : ~ (<<y, x>> \in OpToRel(<, Nat))
  BY NatLessThanWellFounded, WFMin
<1>2. \A y \in T : ~ (y < x)
  BY <1>1 DEF OpToRel
<1> QED
  BY <1>2

-----------------------------------------------------------------------------
(* The alerts and their broadcasts.                                        *)

\* The k-th socket of list i lies ahead of the broadcast of a.
Ahead(a, i, k) == i > cast[a].list \/ (i = cast[a].list /\ k > cast[a].at)

\* A broadcast is in a list that was made, be it listed or not.
InList(a) == cast[a].list = 0 \/ cast[a].list \in DOMAIN lists

\* Nobody ahead has been told, nor anybody before the broadcast.
Fresh(a) ==
  /\ \A s \in Sockets : socket[s] = "new" \/ alert[a] = "none" => told[a][s] = 0
  /\ alert[a] = "none" => cast[a].list = 0 /\ cast[a].at = 0
  /\ alert[a] = "sending" =>
       \A i, k, s : At(i, k, s) /\ Ahead(a, i, k) => told[a][s] = 0

\* While nothing disturbs a broadcast, everybody behind has been told.
Behind(a) ==
  alert[a] = "sending" /\ calm[a] =>
    /\ \A s \in Sockets : socket[s] # "gone"
    /\ cast[a].size = Cardinality(Listed)
    /\ \A i, k, s : At(i, k, s) => Ahead(a, i, k) \/ told[a][s] = 1

Reached(a) ==
  alert[a] \in {"ended", "active", "resolved"} /\ calm[a] =>
    \A s \in Up : told[a][s] = 1

Typed ==
  /\ alert \in [Alerts -> AlertState]
  /\ cast \in [Alerts -> [size : Nat, list : Nat, at : Nat]]
  /\ told \in [Alerts -> [Sockets -> {0, 1}]]
  /\ calm \in [Alerts -> BOOLEAN]

\* A broadcast waits on a connected socket, unless something disturbed it.
Waiting(a) ==
  /\ held[a] # {} => alert[a] = "sending"
  /\ calm[a] => held[a] \subseteq Up

WaitInv ==
  /\ socket \in [Sockets -> SocketState]
  /\ alert \in [Alerts -> AlertState] /\ held \in [Alerts -> SUBSET Sockets]
  /\ calm \in [Alerts -> BOOLEAN]
  /\ \A a \in Alerts : Waiting(a)

AlertInv(a) == InList(a) /\ Fresh(a) /\ Behind(a) /\ Reached(a)

BroadcastInv == Tidy /\ Typed /\ \A a \in Alerts : AlertInv(a)

\* A socket that comes or goes disturbs; one that stalls or is read again stays up.
LEMMA NextWaitInv ==
  ASSUME WaitInv, [Next]_vars
  PROVE  WaitInv'
<1>1. /\ alert \in [Alerts -> AlertState] /\ held \in [Alerts -> SUBSET Sockets]
      /\ calm \in [Alerts -> BOOLEAN]
      /\ \A a \in Alerts : Waiting(a)
      /\ socket \in [Sockets -> SocketState]
  BY DEF WaitInv
<1>0. socket' \in [Sockets -> SocketState]
  <2>1. {"open", "stalled", "gone", "closed"} \subseteq SocketState
    BY DEF SocketState
  <2>2. ASSUME NEW s \in Sockets,
               \/ Stall(s) \/ Resume(s) \/ PeerGone(s) \/ Disconnect(s)
               \/ \E u \in Users : Connect(s, u)
        PROVE  socket' \in [Sockets -> SocketState]
    <3>1. PICK x \in {"open", "stalled", "gone", "closed"} : socket' = [socket EXCEPT ![s] = x]
      BY <2>2 DEF Stall, Resume, PeerGone, Disconnect, Connect
    <3> QED
      BY <1>1, <2>1, <3>1
  <2>3. ASSUME NEW a \in Alerts, TriggerSos(a) \/ Step(a) \/ Lose(a) \/ ResolveSos(a)
        PROVE  socket' = socket
    <3>1. CASE TriggerSos(a) \/ Lose(a) \/ ResolveSos(a)
      BY <3>1 DEF TriggerSos, Lose, ResolveSos, table
    <3>2. CASE Step(a)
      BY <3>2 DEF Step, Send, SendLost, SendRaises, Released, HeldRaises, NextList,
                  NoMoreLists, DictChanged, Commit, Advance, FailBroadcast, EndBroadcast, table
    <3> QED
      BY <2>3, <3>1, <3>2
  <2>4. CASE UNCHANGED vars
    BY <1>1, <2>4 DEF vars, table
  <2> QED
    BY <1>1, <2>2, <2>3, <2>4 DEF Next
<1>2. ASSUME Disturb PROVE WaitInv'
  <2>1. calm' = [a \in Alerts |-> FALSE] /\ alert' = alert /\ held' = held
    BY <1>2 DEF Disturb
  <2>2. \A a \in Alerts : Waiting(a)'
    BY <1>1, <2>1 DEF Waiting
  <2> QED
    BY <1>1, <1>0, <2>1, <2>2 DEF WaitInv
<1>3. ASSUME NEW s \in Sockets, Stall(s) \/ Resume(s) PROVE WaitInv'
  <2>1. Up' = Up /\ UNCHANGED <<alert, held, calm>>
    BY <1>1, <1>3 DEF Stall, Resume, Up
  <2> QED
    BY <1>1, <1>0, <2>1 DEF WaitInv, Waiting
<1>4. ASSUME NEW a \in Alerts, TriggerSos(a) PROVE WaitInv'
  <2>1. /\ alert' = [alert EXCEPT ![a] = "sending"] /\ held' = held /\ held[a] = {}
        /\ calm' = [calm EXCEPT ![a] = \A s \in Sockets : socket[s] # "gone"]
        /\ Up' = Up
    BY <1>1, <1>4 DEF TriggerSos, Waiting, Up, table
  <2>2. alert' \in [Alerts -> AlertState]
    BY <1>1, <2>1 DEF AlertState
  <2>3. calm' \in [Alerts -> BOOLEAN]
    BY <1>1, <2>1
  <2>4. \A b \in Alerts : Waiting(b)'
    BY <1>1, <2>1 DEF Waiting
  <2> QED
    BY <1>1, <1>0, <2>1, <2>2, <2>3, <2>4 DEF WaitInv
\* A step of the broadcast of a, or of what becomes of its alert.
<1>5. ASSUME NEW a \in Alerts, NEW x \in AlertState, NEW h \in SUBSET Up,
             alert' = [alert EXCEPT ![a] = x], held' = [held EXCEPT ![a] = h],
             h # {} => x = "sending", calm' = calm, UNCHANGED table
      PROVE  WaitInv'
  <2>1. Up' = Up /\ Up \subseteq Sockets
    BY <1>5 DEF Up, table
  <2>2. \A b \in Alerts : Waiting(b)'
    BY <1>1, <1>5, <2>1 DEF Waiting
  <2> QED
    BY <1>1, <1>0, <1>5, <2>1, <2>2 DEF WaitInv
<1>6. ASSUME NEW a \in Alerts, Step(a) \/ Lose(a) \/ ResolveSos(a) PROVE WaitInv'
  <2>1. {"sending", "ended", "active", "resolved", "lost"} \subseteq AlertState
    BY DEF AlertState
  <2>2. alert = [alert EXCEPT ![a] = alert[a]] /\ alert[a] \in AlertState
    BY <1>1
  <2>3. held = [held EXCEPT ![a] = held[a]]
    BY <1>1
  <2>4. CASE Send(a)
    <3>1. PICK h \in SUBSET Up : held' = [held EXCEPT ![a] = h]
      BY <2>4 DEF Send
    <3>2. alert' = alert /\ calm' = calm /\ UNCHANGED table /\ alert[a] = "sending"
      BY <2>4 DEF Send, Sending, Advance
    <3>3. alert' = [alert EXCEPT ![a] = alert[a]] /\ alert[a] \in AlertState
      BY <2>2, <3>2
    <3> QED
      BY <1>5, <3>1, <3>2, <3>3
  <2>5. CASE SendLost(a) \/ NextList(a)
    <3>1. UNCHANGED <<table, alert, held, calm>>
      BY <2>5 DEF SendLost, NextList, Advance
    <3> QED
      BY <1>1, <1>0, <3>1 DEF WaitInv, Waiting, Up, table
  <2>6. CASE SendRaises(a) \/ HeldRaises(a) \/ NoMoreLists(a) \/ DictChanged(a)
    <3>1. /\ alert' = [alert EXCEPT ![a] = "ended"] /\ held' = [held EXCEPT ![a] = {}]
          /\ calm' = calm /\ UNCHANGED table
      BY <2>6 DEF SendRaises, HeldRaises, NoMoreLists, DictChanged, FailBroadcast, EndBroadcast
    <3> QED
      BY <1>5, <2>1, <3>1
  <2>7. CASE Released(a)
    <3>1. /\ alert' = alert /\ held' = [held EXCEPT ![a] = {}]
          /\ calm' = calm /\ UNCHANGED table
      BY <2>7 DEF Released
    <3>2. alert' = [alert EXCEPT ![a] = alert[a]]
      BY <2>2, <3>1
    <3>3. alert[a] \in AlertState /\ {} \in SUBSET Up
      BY <2>2
    <3> QED
      BY <1>5, <3>1, <3>2, <3>3
  <2>8. CASE Lose(a)
    <3>1. /\ alert' = [alert EXCEPT ![a] = "lost"] /\ held' = [held EXCEPT ![a] = {}]
          /\ calm' = calm /\ UNCHANGED table
      BY <2>8 DEF Lose
    <3> QED
      BY <1>5, <2>1, <3>1
  <2>9. CASE Commit(a) \/ ResolveSos(a)
    <3>1. PICK x \in {"active", "resolved"} : alert' = [alert EXCEPT ![a] = x]
      BY <2>9 DEF Commit, ResolveSos
    <3>2. held' = held /\ calm' = calm /\ UNCHANGED table /\ held[a] = {}
      BY <1>1, <2>9 DEF Commit, ResolveSos, Waiting
    <3>3. held' = [held EXCEPT ![a] = {}]
      BY <2>3, <3>2
    <3> QED
      BY <1>5, <2>1, <3>1, <3>2, <3>3
  <2> QED
    BY <1>6, <2>4, <2>5, <2>6, <2>7, <2>8, <2>9 DEF Step
<1>7. CASE UNCHANGED vars
  <2>1. UNCHANGED <<table, alert, held, calm>>
    BY <1>7 DEF vars
  <2> QED
    BY <1>1, <1>0, <2>1 DEF WaitInv, Waiting, Up, table
<1> QED
  BY <1>2, <1>3, <1>4, <1>6, <1>7 DEF Next, PeerGone, Disconnect, Connect

\* A broadcast never waits on a socket that has left the table while it is calm.
LEMMA WaitInvariant == Spec => []WaitInv
<1>1. Init => WaitInv
  BY DEF Init, WaitInv, Waiting, AlertState, SocketState
<1> QED
  BY <1>1, NextWaitInv, PTL DEF Spec

\* Initially the table is empty and no alert was raised.
LEMMA InitBroadcastInv == Init => BroadcastInv
<1> SUFFICES ASSUME Init PROVE BroadcastInv
  OBVIOUS
<1>1. /\ socket = [s \in Sockets |-> "new"] /\ lists = <<>>
      /\ alert = [a \in Alerts |-> "none"]
      /\ cast = [a \in Alerts |-> [size |-> 0, list |-> 0, at |-> 0]]
      /\ told = [a \in Alerts |-> [s \in Sockets |-> 0]]
      /\ calm = [a \in Alerts |-> FALSE]
  BY DEF Init
<1>2. Tidy
  <2>1. DOMAIN lists = {} /\ lists \in Seq(List)
    BY <1>1
  <2>2. socket \in [Sockets -> SocketState] /\ \A s \in Sockets : ~Connected(s)
    BY <1>1 DEF SocketState, Connected, Up
  <2>3. Lists
    BY <2>1 DEF Lists, Listed
  <2>4. Places
    BY <2>1, <2>2 DEF Places, At
  <2> QED
    BY <2>2, <2>3, <2>4 DEF Tidy
<1>3. Typed
  BY <1>1 DEF Typed, AlertState
<1>4. \A a \in Alerts : AlertInv(a)
  BY <1>1 DEF AlertInv, InList, Fresh, Behind, Reached
<1> QED
  BY <1>2, <1>3, <1>4 DEF BroadcastInv

\* A change of the table: nobody is told, and what lies ahead lay ahead.
LEMMA DisturbInv ==
  ASSUME BroadcastInv, Shifts, Tidy', Disturb, DOMAIN lists \subseteq DOMAIN lists',
         \A s \in Sockets : socket'[s] = "new" => socket[s] = "new"
  PROVE  BroadcastInv'
<1>1. /\ calm' = [a \in Alerts |-> FALSE] /\ alert' = alert /\ cast' = cast /\ told' = told
  BY DEF Disturb
<1>2. Typed'
  BY <1>1 DEF BroadcastInv, Typed
<1>3. ASSUME NEW a \in Alerts
      PROVE  AlertInv(a)'
  <2>1. Fresh(a) /\ cast[a].list \in Nat /\ cast[a].at \in Nat
    BY DEF BroadcastInv, AlertInv, Typed
  <2>2. calm'[a] = FALSE
    BY <1>1
  <2>3. ASSUME NEW i, NEW k, NEW s, At(i, k, s)', Ahead(a, i, k)', alert[a] = "sending"
        PROVE  told[a][s] = 0
    <3>1. k \in Nat /\ s \in Sockets
      BY <2>3 DEF Shifts
    <3>2. CASE socket[s] = "new"
      BY <2>1, <3>1, <3>2 DEF Fresh
    <3>3. CASE \E m \in Nat : m >= k /\ At(i, m, s)
      <4>1. PICK m \in Nat : m >= k /\ At(i, m, s)
        BY <3>3
      <4>2. Ahead(a, i, m)
        BY <1>1, <2>1, <2>3, <3>1, <4>1 DEF Ahead
      <4> QED
        BY <2>1, <2>3, <4>1, <4>2 DEF Fresh
    <3> QED
      BY <2>3, <3>2, <3>3 DEF Shifts
  <2>4. Fresh(a)'
    BY <1>1, <2>1, <2>3 DEF Fresh
  <2>5. InList(a)'
    BY <1>1 DEF BroadcastInv, AlertInv, InList
  <2> QED
    BY <2>2, <2>4, <2>5 DEF AlertInv, Behind, Reached
<1> QED
  BY <1>2, <1>3 DEF BroadcastInv

\* The other alerts do not notice.
LEMMA OtherAlerts ==
  ASSUME BroadcastInv, UNCHANGED table, NEW a \in Alerts,
         alert'[a] = alert[a], cast'[a] = cast[a], told'[a] = told[a], calm'[a] = calm[a]
  PROVE  AlertInv(a)'
<1>1. /\ socket' = socket /\ Listed' = Listed /\ AlertInv(a)
      /\ \A i, k, s : At(i, k, s)' <=> At(i, k, s)
  BY TableStays DEF BroadcastInv, table
<1>2. \A i, k : Ahead(a, i, k)' <=> Ahead(a, i, k)
  BY DEF Ahead
<1>3. Fresh(a)'
  BY <1>1, <1>2 DEF AlertInv, Fresh
<1>4. Behind(a)'
  BY <1>1, <1>2 DEF AlertInv, Behind
<1>5. Reached(a)'
  BY <1>1 DEF AlertInv, Reached, Up
<1>6. InList(a)'
  BY <1>1 DEF AlertInv, InList, table
<1> QED
  BY <1>3, <1>4, <1>5, <1>6 DEF AlertInv

\* A step changes nothing of alerts other than a.
Only(a) ==
  \A b \in Alerts \ {a} : /\ alert'[b] = alert[b] /\ cast'[b] = cast[b]
                          /\ told'[b] = told[b] /\ calm'[b] = calm[b]

\* Hence a step of one alert has to keep only what is said of that alert.
LEMMA OneAlert ==
  ASSUME BroadcastInv, UNCHANGED table, NEW a \in Alerts, Typed', AlertInv(a)', Only(a)
  PROVE  BroadcastInv'
<1>1. \A b \in Alerts \ {a} : AlertInv(b)'
  BY OtherAlerts DEF Only
<1>2. Tidy'
  BY TableStays DEF BroadcastInv
<1> QED
  BY <1>1, <1>2 DEF BroadcastInv

\* The places of a quiet table, and what is known of one alert.
LEMMA AlertFacts ==
  ASSUME BroadcastInv, UNCHANGED table, NEW a \in Alerts
  PROVE  /\ InList(a) /\ Fresh(a) /\ Behind(a) /\ Reached(a) /\ Lists /\ Places /\ Up' = Up
         /\ socket' = socket /\ lists' = lists /\ Listed' = Listed
         /\ \A i, k, s : At(i, k, s)' <=> At(i, k, s)
         /\ alert[a] \in AlertState /\ calm[a] \in BOOLEAN
         /\ told[a] \in [Sockets -> {0, 1}]
         /\ cast[a] \in [size : Nat, list : Nat, at : Nat]
         /\ cast[a].size \in Nat /\ cast[a].list \in Nat /\ cast[a].at \in Nat
<1>1. AlertInv(a) /\ Tidy /\ socket' = socket /\ lists' = lists
  BY DEF BroadcastInv, table
<1>2. Typed
  BY DEF BroadcastInv
<1>3. cast[a] \in [size : Nat, list : Nat, at : Nat]
  BY <1>2 DEF Typed
<1> QED
  BY <1>1, <1>2, <1>3, TableStays DEF AlertInv, Typed, Tidy, Up

\* A peer that stops reading, or reads again, changes no place.
LEMMA StallInv ==
  ASSUME BroadcastInv, NEW s \in Sockets, Stall(s) \/ Resume(s)
  PROVE  BroadcastInv'
<1>1. /\ Tidy /\ Typed /\ UNCHANGED <<lists, alert, cast, told, calm>>
      /\ socket \in [Sockets -> SocketState]
  BY DEF BroadcastInv, Tidy, Stall, Resume
<1>2. /\ socket' \in [Sockets -> SocketState] /\ Up' = Up
      /\ \A x \in Sockets : (socket'[x] = "gone" <=> socket[x] = "gone")
                         /\ (socket'[x] = "new" <=> socket[x] = "new")
  BY <1>1 DEF Stall, Resume, Up, SocketState
<1>3. Listed' = Listed /\ \A i, k, x : At(i, k, x)' <=> At(i, k, x)
  BY <1>1 DEF Listed, At
<1>4. Lists'
  BY <1>1 DEF Tidy, Lists, Listed
<1>5. Places'
  BY <1>1, <1>2, <1>3 DEF Tidy, Places, Connected
<1>6. ASSUME NEW a \in Alerts PROVE AlertInv(a)'
  <2>1. AlertInv(a) /\ \A i, k : Ahead(a, i, k)' <=> Ahead(a, i, k)
    BY <1>1 DEF BroadcastInv, Ahead
  <2>2. Fresh(a)'
    BY <1>1, <1>2, <1>3, <2>1 DEF AlertInv, Fresh
  <2>3. Behind(a)'
    BY <1>1, <1>2, <1>3, <2>1 DEF AlertInv, Behind
  <2>4. Reached(a)'
    BY <1>1, <1>2, <2>1 DEF AlertInv, Reached
  <2>5. InList(a)'
    BY <1>1, <2>1 DEF AlertInv, InList
  <2> QED
    BY <2>2, <2>3, <2>4, <2>5 DEF AlertInv
<1>7. Typed'
  BY <1>1 DEF Typed
<1> QED
  BY <1>2, <1>4, <1>5, <1>6, <1>7 DEF BroadcastInv, Tidy

\* A broadcast begins before the first place, and before anybody was told.
LEMMA TriggerInv ==
  ASSUME BroadcastInv, NEW a \in Alerts, TriggerSos(a)
  PROVE  BroadcastInv'
<1>1. /\ alert[a] = "none" /\ alert' = [alert EXCEPT ![a] = "sending"]
      /\ cast' = [cast EXCEPT ![a].size = Cardinality(Listed)]
      /\ calm' = [calm EXCEPT ![a] = \A s \in Sockets : socket[s] # "gone"]
      /\ UNCHANGED table /\ told' = told
  BY DEF TriggerSos
<1>2. Typed
  BY DEF BroadcastInv
<1>3. /\ Fresh(a) /\ Lists /\ socket' = socket /\ Listed' = Listed
      /\ \A i, k, s : At(i, k, s)' <=> At(i, k, s)
      /\ cast[a] \in [size : Nat, list : Nat, at : Nat] /\ told[a] \in [Sockets -> {0, 1}]
  BY <1>1, AlertFacts
<1>4. PICK n : n = Cardinality(Listed)
  OBVIOUS
<1>5. n \in Nat
  BY <1>3, <1>4, ListedFinite
<1>6. PICK c : c = [cast[a] EXCEPT !.size = n]
  OBVIOUS
<1>7. /\ c \in [size : Nat, list : Nat, at : Nat]
      /\ c.size = n /\ c.list = cast[a].list /\ c.at = cast[a].at
  BY <1>3, <1>5, <1>6
<1>8. cast' = [cast EXCEPT ![a] = c]
  BY <1>1, <1>2, <1>4, <1>6 DEF Typed
<1>9. /\ alert'[a] = "sending" /\ cast'[a] = c /\ Only(a)
      /\ (calm'[a] <=> \A s \in Sockets : socket[s] # "gone")
  BY <1>1, <1>2, <1>8 DEF Typed, Only
<1>10. Typed'
  <2>1. (\A s \in Sockets : socket[s] # "gone") \in BOOLEAN
    OBVIOUS
  <2>2. calm' \in [Alerts -> BOOLEAN]
    BY <1>1, <1>2, <2>1 DEF Typed
  <2> QED
    BY <1>1, <1>2, <1>7, <1>8, <2>2 DEF Typed, AlertState
<1>11. \A s \in Sockets : told'[a][s] = 0
  BY <1>1, <1>3 DEF Fresh
<1>12. c.list = 0 /\ c.at = 0
  BY <1>1, <1>3, <1>7 DEF Fresh
<1>13. \A i, k, s : At(i, k, s)' => s \in Sockets /\ Ahead(a, i, k)'
  <2>1. ASSUME NEW i, NEW k, NEW s, At(i, k, s)
        PROVE  s \in Sockets /\ i > 0
    BY <1>3, <2>1, PlaceFacts
  <2> QED
    BY <1>3, <1>9, <1>12, <2>1 DEF Ahead
<1>14. Fresh(a)'
  BY <1>9, <1>11, <1>13 DEF Fresh
<1>15. Behind(a)'
  BY <1>3, <1>4, <1>7, <1>9, <1>13 DEF Behind
<1>16. Reached(a)'
  BY <1>9 DEF Reached
<1>17. InList(a)'
  BY <1>9, <1>12 DEF InList
<1> QED
  BY <1>1, <1>9, <1>10, <1>14, <1>15, <1>16, <1>17, OneAlert DEF AlertInv

\* The socket whose turn it is lies ahead.
LEMMA TargetFacts ==
  ASSUME BroadcastInv, NEW a \in Alerts, AtSocket(a)
  PROVE  /\ At(cast[a].list, cast[a].at + 1, Target(a)) /\ Ahead(a, cast[a].list, cast[a].at + 1)
         /\ cast[a].list \in Nat /\ cast[a].at + 1 \in Nat
         /\ Target(a) \in Sockets /\ cast[a].list \in DOMAIN lists
<1>1. PICK j, l, t : j = cast[a].list /\ l = cast[a].at + 1 /\ t = Target(a)
  OBVIOUS
<1>2. InList(a) /\ Lists /\ cast[a].at \in Nat /\ cast[a].list \in Nat
  BY DEF BroadcastInv, AlertInv, Tidy, Typed
<1>3. j # 0 /\ j \in DOMAIN lists /\ l \in Nat \ {0} /\ l <= Len(lists[j].socks)
  BY <1>1, <1>2, ListFacts DEF AtSocket, InList, Lists
<1>4. /\ lists[j].socks \in Seq(Sockets) /\ DOMAIN lists[j].socks = 1..Len(lists[j].socks)
      /\ Len(lists[j].socks) \in Nat
  BY <1>2, <1>3, ListFacts DEF Lists
<1>5. At(j, l, t)
  BY <1>1, <1>3, <1>4 DEF At, Target
<1>6. Ahead(a, j, l)
  BY <1>1, <1>2 DEF Ahead
<1> QED
  BY <1>1, <1>2, <1>3, <1>5, <1>6, PlaceFacts

\* One socket on: whoever was ahead and still is has another socket, and the one
\* that is behind now was told, or is gone.
LEMMA AdvanceInv ==
  ASSUME BroadcastInv, NEW a \in Alerts, alert[a] = "sending", AtSocket(a), Advance(a),
         \/ Target(a) \in Up /\ told' = [told EXCEPT ![a][Target(a)] = 1]
         \/ Target(a) \notin Up /\ told' = told
  PROVE  BroadcastInv'
<1>1. /\ UNCHANGED table /\ alert' = alert /\ calm' = calm
      /\ cast' = [cast EXCEPT ![a].at = @ + 1]
  BY DEF Advance
<1>2. Typed
  BY DEF BroadcastInv
<1>3. /\ InList(a) /\ Fresh(a) /\ Behind(a) /\ Lists /\ Places
      /\ socket' = socket /\ lists' = lists /\ Listed' = Listed
      /\ \A i, k, s : At(i, k, s)' <=> At(i, k, s)
      /\ cast[a] \in [size : Nat, list : Nat, at : Nat] /\ told[a] \in [Sockets -> {0, 1}]
      /\ cast[a].size \in Nat /\ cast[a].list \in Nat /\ cast[a].at \in Nat
      /\ calm[a] \in BOOLEAN
  BY <1>1, AlertFacts
<1>4. PICK j, l, t : j = cast[a].list /\ l = cast[a].at + 1 /\ t = Target(a)
  OBVIOUS
<1>5. At(j, l, t) /\ j \in Nat /\ l \in Nat /\ t \in Sockets /\ j \in DOMAIN lists
  BY <1>4, TargetFacts
<1>6. PICK c : c = [cast[a] EXCEPT !.at = l]
  OBVIOUS
<1>7. /\ c \in [size : Nat, list : Nat, at : Nat]
      /\ c.size = cast[a].size /\ c.list = j /\ c.at = l
  BY <1>3, <1>4, <1>5, <1>6
<1>8. cast' = [cast EXCEPT ![a] = c]
  BY <1>1, <1>2, <1>4, <1>6 DEF Typed
<1>9. /\ told' \in [Alerts -> [Sockets -> {0, 1}]]
      /\ \A b \in Alerts \ {a} : told'[b] = told[b]
      /\ \A s \in Sockets \ {t} : told'[a][s] = told[a][s]
      /\ t \in Up => told'[a][t] = 1
  <2>1. CASE t \in Up
    <3>1. PICK m : m = [told[a] EXCEPT ![t] = 1]
      OBVIOUS
    <3>2. m \in [Sockets -> {0, 1}] /\ m[t] = 1 /\ \A s \in Sockets \ {t} : m[s] = told[a][s]
      BY <1>3, <1>5, <3>1
    <3>3. told' = [told EXCEPT ![a] = m]
      BY <1>2, <1>4, <2>1, <3>1 DEF Typed
    <3> QED
      BY <1>2, <3>2, <3>3 DEF Typed
  <2>2. CASE t \notin Up
    BY <1>2, <1>4, <2>2 DEF Typed
  <2> QED
    BY <2>1, <2>2
<1>10. Connected(t)
  BY <1>3, <1>5 DEF Places
<1>11. Typed' /\ Only(a) /\ cast'[a] = c /\ alert'[a] = alert[a] /\ calm'[a] = calm[a]
  BY <1>1, <1>2, <1>7, <1>8, <1>9 DEF Typed, Only
<1>12. ASSUME NEW i, NEW k, NEW s, At(i, k, s), Ahead(a, i, k)'
       PROVE  s # t /\ Ahead(a, i, k)
  <2>1. i \in Nat /\ k \in Nat
    BY <1>3, <1>12, PlaceFacts
  <2>2. i > j \/ (i = j /\ k > l)
    BY <1>7, <1>11, <1>12 DEF Ahead
  <2>3. Ahead(a, i, k)
    BY <1>3, <1>4, <2>1, <2>2 DEF Ahead
  <2>4. ~(i = j /\ k = l)
    BY <1>5, <2>1, <2>2
  <2> QED
    BY <1>3, <1>5, <1>12, <2>3, <2>4 DEF Places
<1>13. ASSUME NEW i, NEW k, NEW s, At(i, k, s), ~Ahead(a, i, k)'
       PROVE  s = t \/ ~Ahead(a, i, k)
  <2>1. i \in Nat /\ k \in Nat
    BY <1>3, <1>13, PlaceFacts
  <2>2. ~(i > j \/ (i = j /\ k > l))
    BY <1>7, <1>11, <1>13 DEF Ahead
  <2>3. CASE i = j /\ k = l
    BY <1>3, <1>5, <1>13, <2>3 DEF Places, At
  <2>4. CASE ~(i = j /\ k = l)
    <3>1. ~(i > j \/ (i = j /\ k > cast[a].at))
      BY <1>3, <1>4, <2>1, <2>2, <2>4
    <3> QED
      BY <1>4, <3>1 DEF Ahead
  <2> QED
    BY <2>3, <2>4
<1>14. \A i, k, s : At(i, k, s) => s \in Sockets
  BY <1>3, PlaceFacts
<1>15. Fresh(a)'
  <2>1. ASSUME NEW s \in Sockets, socket[s] = "new"
        PROVE  told'[a][s] = 0
    <3>1. s # t /\ told[a][s] = 0
      BY <1>3, <1>10, <2>1 DEF Fresh, Connected, Up
    <3> QED
      BY <1>9, <3>1
  <2>2. ASSUME NEW i, NEW k, NEW s, At(i, k, s), Ahead(a, i, k)'
        PROVE  told'[a][s] = 0
    <3>1. s # t /\ s \in Sockets /\ told[a][s] = 0
      BY <1>3, <1>12, <1>14, <2>2 DEF Fresh
    <3> QED
      BY <1>9, <3>1
  <2> QED
    BY <1>3, <1>11, <2>1, <2>2 DEF Fresh
<1>16. Behind(a)'
  <2> SUFFICES ASSUME calm[a], NEW i, NEW k, NEW s, At(i, k, s), ~Ahead(a, i, k)'
               PROVE  told'[a][s] = 1
    BY <1>3, <1>7, <1>11 DEF Behind
  <2>1. t \in Up
    BY <1>3, <1>5, <1>10 DEF Behind, Connected, Up
  <2>2. CASE s = t
    BY <1>9, <2>1, <2>2
  <2>3. CASE s # t
    BY <1>3, <1>9, <1>13, <1>14, <2>3 DEF Behind
  <2> QED
    BY <2>2, <2>3
<1>17. Reached(a)'
  BY <1>1, <1>3, <1>11 DEF Reached
<1>18. InList(a)'
  BY <1>3, <1>5, <1>7, <1>11 DEF InList
<1> QED
  BY <1>1, <1>11, <1>15, <1>16, <1>17, <1>18, OneAlert DEF AlertInv

\* Sends: to an open socket once more, that is, for the first time.
LEMMA SendInv ==
  ASSUME BroadcastInv, NEW a \in Alerts, Send(a) \/ SendLost(a)
  PROVE  BroadcastInv'
<1>1. alert[a] = "sending" /\ AtSocket(a) /\ Advance(a)
  BY DEF Send, SendLost, Sending
<1>2. Target(a) \in Sockets /\ told[a][Target(a)] = 0
  BY <1>1, TargetFacts DEF BroadcastInv, AlertInv, Fresh
<1>3. CASE Send(a)
  <2>1. told' = [told EXCEPT ![a][Target(a)] = 1]
    BY <1>2, <1>3 DEF Send
  <2> QED
    BY <1>1, <1>3, <2>1, AdvanceInv DEF Send
<1>4. CASE SendLost(a)
  BY <1>1, <1>4, AdvanceInv DEF SendLost
<1> QED
  BY <1>3, <1>4

\* After the last socket of a list nothing of it lies ahead.
LEMMA ListDone ==
  ASSUME BroadcastInv, NEW a \in Alerts, ~AtSocket(a), NEW i, NEW k, NEW s, At(i, k, s),
         Ahead(a, i, k)
  PROVE  i \in Later(a)
<1>1. i \in Listed /\ i \in Nat \ {0} /\ k \in Nat \ {0} /\ k <= Len(lists[i].socks)
      /\ Lists /\ cast[a].list \in Nat /\ cast[a].at \in Nat
  BY PlaceFacts DEF BroadcastInv, Tidy, Typed
<1>2. Len(lists[i].socks) \in Nat
  BY <1>1, ListFacts DEF Lists, Listed
<1>3. ~(i = cast[a].list /\ k > cast[a].at)
  BY <1>1, <1>2 DEF AtSocket
<1> QED
  BY <1>1, <1>3 DEF Ahead, Later

\* The next list: as all of the one before is behind, nothing is passed over.
LEMMA NextListInv ==
  ASSUME BroadcastInv, NEW a \in Alerts, NextList(a)
  PROVE  BroadcastInv'
<1>1. /\ alert[a] = "sending" /\ ~AtSocket(a) /\ Later(a) # {}
      /\ UNCHANGED table /\ alert' = alert /\ told' = told /\ calm' = calm
  BY DEF NextList, Sending
<1>2. Typed
  BY DEF BroadcastInv
<1>3. /\ InList(a) /\ Fresh(a) /\ Behind(a) /\ Lists
      /\ socket' = socket /\ lists' = lists /\ Listed' = Listed
      /\ \A i, k, s : At(i, k, s)' <=> At(i, k, s)
      /\ cast[a] \in [size : Nat, list : Nat, at : Nat]
      /\ cast[a].size \in Nat /\ cast[a].list \in Nat /\ cast[a].at \in Nat
  BY <1>1, AlertFacts
<1>4. PICK j : j = CHOOSE i \in Later(a) : \A h \in Later(a) : i <= h
  OBVIOUS
<1>5. /\ j \in Later(a) /\ \A h \in Later(a) : j <= h
  <2>1. Later(a) \subseteq Nat
    BY <1>3, ListedFinite DEF Later
  <2>2. \E i \in Later(a) : \A h \in Later(a) : i <= h
    BY <1>1, <2>1, LeastNatural
  <2> QED
    BY <1>4, <2>2
<1>6. j \in Listed /\ j \in DOMAIN lists /\ j \in Nat /\ j > cast[a].list
  BY <1>3, <1>5, ListedFinite DEF Later, Listed
<1>7. PICK c : c = [cast[a] EXCEPT !.list = j, !.at = 0]
  OBVIOUS
<1>8. /\ c \in [size : Nat, list : Nat, at : Nat]
      /\ c.size = cast[a].size /\ c.list = j /\ c.at = 0
  <2>1. PICK d : d = [cast[a] EXCEPT !.list = j]
    OBVIOUS
  <2>2. /\ d \in [size : Nat, list : Nat, at : Nat]
        /\ d.size = cast[a].size /\ d.list = j
    BY <1>3, <1>6, <2>1
  <2>3. c = [d EXCEPT !.at = 0]
    BY <1>7, <2>1
  <2> QED
    BY <2>2, <2>3
<1>9. cast' = [cast EXCEPT ![a] = c]
  <2>1. cast' = [cast EXCEPT ![a].list = j, ![a].at = 0]
    BY <1>4 DEF NextList
  <2> QED
    BY <1>2, <1>7, <2>1 DEF Typed
<1>10. Typed' /\ Only(a) /\ cast'[a] = c
  BY <1>1, <1>2, <1>8, <1>9 DEF Typed, Only
<1>11. ASSUME NEW i, NEW k, NEW s, At(i, k, s)
       PROVE  s \in Sockets /\ (Ahead(a, i, k)' <=> Ahead(a, i, k))
  <2>1. i \in Nat \ {0} /\ k \in Nat \ {0} /\ i \in Listed /\ s \in Sockets
    BY <1>3, <1>11, PlaceFacts
  <2>2. Ahead(a, i, k)' <=> i >= j
    BY <1>6, <1>8, <1>10, <2>1 DEF Ahead
  <2>3. ASSUME Ahead(a, i, k)
        PROVE  i >= j
    BY <1>1, <1>5, <1>6, <1>11, <2>1, <2>3, ListDone
  <2>4. ASSUME i >= j
        PROVE  Ahead(a, i, k)
    BY <1>3, <1>6, <2>1, <2>4 DEF Ahead
  <2> QED
    BY <2>1, <2>2, <2>3, <2>4
<1>12. Fresh(a)'
  BY <1>1, <1>3, <1>10, <1>11 DEF Fresh
<1>13. Behind(a)'
  BY <1>1, <1>3, <1>8, <1>10, <1>11 DEF Behind
<1>14. Reached(a)'
  BY <1>1 DEF Reached
<1>15. InList(a)'
  BY <1>3, <1>6, <1>8, <1>10 DEF InList
<1> QED
  BY <1>1, <1>10, <1>12, <1>13, <1>14, <1>15, OneAlert DEF AlertInv

\* The broadcast is over, or the request is.
LEMMA EndInv ==
  ASSUME BroadcastInv, NEW a \in Alerts, UNCHANGED <<table, cast, told, calm>>,
         NEW x \in AlertState \ {"none", "sending"}, alert' = [alert EXCEPT ![a] = x],
         alert[a] # "none", Reached(a)'
  PROVE  BroadcastInv'
<1>1. /\ InList(a) /\ Fresh(a) /\ socket' = socket /\ lists' = lists
      /\ \A b \in Alerts : alert[b] \in AlertState
  BY AlertFacts DEF BroadcastInv, Typed
<1>2. Typed' /\ Only(a) /\ alert'[a] = x
  BY DEF BroadcastInv, Typed, Only
<1>3. Fresh(a)'
  BY <1>1, <1>2 DEF Fresh
<1>4. Behind(a)'
  BY <1>2 DEF Behind
<1>5. InList(a)'
  BY <1>1 DEF InList
<1> QED
  BY <1>2, <1>3, <1>4, <1>5, OneAlert DEF AlertInv

\* A broadcast ends, and what becomes of its alert.
LEMMA AlertStepInv ==
  ASSUME BroadcastInv, WaitInv, NEW a \in Alerts,
         \/ NoMoreLists(a) \/ DictChanged(a) \/ SendRaises(a) \/ HeldRaises(a)
         \/ Commit(a) \/ Lose(a) \/ ResolveSos(a)
  PROVE  BroadcastInv'
<1>1. /\ UNCHANGED <<table, cast, told, calm>> /\ UNCHANGED table
      /\ socket' = socket /\ told' = told /\ calm' = calm /\ alert[a] # "none"
  BY DEF NoMoreLists, DictChanged, SendRaises, HeldRaises, Commit, Lose, ResolveSos,
     FailBroadcast, EndBroadcast, Sending, WaitInv, Waiting, table
<1>2. /\ Behind(a) /\ Reached(a) /\ Lists /\ Places /\ Up' = Up
      /\ alert \in [Alerts -> AlertState]
  BY <1>1, AlertFacts DEF BroadcastInv, Typed
<1>3. {"ended", "active", "resolved", "lost"} \subseteq AlertState \ {"none", "sending"}
  BY DEF AlertState
<1>4. CASE NoMoreLists(a)
  <2>1. alert[a] = "sending" /\ ~AtSocket(a) /\ Later(a) = {}
        /\ alert' = [alert EXCEPT ![a] = "ended"]
    BY <1>4 DEF NoMoreLists, EndBroadcast, Sending
  <2>2. ASSUME calm[a], NEW s \in Up
        PROVE  told[a][s] = 1
    <3>1. PICK i, k : At(i, k, s)
      BY <1>2, <2>2 DEF Places, Connected, Up
    <3>2. ~Ahead(a, i, k)
      BY <2>1, <3>1, ListDone
    <3> QED
      BY <1>2, <2>1, <2>2, <3>1, <3>2 DEF Behind
  <2>3. Reached(a)'
    BY <1>1, <1>2, <2>2 DEF Reached
  <2> QED
    BY <1>1, <1>3, <2>1, <2>3, EndInv
<1>5. CASE DictChanged(a) \/ SendRaises(a) \/ HeldRaises(a)
  <2>1. alert[a] = "sending" /\ alert' = [alert EXCEPT ![a] = "ended"]
    BY <1>5 DEF DictChanged, SendRaises, HeldRaises, FailBroadcast, EndBroadcast, Sending,
                WaitInv, Waiting
  <2>2. calm[a] # TRUE
    <3>1. CASE DictChanged(a)
      BY <1>2, <2>1, <3>1 DEF DictChanged, Behind
    <3>2. CASE SendRaises(a)
      <4>1. Target(a) \in Sockets /\ Connected(Target(a)) /\ Target(a) \notin Up
        BY <1>2, <3>2, TargetFacts DEF SendRaises, Places
      <4> QED
        BY <1>2, <2>1, <4>1 DEF Behind, Connected, Up
    <3>3. CASE HeldRaises(a)
      BY <3>3 DEF HeldRaises, WaitInv, Waiting
    <3> QED
      BY <1>5, <3>1, <3>2, <3>3
  <2>3. Reached(a)'
    BY <1>1, <1>2, <2>2 DEF Reached
  <2> QED
    BY <1>1, <1>3, <2>1, <2>3, EndInv
<1>6. CASE Commit(a) \/ ResolveSos(a)
  <2>1. PICK x \in {"active", "resolved"} : alert' = [alert EXCEPT ![a] = x]
    BY <1>6 DEF Commit, ResolveSos
  <2>2. alert[a] \in {"ended", "active", "resolved"}
    BY <1>6 DEF Commit, ResolveSos
  <2>3. Reached(a)'
    BY <1>1, <1>2, <2>2 DEF Reached
  <2> QED
    BY <1>1, <1>3, <2>1, <2>3, EndInv
<1>7. CASE Lose(a)
  <2>1. alert' = [alert EXCEPT ![a] = "lost"]
    BY <1>7 DEF Lose
  <2>2. Reached(a)'
    BY <1>2, <2>1 DEF Reached
  <2> QED
    BY <1>1, <1>3, <2>1, <2>2, EndInv
<1> QED
  BY <1>4, <1>5, <1>6, <1>7

\* Every step keeps the invariant.
LEMMA NextBroadcastInv ==
  ASSUME BroadcastInv, WaitInv, [Next]_vars
  PROVE  BroadcastInv'
<1>1. Tidy
  BY DEF BroadcastInv
<1>2. ASSUME NEW s \in Sockets, PeerGone(s)
      PROVE  BroadcastInv'
  <2>1. /\ Disturb /\ DOMAIN lists \subseteq DOMAIN lists'
        /\ \A x \in Sockets : socket'[x] = "new" => socket[x] = "new"
    BY <1>1, <1>2 DEF PeerGone, Tidy
  <2> QED
    BY <1>1, <1>2, <2>1, GoneTidy, DisturbInv
<1>3. ASSUME NEW s \in Sockets, Disconnect(s)
      PROVE  BroadcastInv'
  <2>1. /\ Disturb
        /\ \A x \in Sockets : socket'[x] = "new" => socket[x] = "new"
    BY <1>1, <1>3 DEF Disconnect, Tidy
  <2> QED
    BY <1>1, <1>3, <2>1, DisconnectTidy, DisturbInv
<1>4. ASSUME NEW s \in Sockets, NEW u \in Users, Connect(s, u)
      PROVE  BroadcastInv'
  <2>1. /\ Disturb
        /\ \A x \in Sockets : socket'[x] = "new" => socket[x] = "new"
    BY <1>1, <1>4 DEF Connect, Tidy
  <2> QED
    BY <1>1, <1>4, <2>1, ConnectTidy, DisturbInv
<1>5. ASSUME UNCHANGED <<table, alert, cast, told, calm>>
      PROVE  BroadcastInv'
  <2>1. UNCHANGED <<table, alert, cast, told, calm>>
    BY <1>5
  <2>2. Tidy' /\ Typed'
    BY <1>1, <2>1, TableStays DEF BroadcastInv, Typed
  <2>3. \A a \in Alerts : AlertInv(a)'
    BY <2>1, OtherAlerts
  <2> QED
    BY <2>2, <2>3 DEF BroadcastInv
<1>6. ASSUME NEW a \in Alerts, TriggerSos(a) \/ Step(a) \/ Lose(a) \/ ResolveSos(a)
      PROVE  BroadcastInv'
  <2>1. CASE Released(a)
    BY <1>5, <2>1 DEF Released
  <2> QED
    BY <1>6, <2>1, TriggerInv, SendInv, NextListInv, AlertStepInv DEF Step
<1>7. ASSUME NEW s \in Sockets, Stall(s) \/ Resume(s)
      PROVE  BroadcastInv'
  BY <1>7, StallInv
<1> QED
  BY <1>2, <1>3, <1>4, <1>5, <1>6, <1>7 DEF Next, vars

\* The table is in order and every broadcast knows where it is, however
\* connections come and go between two sends.
THEOREM BroadcastInvariant == Spec => []BroadcastInv
BY InitBroadcastInv, NextBroadcastInv, WaitInvariant, PTL DEF Spec

\* The table is the open sockets: each in one list, one list per user, none of
\* them empty (connect, disconnect).
THEOREM TableIsConsistent == Spec => []TableConsistent
<1>1. ASSUME Tidy PROVE TableConsistent
  <2>1. Lists /\ Places
    BY <1>1 DEF Tidy
  <2>2. ASSUME NEW s \in Up
        PROVE  Cardinality({i \in Listed : Contains(lists[i].socks, s)}) = 1
    <3>1. PICK i, k : At(i, k, s)
      BY <2>1, <2>2 DEF Places, Connected, Up
    <3>2. ASSUME NEW j \in Listed
          PROVE  Contains(lists[j].socks, s) <=> \E l : At(j, l, s)
      <4>1. j \in DOMAIN lists /\ DOMAIN lists[j].socks = 1..Len(lists[j].socks)
        BY <2>1, ListFacts DEF Lists, Listed
      <4> QED
        BY <4>1 DEF At, Contains
    <3>3. i \in Listed
      BY <2>1, <3>1, PlaceFacts
    <3>4. {j \in Listed : Contains(lists[j].socks, s)} = {i}
      BY <2>1, <3>1, <3>2, <3>3 DEF Places
    <3> QED
      BY <3>4, FS_Singleton
  <2>3. ASSUME NEW u \in Users
        PROVE  Cardinality(OfUser(u)) <= 1
    <3>1. CASE OfUser(u) = {}
      BY <3>1, FS_EmptySet
    <3>2. CASE OfUser(u) # {}
      <4>1. PICK i : i \in OfUser(u)
        BY <3>2
      <4>2. OfUser(u) = {i}
        BY <2>1, <4>1 DEF OfUser, Lists
      <4> QED
        BY <4>2, FS_Singleton
    <3> QED
      BY <3>1, <3>2
  <2>4. \A i \in Listed : lists[i].socks # <<>>
    BY <2>1 DEF Lists, Listed
  <2> QED
    BY <2>2, <2>3, <2>4 DEF TableConsistent
<1> QED
  BY <1>1, BroadcastInvariant, PTL DEF BroadcastInv

\* Nobody gets an alert twice on a connection, however the lists change under the
\* iterators (broadcast).
THEOREM NobodyIsToldTwice == Spec => []NobodyToldTwice
<1>1. ASSUME Typed PROVE NobodyToldTwice
  <2>1. \A a \in Alerts, s \in Sockets : told[a][s] \in {0, 1}
    BY <1>1 DEF Typed
  <2> QED
    BY <2>1 DEF NobodyToldTwice
<1> QED
  BY <1>1, BroadcastInvariant, PTL DEF BroadcastInv

\* A broadcast during which no connection comes or goes reaches all of them, also
\* those whose peer stops reading meanwhile.
THEOREM CalmBroadcastsReachAll == Spec => []CalmReachesAll
<1>1. BroadcastInv => CalmReachesAll
  BY DEF BroadcastInv, AlertInv, Reached, CalmReachesAll
<1> QED
  BY <1>1, BroadcastInvariant, PTL
=============================================================================
