------------------------------ MODULE Broadcast ------------------------------
(***************************************************************************)
(* Emergency alerts and their broadcast to the connected WebSockets.       *)
(*                                                                         *)
(* One process, one event loop: the table of connections changes between   *)
(* two sends of a broadcast, at its await.  The table is a dict from users *)
(* to lists of sockets, and broadcast iterates over both while they change *)
(* under it:                                                               *)
(*   - the dict iterator goes through the entries in the order of their    *)
(*     insertion and raises when the dict has changed size;                *)
(*   - a list iterator is an index, so a removal before it skips a socket. *)
(* Lists are numbered in the order in which they come into the dict; one   *)
(* that has left it stays known to the broadcast that iterates over it.    *)
(* send_text hands the message over and, if the peer has stopped reading,  *)
(* waits until it reads again or is gone.  There is no timeout: broadcast, *)
(* request and transaction wait with it.                                   *)
(***************************************************************************)
EXTENDS Integers, FiniteSets, Sequences, SequencesExt

CONSTANTS
  Sockets, Users, Alerts,
  MaxLists               \* bound on the lists ever made

SocketState == {"new", "open", "stalled", "gone", "closed"}
List        == [user : Users, socks : Seq(Sockets), listed : BOOLEAN]
AlertState  == {"none", "sending", "ended", "active", "resolved", "lost"}

VARIABLES
  socket,   \* socket[s]: not connected yet, open, not read by its peer, gone unnoticed, removed
  lists,    \* the lists of active_connections, those no longer listed included
  alert,    \* alert[a]: the progress of trigger_sos, then the stored row
  cast,     \* cast[a]: size of the dict at the start, list and index reached
  told,     \* told[a][s]: how often alert a was handed to socket s
  held,     \* held[a]: the socket on which the broadcast of a waits, if any
  calm      \* calm[a]: nothing has changed since the broadcast of a began

table == <<socket, lists>>
vars  == <<table, alert, cast, told, held, calm>>

TypeOK ==
  /\ socket \in [Sockets -> SocketState]
  /\ \A i \in DOMAIN lists : lists[i] \in List /\ Len(lists) <= MaxLists
  /\ alert \in [Alerts -> AlertState]
  /\ cast \in [Alerts -> [size : Nat, list : 0..MaxLists, at : 0..Cardinality(Sockets)]]
  /\ told \in [Alerts -> [Sockets -> Nat]]
  /\ held \in [Alerts -> SUBSET Sockets]
  /\ calm \in [Alerts -> BOOLEAN]

Init ==
  /\ socket = [s \in Sockets |-> "new"]
  /\ lists = <<>>
  /\ alert = [a \in Alerts |-> "none"]
  /\ cast = [a \in Alerts |-> [size |-> 0, list |-> 0, at |-> 0]]
  /\ told = [a \in Alerts |-> [s \in Sockets |-> 0]]
  /\ held = [a \in Alerts |-> {}]
  /\ calm = [a \in Alerts |-> FALSE]

Up       == {s \in Sockets : socket[s] \in {"open", "stalled"}}
Listed   == {i \in DOMAIN lists : lists[i].listed}
OfUser(u) == {i \in Listed : lists[i].user = u}

Disturb == calm' = [a \in Alerts |-> FALSE] /\ UNCHANGED <<alert, cast, told, held>>

-----------------------------------------------------------------------------
(* The table of connections.                                               *)

\* Mutant: the newest socket comes first.
MutAdded(s, socks) == <<s>> \o socks

Added(s, socks) == Append(socks, s)

Connect(s, u) ==
  /\ socket[s] = "new"
  /\ socket' = [socket EXCEPT ![s] = "open"]
  /\ \/ \E i \in OfUser(u) : lists' = [lists EXCEPT ![i].socks = Added(s, @)]
     \/ /\ OfUser(u) = {} /\ Len(lists) < MaxLists
        /\ lists' = Append(lists, [user |-> u, socks |-> <<s>>, listed |-> TRUE])
  /\ Disturb

\* The peer stops reading, so that no more can be sent to it, or reads again.
Stall(s) ==
  /\ socket[s] = "open"
  /\ socket' = [socket EXCEPT ![s] = "stalled"]
  /\ UNCHANGED <<lists, alert, cast, told, held, calm>>

Resume(s) ==
  /\ socket[s] = "stalled"
  /\ socket' = [socket EXCEPT ![s] = "open"]
  /\ UNCHANGED <<lists, alert, cast, told, held, calm>>

\* The peer closes or vanishes; the endpoint has not noticed.
PeerGone(s) ==
  /\ s \in Up
  /\ socket' = [socket EXCEPT ![s] = "gone"]
  /\ UNCHANGED lists
  /\ Disturb

\* Mutant: the user's entry goes with the first socket.
MutWithout(l, k) == [l EXCEPT !.socks = RemoveAt(@, k), !.listed = FALSE]

\* An empty list leaves the dict.
Without(l, k) == [l EXCEPT !.socks = RemoveAt(@, k), !.listed = Len(l.socks) > 1]

\* The endpoint's receive raises WebSocketDisconnect.  An endpoint that ends
\* with any other exception never comes here: its socket stays in the table.
Disconnect(s) ==
  /\ socket[s] = "gone"
  /\ socket' = [socket EXCEPT ![s] = "closed"]
  /\ \E i \in Listed : \E k \in DOMAIN lists[i].socks :
       /\ lists[i].socks[k] = s
       /\ lists' = [lists EXCEPT ![i] = Without(lists[i], k)]
  /\ Disturb

-----------------------------------------------------------------------------
(* trigger_sos and the broadcast.                                          *)

\* The row is flushed, not committed, and the broadcast begins.
TriggerSos(a) ==
  /\ alert[a] = "none"
  /\ alert' = [alert EXCEPT ![a] = "sending"]
  /\ cast' = [cast EXCEPT ![a].size = Cardinality(Listed)]
  /\ calm' = [calm EXCEPT ![a] = \A s \in Sockets : socket[s] # "gone"]
  /\ UNCHANGED <<table, told, held>>

EndBroadcast(a) ==
  /\ alert' = [alert EXCEPT ![a] = "ended"]
  /\ held' = [held EXCEPT ![a] = {}]
  /\ UNCHANGED <<table, cast, told, calm>>

\* Mutant: the exception is not caught, and the request rolled back.
MutFailBroadcast(a) ==
  /\ alert' = [alert EXCEPT ![a] = "none"]
  /\ held' = [held EXCEPT ![a] = {}]
  /\ UNCHANGED <<table, cast, told, calm>>

\* Every exception of the broadcast is swallowed.
FailBroadcast(a) == EndBroadcast(a)

Sending(a) == alert[a] = "sending" /\ held[a] = {}

AtSocket(a) == cast[a].list # 0 /\ cast[a].at < Len(lists[cast[a].list].socks)

Target(a) == lists[cast[a].list].socks[cast[a].at + 1]

\* Mutant: every other socket.
MutAdvance(a) == cast' = [cast EXCEPT ![a].at = @ + 2] /\ UNCHANGED <<table, alert, calm>>

Advance(a) == cast' = [cast EXCEPT ![a].at = @ + 1] /\ UNCHANGED <<table, alert, calm>>

Send(a) ==
  /\ Sending(a) /\ AtSocket(a)
  /\ Target(a) \in Up
  /\ told' = [told EXCEPT ![a][Target(a)] = @ + 1]
  /\ held' = [held EXCEPT ![a] = {Target(a)} \ {s \in Sockets : socket[s] = "open"}]
  /\ Advance(a)

\* A send to a peer that is gone is lost, or it raises.
SendLost(a) ==
  /\ Sending(a) /\ AtSocket(a)
  /\ Target(a) \notin Up
  /\ Advance(a) /\ UNCHANGED <<told, held>>

SendRaises(a) ==
  /\ Sending(a) /\ AtSocket(a)
  /\ Target(a) \notin Up
  /\ FailBroadcast(a)

\* The wait ends: the peer has read, or it is gone, and then the send may raise.
Released(a) ==
  /\ \E s \in held[a] : socket[s] # "stalled"
  /\ held' = [held EXCEPT ![a] = {}]
  /\ UNCHANGED <<table, alert, cast, told, calm>>

HeldRaises(a) ==
  /\ \E s \in held[a] : s \notin Up
  /\ FailBroadcast(a)

Later(a) == {i \in Listed : i > cast[a].list}

NextList(a) ==
  /\ Sending(a) /\ ~AtSocket(a)
  /\ cast[a].size = Cardinality(Listed) /\ Later(a) # {}
  /\ cast' = [cast EXCEPT ![a].list = CHOOSE i \in Later(a) : \A j \in Later(a) : i <= j,
                          ![a].at = 0]
  /\ UNCHANGED <<table, alert, told, held, calm>>

NoMoreLists(a) ==
  /\ Sending(a) /\ ~AtSocket(a)
  /\ cast[a].size = Cardinality(Listed) /\ Later(a) = {}
  /\ EndBroadcast(a)

\* "dictionary changed size during iteration"
DictChanged(a) ==
  /\ Sending(a) /\ ~AtSocket(a)
  /\ cast[a].size # Cardinality(Listed)
  /\ FailBroadcast(a)

\* The alert is committed when the request ends.
Commit(a) ==
  /\ alert[a] = "ended"
  /\ alert' = [alert EXCEPT ![a] = "active"]
  /\ UNCHANGED <<table, cast, told, held, calm>>

\* The request is cancelled or its connection to the database lost.
Lose(a) ==
  /\ alert[a] \in {"sending", "ended"}
  /\ alert' = [alert EXCEPT ![a] = "lost"]
  /\ held' = [held EXCEPT ![a] = {}]
  /\ UNCHANGED <<table, cast, told, calm>>

\* By an administrator or the user who raised it; also a second time.
ResolveSos(a) ==
  /\ alert[a] \in {"active", "resolved"}
  /\ alert' = [alert EXCEPT ![a] = "resolved"]
  /\ UNCHANGED <<table, cast, told, held, calm>>

-----------------------------------------------------------------------------
Step(a) == \/ Send(a) \/ SendLost(a) \/ SendRaises(a) \/ Released(a) \/ HeldRaises(a)
           \/ NextList(a) \/ NoMoreLists(a) \/ DictChanged(a) \/ Commit(a)

Next ==
  \/ \E s \in Sockets : \/ Stall(s) \/ Resume(s) \/ PeerGone(s) \/ Disconnect(s)
                        \/ \E u \in Users : Connect(s, u)
  \/ \E a \in Alerts : TriggerSos(a) \/ Step(a) \/ Lose(a) \/ ResolveSos(a)

Spec == Init /\ [][Next]_vars

\* The event loop resumes every task that can go on, a send also when its peer
\* stalls again after having read.
FairSpec == Spec /\ \A a \in Alerts : SF_vars(Step(a))

-----------------------------------------------------------------------------
(* Properties.                                                             *)

\* The table is the open sockets: each is in exactly one list of the dict, a
\* user has one list, and lists in the dict are not empty.
TableConsistent ==
  /\ \A s \in Up :
       Cardinality({i \in Listed : Contains(lists[i].socks, s)}) = 1
  /\ \A u \in Users : Cardinality(OfUser(u)) <= 1
  /\ \A i \in Listed : lists[i].socks # <<>>

\* However the table changes under the iterators, nobody gets an alert twice.
NobodyToldTwice == \A a \in Alerts, s \in Sockets : told[a][s] <= 1

\* A broadcast during which no socket comes or goes reaches every open one, also
\* those that stalled meanwhile.  (One that is disturbed may miss some.)
CalmReachesAll ==
  \A a \in Alerts :
    alert[a] \in {"ended", "active", "resolved"} /\ calm[a] =>
      \A s \in Up : told[a][s] = 1

\* The broadcast of a waits for a peer that does not read.
HeldUp(a) == \E s \in held[a] : socket[s] = "stalled"

\* Neither an exception nor what becomes of the table under the iterators keeps a
\* request from ending: its alert is stored, or lost with the request, unless one
\* and the same peer holds up the broadcast for ever.
OnlyStalledHoldsUp ==
  \A a \in Alerts :
    alert[a] = "sending" ~> (alert[a] \in {"active", "resolved", "lost"} \/ []HeldUp(a))
=============================================================================
