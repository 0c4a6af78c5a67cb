------------------------------ MODULE Community ------------------------------
(***************************************************************************)
(* Living together in the property of Rental: building notices with their  *)
(* notifications and read receipts, and complaints.  The requests read the *)
(* rows that Rental's handlers write, one statement at a time, while those *)
(* handlers go on; as everywhere, a commit writes the columns whose value  *)
(* differs from the one read, and a request that is refused, raises or is  *)
(* cut off leaves no trace (GiveUp).                                       *)
(*                                                                         *)
(* Of Rental's handlers those are taken that make a difference to these    *)
(* requests (LettingStep), from a published property on.  Titles, texts,   *)
(* priorities, costs and deadlines are left out, and notifications on      *)
(* other subjects.                                                         *)
(***************************************************************************)
EXTENDS Rental

CONSTANTS
  Notices, Complaints,  \* identifiers of notices and complaints
  Verdicts,             \* the statuses that owners give to complaints
  Workers, Allowed      \* Allowed[w]: the requests that worker w serves

NoticeState     == {"unused", "published", "deleted"}
ComplaintStatus == {"OPEN", "ACKNOWLEDGED", "IN_PROGRESS", "RESOLVED", "CLOSED", "REOPENED"}
ComplaintRow    == [tenant : Tenants, tenancy : Bookings \cup {NoRow},
                    status : ComplaintStatus, resolved : BOOLEAN]
NotificationRow == [is_read : BOOLEAN]

\* Requests in progress.  entitled and late are for the properties: the bookings
\* that entitled to notices at the start, and whether the notice had been read.
PostRequest      == [op : {"post"}, at : {"tenancies", "bookings", "write"}, n : Notices,
                     recipients : SUBSET Tenants, entitled : SUBSET Bookings]
ReadRequest      == [op : {"read"}, at : {"check", "write"}, n : Notices, u : Tenants,
                     late : BOOLEAN]
ComplainRequest  == [op : {"complain"}, at : {"tenancy", "write"}, c : Complaints,
                     u : Tenants, b : Bookings \cup {NoRow}]
HandleRequest    == [op : {"update", "reopen"}, at : {"read", "write"}, c : Complaints,
                     to : ComplaintStatus, saw : ComplaintRow \cup {NoRow}]
Request == PostRequest \cup ReadRequest \cup ComplainRequest \cup HandleRequest

ASSUME CommunityAssumption ==
  /\ IsFiniteSet(Workers)
  /\ Verdicts \subseteq ComplaintStatus
  /\ NoRow \notin Request /\ NoRow \notin ComplaintRow /\ NoRow \notin NotificationRow

VARIABLES
  notice,        \* notice[n]: unused, published or deleted
  notification,  \* notification[n][u]: the notification of n to u, or NoRow
  receipts,      \* receipts[n][u]: how many read receipts of n user u has
  complaint,     \* complaint[c]: the row of complaint c, or NoRow
  req            \* req[w]: the request worker w is serving, or NoRow

board == <<notice, notification, receipts>>
communityVars == <<vars, board, complaint, req>>

CommunityTypeOK ==
  /\ TypeOK
  /\ notice \in [Notices -> NoticeState]
  /\ notification \in [Notices -> [Tenants -> NotificationRow \cup {NoRow}]]
  /\ receipts \in [Notices -> [Tenants -> 0..Cardinality(Workers)]]
  /\ complaint \in [Complaints -> ComplaintRow \cup {NoRow}]
  /\ req \in [Workers -> Request \cup {NoRow}]

CommunityInit ==
  /\ Init /\ is_published = TRUE
  /\ notice = [n \in Notices |-> "unused"]
  /\ notification = [n \in Notices |-> [u \in Tenants |-> NoRow]]
  /\ receipts = [n \in Notices |-> [u \in Tenants |-> 0]]
  /\ complaint = [c \in Complaints |-> NoRow]
  /\ req = [w \in Workers |-> NoRow]

Busy(w)       == req[w] # NoRow
At(w, op, at) == Busy(w) /\ req[w].op = op /\ req[w].at = at
Serving(op)   == {w \in Workers : Busy(w) /\ req[w].op = op}

Begin(w, r) == /\ ~Busy(w) /\ r.op \in Allowed[w]
               /\ req' = [req EXCEPT ![w] = r]
               /\ UNCHANGED <<vars, board, complaint>>
Read(w, r)  == req' = [req EXCEPT ![w] = r] /\ UNCHANGED <<vars, board, complaint>>
End(w)      == req' = [req EXCEPT ![w] = NoRow]
GiveUp(w)   == Busy(w) /\ End(w) /\ UNCHANGED <<vars, board, complaint>>

-----------------------------------------------------------------------------
(* Building notices.                                                       *)

Granted == {"APPROVED_BY_OWNER", "DEPOSIT_PAID"}   \* ACTIVE is never set

\* list_tenant_notices shows the tenant of b the notices of the property.
Entitles(b) == Live(b) \/ HasStatus(b, Granted)

\* create_notice: the INSERT keeps the property's row from being deleted.
BeginPost(w, n) ==
  /\ is_published # NoRow
  /\ notice[n] = "unused" /\ \A x \in Serving("post") : req[x].n # n
  /\ Begin(w, [op |-> "post", at |-> "tenancies", n |-> n, recipients |-> {},
               entitled |-> {b \in Bookings : Entitles(b)}])

ReadTenancyTenants(w) ==
  /\ At(w, "post", "tenancies")
  /\ Read(w, [req[w] EXCEPT !.at = "bookings",
                !.recipients = {booking[b].tenant : b \in {x \in Bookings : Live(x)}}])

\* Mutant: whoever has paid counts as a tenant, hence as notified already.
MutBookingTenants == {booking[b].tenant : b \in {x \in Bookings :
                                              HasStatus(x, {"APPROVED_BY_OWNER"})}}

BookingTenants == {booking[b].tenant : b \in {x \in Bookings : HasStatus(x, Granted)}}

ReadBookingTenants(w) ==
  /\ At(w, "post", "bookings")
  /\ Read(w, [req[w] EXCEPT !.at = "write", !.recipients = @ \cup BookingTenants])

Publish(w) ==
  LET r == req[w]
  IN /\ At(w, "post", "write")
     /\ notice' = [notice EXCEPT ![r.n] = "published"]
     /\ notification' = [notification EXCEPT ![r.n] =
          [u \in Tenants |-> IF u \in r.recipients THEN [is_read |-> FALSE] ELSE NoRow]]
     /\ End(w)
     /\ UNCHANGED <<vars, receipts, complaint>>

\* The notifications stay; the receipts go with the notice.
DeleteNotice(n) ==
  /\ notice[n] = "published"
  /\ notice' = [notice EXCEPT ![n] = "deleted"]
  /\ receipts' = [receipts EXCEPT ![n] = [u \in Tenants |-> 0]]
  /\ UNCHANGED <<vars, notification, complaint, req>>

\* mark_as_read of one notification, which is locked; a second time as well.
MarkNotification(n, u) ==
  /\ notification[n][u] # NoRow
  /\ notification' = [notification EXCEPT ![n][u].is_read = TRUE]
  /\ UNCHANGED <<vars, notice, receipts, complaint, req>>

\* mark_all_as_read, in one UPDATE.
MarkAll(u) ==
  /\ notification' = [n \in Notices |->
                        IF notification[n][u] = NoRow THEN notification[n]
                        ELSE [notification[n] EXCEPT ![u].is_read = TRUE]]
  /\ UNCHANGED <<vars, notice, receipts, complaint, req>>

\* mark_read, for any notice that anybody has seen.
BeginRead(w, n, u) ==
  /\ notice[n] # "unused"
  /\ Begin(w, [op |-> "read", at |-> "check", n |-> n, u |-> u,
               late |-> receipts[n][u] > 0])

\* Mutant: no check for a receipt.
MutCheckReceipt(w) == At(w, "read", "check") /\ Read(w, [req[w] EXCEPT !.at = "write"])

\* Done with one receipt, and an exception with two: both are GiveUp.
CheckReceipt(w) ==
  /\ At(w, "read", "check")
  /\ receipts[req[w].n][req[w].u] = 0
  /\ Read(w, [req[w] EXCEPT !.at = "write"])

\* The foreign key refuses a receipt for a deleted notice.
WriteReceipt(w) ==
  /\ At(w, "read", "write")
  /\ notice[req[w].n] = "published"
  /\ receipts' = [receipts EXCEPT ![req[w].n][req[w].u] = @ + 1]
  /\ End(w)
  /\ UNCHANGED <<vars, notice, notification, complaint>>

-----------------------------------------------------------------------------
(* Complaints.                                                             *)

BeginComplain(w, c, u) ==
  /\ complaint[c] = NoRow
  /\ \A x \in Serving("complain") \cup Serving("update") \cup Serving("reopen") : req[x].c # c
  /\ Begin(w, [op |-> "complain", at |-> "tenancy", c |-> c, u |-> u, b |-> NoRow])

TenanciesOf(u) == {b \in Bookings : tenancy[b] # NoRow /\ booking[b].tenant = u}

\* scalar_one_or_none raises when the user had a tenancy here before.
FindTenancy(w) ==
  /\ At(w, "complain", "tenancy")
  /\ \/ TenanciesOf(req[w].u) = {} /\ Read(w, [req[w] EXCEPT !.at = "write"])
     \/ \E b \in Bookings : /\ TenanciesOf(req[w].u) = {b}
                            /\ Read(w, [req[w] EXCEPT !.at = "write", !.b = b])

\* The foreign keys refuse a property or a tenancy that has gone meanwhile.
FileComplaint(w) ==
  LET r == req[w]
  IN /\ At(w, "complain", "write")
     /\ is_published # NoRow
     /\ r.b # NoRow => tenancy[r.b] # NoRow
     /\ complaint' = [complaint EXCEPT ![r.c] =
                        [tenant |-> r.u, tenancy |-> r.b, status |-> "OPEN",
                         resolved |-> FALSE]]
     /\ End(w)
     /\ UNCHANGED <<vars, board>>

BeginHandle(w, op, c, to) ==
  /\ complaint[c] # NoRow
  /\ Begin(w, [op |-> op, at |-> "read", c |-> c, to |-> to, saw |-> NoRow])

ReadComplaint(w) ==
  /\ At(w, "update", "read") \/ At(w, "reopen", "read")
  /\ complaint[req[w].c] # NoRow
  /\ Read(w, [req[w] EXCEPT !.at = "write", !.saw = complaint[req[w].c]])

\* Mutant: only RESOLVED is stamped.
MutStamped(r, row) ==
  IF r.op = "reopen" THEN r.saw.resolved = FALSE /\ row.resolved
  ELSE r.to = "RESOLVED" \/ row.resolved

\* resolved_at after the commit: a new time for RESOLVED and CLOSED, NULL after
\* a reopening that has seen a time, else what it is.
Stamped(r, row) ==
  IF r.op = "reopen" THEN ~r.saw.resolved /\ row.resolved
  ELSE r.to \in {"RESOLVED", "CLOSED"} \/ row.resolved

\* update_status, to any status from any status, and reopen_complaint.
WriteStatus(w) ==
  LET r == req[w]
      row == complaint[r.c]
  IN /\ At(w, "update", "write") \/ At(w, "reopen", "write")
     /\ row # NoRow
     /\ complaint' = [complaint EXCEPT
                        ![r.c].status = IF r.to = r.saw.status THEN @ ELSE r.to,
                        ![r.c].resolved = Stamped(r, row)]
     /\ End(w)
     /\ UNCHANGED <<vars, board>>

-----------------------------------------------------------------------------
Referred(b) == \/ \E w \in Serving("complain") : req[w].b = b
               \/ \E w \in Serving("post") : b \in req[w].entitled

\* The handlers of Rental that make a difference to the requests above.  A new row does
\* not get the identifier of a deleted one that a request still refers to.
LettingStep ==
  \/ DeleteProperty
  \/ \E r \in Rooms : CreateRoom(r) \/ DeleteRoom(r)
  \/ \E b \in Bookings, t \in Tenants, r \in Rooms, v \in FirstVisit :
       CreateBookingRequest(b, t, r, NoSeat, v) /\ ~Referred(b)
  \/ \E b \in Bookings : CancelBooking(b) \/ OwnerApprove(b) \/ PayAdvance(b)
                         \/ TerminateTenancy(b)

\* Mutant: the foreign key of tenancy_id does not say ON DELETE SET NULL.
MutComplaintAfter(c) == IF is_published' = NoRow THEN NoRow ELSE complaint[c]

\* What the foreign keys leave of a complaint after such a step.
ComplaintAfter(c) ==
  IF complaint[c] = NoRow \/ is_published' = NoRow THEN NoRow
  ELSE IF complaint[c].tenancy # NoRow /\ tenancy'[complaint[c].tenancy] = NoRow
       THEN [complaint[c] EXCEPT !.tenancy = NoRow]
       ELSE complaint[c]

\* Notices and complaints are deleted with the property, which waits for a
\* notice that is being published.
Letting ==
  /\ LettingStep
  /\ is_published' = NoRow => Serving("post") = {}
  /\ complaint' = [c \in Complaints |-> ComplaintAfter(c)]
  /\ IF is_published' = NoRow
     THEN /\ notice' = [n \in Notices |-> IF notice[n] = "published" THEN "deleted" ELSE notice[n]]
          /\ receipts' = [n \in Notices |-> [u \in Tenants |-> 0]]
     ELSE UNCHANGED <<notice, receipts>>
  /\ UNCHANGED <<notification, req>>

CommunityNext ==
  \/ Letting
  \/ \E n \in Notices : DeleteNotice(n)
  \/ \E u \in Tenants : MarkAll(u) \/ \E n \in Notices : MarkNotification(n, u)
  \/ \E w \in Workers :
       \/ \E n \in Notices : BeginPost(w, n) \/ \E u \in Tenants : BeginRead(w, n, u)
       \/ ReadTenancyTenants(w) \/ ReadBookingTenants(w) \/ Publish(w)
       \/ CheckReceipt(w) \/ WriteReceipt(w)
       \/ \E c \in Complaints, u \in Tenants : BeginComplain(w, c, u)
       \/ \E c \in Complaints, to \in Verdicts : BeginHandle(w, "update", c, to)
       \/ \E c \in Complaints : BeginHandle(w, "reopen", c, "REOPENED")
       \/ FindTenancy(w) \/ FileComplaint(w) \/ ReadComplaint(w) \/ WriteStatus(w)
       \/ GiveUp(w)

CommunitySpec == CommunityInit /\ [][CommunityNext]_communityVars

\* The notices that user u finds among the notifications.
Inbox(u) == {n \in Notices : notification[n][u] # NoRow}

-----------------------------------------------------------------------------
(* Properties.                                                             *)

\* Nobody misses a notice: whoever finds it in the list when it appears, by a
\* booking that was granted when its publication began, has a notification,
\* whatever was approved, paid, ended or deleted between the two queries.
ResidentsNotified ==
  [][\A w \in Workers : Publish(w) =>
       \A b \in req[w].entitled :
         Entitles(b) => req[w].n \in Inbox(booking[b].tenant)']_communityVars

\* Reading a notice again changes nothing: only requests that overlap the
\* first can leave a second receipt.
NoLateReceipt ==
  [][\A w \in Workers : At(w, "read", "write") /\ req[w].late =>
       receipts'[req[w].n][req[w].u] <= receipts[req[w].n][req[w].u]]_communityVars

\* A complaint points to a tenancy of the user who filed it or to none, also
\* when rooms and their tenancies are deleted while it is filed.
ComplaintOfTenant ==
  \A c \in Complaints :
    complaint[c] # NoRow /\ complaint[c].tenancy # NoRow =>
      complaint[c].tenancy \in TenanciesOf(complaint[c].tenant)

\* Complaints are handled one request at a time in this instance: one that is
\* resolved or closed has its time of resolution, whatever it went through.
ResolvedStamped ==
  \A c \in Complaints :
    complaint[c] # NoRow /\ complaint[c].status \in {"RESOLVED", "CLOSED"}
      => complaint[c].resolved
=============================================================================
