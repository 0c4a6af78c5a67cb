------------------------------ MODULE Payments ------------------------------
(***************************************************************************)
(* Invoices and the two ways to pay them: the mock gateway (checkout, then *)
(* a webhook) and bKash (initiate, then the redirect that calls back).     *)
(*                                                                         *)
(* Every request is a transaction of its own session, several at a time,   *)
(* as in RentalTx: SELECT ... FOR UPDATE keeps the row's lock until the    *)
(* end, writes are seen at the commit.  Calls to bKash happen inside the   *)
(* transaction but are not undone by its rollback.                         *)
(*                                                                         *)
(* bKash itself is external: a session is opened, authorised or cancelled  *)
(* by the customer, and executed by the callback, which moves the money.   *)
(* The customer may act on a session before the initiating request has     *)
(* committed: FastAPI (>= 0.118) commits after it has sent the response.   *)
(***************************************************************************)
EXTENDS Integers, FiniteSets, FiniteSetsExt

CONSTANTS
  Invoices,   \* a tenancy and a month: uq_tenancy_billing_month
  Payments,   \* identifiers of payments, each with its transaction reference
  Workers,    \* sessions that serve requests at the same time
  Totals,     \* what calculate_total may come to; adjustments may be negative
  NoRow

Channel       == {"TXN", "BK"}   \* the prefix of transaction_reference
InvoiceStatus == {"ISSUED", "PARTIALLY_PAID", "PAID"}
PaymentStatus == {"PENDING", "COMPLETED", "FAILED"}
SessionState  == {"none", "open", "authorised", "cancelled", "executed"}

InvoiceRow == [total_amount : Int, paid_amount : Int, status : InvoiceStatus]
PaymentRow == [invoice : Invoices, channel : Channel, amount : Int,
               status : PaymentStatus, gateway_id : {"none", "session", "trx"}]

ASSUME PaymentsAssumption ==
  /\ Totals \subseteq Int
  /\ NoRow \notin InvoiceRow /\ NoRow \notin PaymentRow

VARIABLES
  live,      \* whether the tenancy of the invoices is ACTIVE or NOTICE_SERVED
  invoice,   \* invoice[i]: the row of invoice i, or NoRow
  payment,   \* payment[p]: the row of payment p, or NoRow
  session,   \* session[p]: the bKash session opened for p
  req        \* req[w]: the request worker w is serving, or NoRow

rows == <<live, invoice, payment>>
vars == <<live, invoice, payment, session, req>>

\* at names the next statement of the request; i is its invoice (a settlement
\* learns it from the payment), status and total are what it asks for; saw is
\* the row of the invoice as it has read it.
Request ==
  [op : {"issue", "checkout", "initiate", "webhook", "callback"},
   at : {"insert", "invoice", "gateway", "payment", "execute", "credit"},
   i : Invoices \cup {NoRow}, p : Payments \cup {NoRow}, status : PaymentStatus \cup {NoRow},
   total : Totals \cup {NoRow}, saw : InvoiceRow \cup {NoRow}]

TypeOK ==
  /\ live \in BOOLEAN
  /\ invoice \in [Invoices -> InvoiceRow \cup {NoRow}]
  /\ payment \in [Payments -> PaymentRow \cup {NoRow}]
  /\ session \in [Payments -> SessionState]
  /\ req \in [Workers -> Request \cup {NoRow}]

Init ==
  /\ live = TRUE
  /\ invoice = [i \in Invoices |-> NoRow]
  /\ payment = [p \in Payments |-> NoRow]
  /\ session = [p \in Payments |-> "none"]
  /\ req = [w \in Workers |-> NoRow]

Busy(w)  == req[w] # NoRow
At(w, S) == Busy(w) /\ req[w].at \in S
Others(w) == {x \in Workers \ {w} : Busy(x)}

\* The row locks: a callback or webhook has its payment from its first
\* statement on, and the invoice before it credits it; a request that opens
\* a payment has the invoice.
PaymentLocked(p, w) ==
  \E x \in Others(w) :
    req[x].p = p /\ req[x].op \in {"webhook", "callback"} /\ ~At(x, {"payment"})

\* Mutant: the invoice is read without FOR UPDATE.
MutInvoiceUnlocked(i, w) == FALSE

InvoiceLocked(i, w) ==
  \E x \in Others(w) :
    /\ req[x].i = i /\ req[x].op # "issue"
    /\ At(x, {"gateway", "insert", "credit"})

Start(w, op, at, i, p, status, total) ==
  /\ ~Busy(w)
  /\ req' = [req EXCEPT ![w] =
               [op |-> op, at |-> at, i |-> i, p |-> p, status |-> status,
                total |-> total, saw |-> NoRow]]
  /\ UNCHANGED <<live, invoice, payment, session>>

Go(w, at) == req' = [req EXCEPT ![w].at = at]
End(w)    == req' = [req EXCEPT ![w] = NoRow]
Refuse(w) == End(w) /\ UNCHANGED <<live, invoice, payment, session>>

Pay(w, row) ==
  /\ payment' = [payment EXCEPT ![req[w].p] = row]
  /\ End(w)

-----------------------------------------------------------------------------
(* create_invoice.  The tenancy and the duplicate check are read without a *)
(* lock; the unique constraint is checked again when the row is inserted.  *)

BeginIssue(w, i, total) ==
  /\ live /\ invoice[i] = NoRow
  /\ Start(w, "issue", "insert", i, NoRow, NoRow, total)

Issue(w) ==
  /\ At(w, {"insert"}) /\ req[w].op = "issue"
  /\ invoice[req[w].i] = NoRow
  /\ invoice' = [invoice EXCEPT ![req[w].i] =
                   [total_amount |-> req[w].total, paid_amount |-> 0,
                    status |-> "ISSUED"]]
  /\ End(w)
  /\ UNCHANGED <<live, payment, session>>

IssueTwice(w) ==
  /\ At(w, {"insert"}) /\ req[w].op = "issue"
  /\ invoice[req[w].i] # NoRow
  /\ Refuse(w)

\* The tenancy is terminated (module Rental).
EndTenancy == live /\ live' = FALSE /\ UNCHANGED <<invoice, payment, session, req>>

-----------------------------------------------------------------------------
(* initiate_checkout and BkashService.initiate.                            *)

Unused(p) ==
  payment[p] = NoRow /\ session[p] = "none" /\ \A w \in Workers : Busy(w) => req[w].p # p

BeginPayment(w, op, i, p) ==
  /\ invoice[i] # NoRow /\ Unused(p)
  /\ Start(w, op, "invoice", i, p, NoRow, NoRow)

\* SELECT the invoice FOR UPDATE; it must not be paid already.
Opens(w) == At(w, {"invoice"}) /\ req[w].op \in {"checkout", "initiate"}

OpenInvoice(w) ==
  /\ Opens(w) /\ ~InvoiceLocked(req[w].i, w)
  /\ invoice[req[w].i].status # "PAID"
  /\ req' = [req EXCEPT ![w].saw = invoice[req[w].i],
                        ![w].at = IF req[w].op = "initiate" THEN "gateway" ELSE "insert"]
  /\ UNCHANGED <<live, invoice, payment, session>>

AlreadyPaid(w) ==
  /\ Opens(w) /\ ~InvoiceLocked(req[w].i, w)
  /\ invoice[req[w].i].status = "PAID"
  /\ Refuse(w)

\* create_payment: bKash opens a session; or it fails, or its answer is lost.
OpenSession(w) ==
  /\ At(w, {"gateway"})
  /\ session' = [session EXCEPT ![req[w].p] = "open"]
  /\ Go(w, "insert")
  /\ UNCHANGED rows

SessionFails(w) == At(w, {"gateway"}) /\ Refuse(w)

\* The payment is for what remained to be paid when the invoice was read.
InsertPayment(w) ==
  /\ At(w, {"insert"}) /\ req[w].op # "issue"
  /\ Pay(w, [invoice |-> req[w].i, status |-> "PENDING",
             amount |-> req[w].saw.total_amount - req[w].saw.paid_amount,
             channel |-> IF req[w].op = "initiate" THEN "BK" ELSE "TXN",
             gateway_id |-> IF req[w].op = "initiate" THEN "session" ELSE "none"])
  /\ UNCHANGED <<live, invoice, session>>

-----------------------------------------------------------------------------
(* process_webhook and execute_callback.                                   *)

\* A webhook may come at any time, again, and with any status.  (With status
\* PENDING or REFUNDED it changes nothing.)
BeginWebhook(w, p, status) ==
  /\ payment[p] # NoRow
  /\ status \in {"COMPLETED", "FAILED"}
  /\ Start(w, "webhook", "payment", NoRow, p, status, NoRow)

\* bKash redirects the customer's browser, which may repeat the request.
BeginCallback(w, p, status) ==
  /\ session[p] \in IF status = "COMPLETED" THEN {"authorised", "executed"}
                                            ELSE {"cancelled"}
  /\ Start(w, "callback", "payment", NoRow, p, status, NoRow)

Free(w) == At(w, {"payment"}) /\ ~PaymentLocked(req[w].p, w)

\* The payment is looked up by its transaction reference, or by the paymentID
\* of bKash, which a completed payment does not have any more.
Found(w) ==
  /\ payment[req[w].p] # NoRow
  /\ req[w].op = "callback" => payment[req[w].p].gateway_id = "session"

\* Mutant: no early return for a completed payment.
MutSettledNever(w) == ~Found(w)

Settled(w) == Found(w) => payment[req[w].p].status = "COMPLETED"

NothingToDo(w) == Free(w) /\ Settled(w) /\ Refuse(w)

\* Mutant: the mock gateway vouches for every reference.
MutVouchedAny(w) == req[w].status = "COMPLETED"

\* The mock gateway vouches for references that begin with "TXN-".
Vouched(w) ==
  /\ req[w].op = "webhook" => payment[req[w].p].channel = "TXN"
  /\ req[w].status = "COMPLETED"

MarkFailed(w) ==
  /\ Free(w) /\ ~Settled(w) /\ ~Vouched(w)
  /\ Pay(w, [payment[req[w].p] EXCEPT !.status = "FAILED"])
  /\ UNCHANGED <<live, invoice, session>>

Approve(w) ==
  /\ Free(w) /\ ~Settled(w) /\ Vouched(w)
  /\ req' = [req EXCEPT ![w].i = payment[req[w].p].invoice,
                        ![w].at = IF req[w].op = "callback" THEN "execute" ELSE "invoice"]
  /\ UNCHANGED <<rows, session>>

\* execute_payment moves the money, once.
Execute(w) ==
  /\ At(w, {"execute"}) /\ session[req[w].p] = "authorised"
  /\ session' = [session EXCEPT ![req[w].p] = "executed"]
  /\ Go(w, "invoice")
  /\ UNCHANGED rows

\* It is executed, but the answer does not arrive within the timeout.
ExecuteUnheard(w) ==
  /\ At(w, {"execute"}) /\ session[req[w].p] = "authorised"
  /\ session' = [session EXCEPT ![req[w].p] = "executed"]
  /\ End(w)
  /\ UNCHANGED rows

\* Mutant: the call has no timeout, and bKash does not answer a second time.
MutExecuteWaits(w) ==
  At(w, {"execute"}) /\ session[req[w].p] # "executed" /\ Refuse(w)

\* bKash does not answer, or answers with an error: always so the second time.
ExecuteFails(w) == At(w, {"execute"}) /\ Refuse(w)

\* bKash answers that the transaction is not "Completed".
ExecuteIncomplete(w) ==
  /\ At(w, {"execute"}) /\ session[req[w].p] = "authorised"
  /\ Pay(w, [payment[req[w].p] EXCEPT !.status = "FAILED"])
  /\ UNCHANGED <<live, invoice, session>>

LockInvoice(w) ==
  /\ At(w, {"invoice"}) /\ ~Opens(w) /\ ~InvoiceLocked(req[w].i, w)
  /\ req' = [req EXCEPT ![w].at = "credit", ![w].saw = invoice[req[w].i]]
  /\ UNCHANGED <<rows, session>>

\* Mutants: > for >=; the payment's enumeration for the invoice's.
MutCreditedMore(row, amount) ==
  LET paid == row.paid_amount + amount
  IN [row EXCEPT !.paid_amount = paid,
                 !.status = IF paid > row.total_amount THEN "PAID"
                            ELSE IF paid > 0 THEN "PARTIALLY_PAID" ELSE @]

MutCreditedCompleted(row, amount) ==
  [row EXCEPT !.paid_amount = @ + amount, !.status = "COMPLETED"]

Credited(row, amount) ==
  LET paid == row.paid_amount + amount
  IN [row EXCEPT !.paid_amount = paid,
                 !.status = IF paid >= row.total_amount THEN "PAID"
                            ELSE IF paid > 0 THEN "PARTIALLY_PAID" ELSE @]

Credit(w) ==
  LET p == req[w].p
  IN /\ At(w, {"credit"})
     /\ invoice' = [invoice EXCEPT ![req[w].i] =
                      Credited(req[w].saw, payment[p].amount)]
     /\ Pay(w, [payment[p] EXCEPT !.status = "COMPLETED", !.gateway_id = "trx"])
     /\ UNCHANGED <<live, session>>

\* The connection or the process is lost before the commit.
Crash(w) == Busy(w) /\ Refuse(w)

-----------------------------------------------------------------------------
(* The customer at bKash.                                                  *)

Authorise(p) ==
  /\ session[p] = "open"
  /\ session' = [session EXCEPT ![p] = "authorised"]
  /\ UNCHANGED <<rows, req>>

Cancel(p) ==
  /\ session[p] = "open"
  /\ session' = [session EXCEPT ![p] = "cancelled"]
  /\ UNCHANGED <<rows, req>>

-----------------------------------------------------------------------------
Step(w) ==
  \/ Issue(w) \/ IssueTwice(w)
  \/ OpenInvoice(w) \/ AlreadyPaid(w)
  \/ OpenSession(w) \/ SessionFails(w) \/ InsertPayment(w)
  \/ NothingToDo(w) \/ MarkFailed(w) \/ Approve(w)
  \/ Execute(w) \/ ExecuteUnheard(w) \/ ExecuteFails(w) \/ ExecuteIncomplete(w)
  \/ LockInvoice(w) \/ Credit(w)

BeginSome(w) ==
  \/ \E i \in Invoices, total \in Totals : BeginIssue(w, i, total)
  \/ \E i \in Invoices, p \in Payments : BeginPayment(w, "checkout", i, p)
  \/ \E i \in Invoices, p \in Payments : BeginPayment(w, "initiate", i, p)
  \/ \E p \in Payments, status \in PaymentStatus : BeginWebhook(w, p, status)
  \/ \E p \in Payments, status \in {"COMPLETED", "FAILED"} : BeginCallback(w, p, status)

Next ==
  \/ \E w \in Workers : BeginSome(w) \/ Step(w) \/ Crash(w)
  \/ \E p \in Payments : Authorise(p) \/ Cancel(p)
  \/ EndTenancy

Spec == Init /\ [][Next]_vars

\* A handler that is not waiting for a lock goes on: bKash answers or the call
\* times out, and waiters for a row are served in turn.
FairSpec == Spec /\ \A w \in Workers : SF_vars(Step(w))

-----------------------------------------------------------------------------
(* Properties.                                                             *)

Paying(i) == {p \in Payments : /\ payment[p] # NoRow
                               /\ payment[p].invoice = i
                               /\ payment[p].status = "COMPLETED"}

\* The ledger balances: what an invoice counts as paid is the sum of its
\* completed payments, each credited once, whatever callbacks and webhooks are
\* repeated, overlap, or are cut off by a crash.
LedgerBalances ==
  \A i \in Invoices :
    invoice[i] # NoRow =>
      invoice[i].paid_amount = MapThenSumSet(LAMBDA p : payment[p].amount, Paying(i))

\* An invoice is PAID exactly when some payment of it has completed: a payment
\* is always for the whole balance, so none is covered in part, and an invoice
\* that still owes can be paid.
PaidIffCompleted ==
  \A i \in Invoices :
    invoice[i] # NoRow => (invoice[i].status = "PAID" <=> Paying(i) # {})

\* Nothing is credited for a bKash payment whose money was not moved.
CompletedWasExecuted ==
  \A p \in Payments :
    payment[p] # NoRow /\ payment[p].channel = "BK" /\ payment[p].status = "COMPLETED"
      => session[p] = "executed"

\* The invoice lock covers the creation of a payment: when the row appears
\* the invoice is still open and the amount is still what remains to be paid,
\* even though bKash was called in between.
PaymentForBalance ==
  [][\A p \in Payments :
       payment[p] = NoRow /\ payment'[p] # NoRow =>
         LET inv == invoice[payment'[p].invoice]
         IN /\ inv.status # "PAID"
            /\ payment'[p].amount = inv.total_amount - inv.paid_amount]_vars

\* A completed payment is final: no repeated callback or webhook, and no late
\* cancellation, changes it.
CompletedIsFinal ==
  [][\A p \in Payments :
       payment[p] # NoRow /\ payment[p].status = "COMPLETED"
         => payment'[p] = payment[p]]_vars

\* Every request ends, although callbacks keep a payment locked while they
\* call bKash, and wait for the invoice with it.
EveryRequestEnds == \A w \in Workers : Busy(w) ~> ~Busy(w)
=============================================================================
