--------------------------- MODULE Payments_proofs ---------------------------
(***************************************************************************)
(* Proofs about Payments, for any number of invoices, payments, requests   *)
(* and any totals.                                                         *)
(*                                                                         *)
(* The argument: a request that has locked a row still knows it (Fine),    *)
(* and no two requests have the same row (Apart).  So every payment is     *)
(* opened for the whole total, an invoice is ISSUED with nothing paid or   *)
(* PAID for good (Books), and a credit adds exactly one payment to those   *)
(* that count (the lemmas on sums).                                        *)
(***************************************************************************)
EXTENDS Payments, FiniteSetTheorems, WellFoundedInduction, TLAPS

-----------------------------------------------------------------------------
(* Sums over finite sets of rows: what MapThenSumSet, a fold that takes the *)
(* elements in the order CHOOSE gives them, adds up does not depend on the  *)
(* order.  A set of the subsets on which a claim about the sum fails is     *)
(* empty, since none of its members is smallest.                            *)

\* Induction on subsets of a finite set: what fails nowhere first, fails nowhere.
LEMMA SubsetInduction ==
  ASSUME NEW S, IsFiniteSet(S), NEW Bad \in SUBSET SUBSET S,
         \A s \in Bad : \E x \in s : s \ {x} \in Bad
  PROVE  Bad = {}
<1> SUFFICES ASSUME Bad # {} PROVE FALSE
  OBVIOUS
<1>1. Bad \subseteq FiniteSubsetsOf(S)
  BY FS_Subset DEF FiniteSubsetsOf
<1>2. PICK s \in Bad : \A t \in Bad : ~ (<<t, s>> \in StrictSubsetOrdering(S))
  BY <1>1, FS_StrictSubsetOrderingWellFounded, WFMin
<1>3. PICK x \in s : s \ {x} \in Bad
  OBVIOUS
<1> QED BY <1>2, <1>3 DEF StrictSubsetOrdering

\* A non-empty set of naturals has a smallest element.
LEMMA LeastNatural ==
  ASSUME NEW T \in SUBSET Nat, T # {}
  PROVE  \E x \in T : \A y \in T : x <= y
<1>1. PICK x \in T : \A y \in T : ~ (<<y, x>> \in OpToRel(<, Nat))
  BY NatLessThanWellFounded, WFMin
<1>2. \A y \in T : ~ (y < x)
  BY <1>1 DEF OpToRel
<1> QED BY <1>2

\* The rows of S have amounts; S is part of T; the amounts of S stay the same.
Amounts(row, S)   == \A x \in S : row[x].amount \in Int
Within(S, T)      == S \subseteq T
Same(row, new, S) == \A x \in S : new[x].amount = row[x].amount

\* The element a fold takes first.
First(s) == CHOOSE x \in s : TRUE

\* The functions that satisfy the fold's equation, on the sets in D.
SumsOn(row, D) == {g \in [D -> Int] :
  \A s \in D : g[s] = IF s = {} THEN 0 ELSE row[First(s)].amount + g[s \ {First(s)}]}

Sums(row, S) == SumsOn(row, SUBSET S)

\* There is such a function, on the subsets of each size.
LEMMA SumsExist ==
  ASSUME NEW row, NEW S, IsFiniteSet(S), Amounts(row, S)
  PROVE  Sums(row, S) # {}
<1> DEFINE Upto(n) == {s \in SUBSET S : Cardinality(s) <= n}
           None == {n \in Nat : SumsOn(row, Upto(n)) = {}}
<1>0. \A s \in SUBSET S : /\ IsFiniteSet(s) /\ Cardinality(s) \in Nat
                          /\ s # {} => /\ First(s) \in s /\ Cardinality(s) # 0
                                       /\ Cardinality(s \ {First(s)}) = Cardinality(s) - 1
  <2> SUFFICES ASSUME NEW s \in SUBSET S
               PROVE /\ IsFiniteSet(s) /\ Cardinality(s) \in Nat
                     /\ s # {} => /\ First(s) \in s /\ Cardinality(s) # 0
                                  /\ Cardinality(s \ {First(s)}) = Cardinality(s) - 1
    OBVIOUS
  <2>1. IsFiniteSet(s) /\ Cardinality(s) \in Nat
    BY FS_Subset, FS_CardinalityType
  <2>2. ASSUME s # {} PROVE First(s) \in s
    BY <2>2 DEF First
  <2> QED BY <2>1, <2>2, FS_EmptySet, FS_RemoveElement
<1>1. \A n \in Nat : \A s : s \in Upto(n) <=> s \in SUBSET S /\ Cardinality(s) <= n
  OBVIOUS
<1> HIDE DEF Upto
<1>2. None = {}
  <2> SUFFICES ASSUME None # {} PROVE FALSE
    OBVIOUS
  <2>1. PICK n \in None : \A m \in None : n <= m
    BY LeastNatural
  <2>2. CASE n = 0
    <3>1. \A s \in Upto(n) : s = {}
      <4> SUFFICES ASSUME NEW s \in Upto(n), s # {} PROVE FALSE
        OBVIOUS
      <4>1. s \in SUBSET S /\ Cardinality(s) <= 0
        BY <2>2, <1>1
      <4>2. Cardinality(s) \in Nat /\ Cardinality(s) # 0
        BY <4>1, <1>0
      <4> QED BY <4>1, <4>2
    <3>2. [s \in Upto(n) |-> 0] \in SumsOn(row, Upto(n))
      BY <3>1 DEF SumsOn
    <3> QED BY <3>2
  <2>3. CASE n # 0
    <3>1. n - 1 \in Nat /\ n - 1 \notin None
      BY <2>1, <2>3
    <3>2. PICK g : g \in SumsOn(row, Upto(n - 1))
      BY <3>1
    <3> DEFINE h == [s \in Upto(n) |->
                       IF s = {} THEN 0 ELSE row[First(s)].amount + g[s \ {First(s)}]]
    <3>3. \A s \in Upto(n) : s # {} => s \ {First(s)} \in Upto(n - 1) /\ s \ {First(s)} \in Upto(n)
      BY <3>1, <1>0, <1>1
    <3>4. \A s \in Upto(n - 1) : h[s] = g[s]
      <4>1. \A s \in Upto(n - 1) : s \in Upto(n)
        <5> SUFFICES ASSUME NEW s \in Upto(n - 1) PROVE s \in Upto(n)
          OBVIOUS
        <5>1. s \in SUBSET S /\ Cardinality(s) <= n - 1
          BY <3>1, <1>1
        <5>2. Cardinality(s) \in Nat
          BY <5>1, <1>0
        <5>3. Cardinality(s) <= n
          BY <5>1, <5>2
        <5> QED BY <5>1, <5>3, <1>1
      <4> QED BY <3>2, <4>1 DEF SumsOn
    <3>5. h \in [Upto(n) -> Int]
      BY <3>2, <3>3, <1>0, <1>1 DEF SumsOn, Amounts
    <3>6. h \in SumsOn(row, Upto(n))
      BY <3>3, <3>4, <3>5 DEF SumsOn
    <3> QED BY <3>6
  <2> QED BY <2>2, <2>3
<1>3. Upto(Cardinality(S)) = SUBSET S
  BY FS_Subset, <1>0, <1>1
<1> QED BY <1>0, <1>2, <1>3 DEF Sums

\* The sum LedgerBalances speaks of is one of them.
SumOf(row, S) == MapThenSumSet(LAMBDA p : row[p].amount, S)

\* The fold of the community modules is one of these sums by the first element.
LEMMA SumByFirst ==
  ASSUME NEW row, NEW S, IsFiniteSet(S), Amounts(row, S)
  PROVE  \E g \in Sums(row, S) : SumOf(row, S) = g[S]
<1> DEFINE Def(g) == g = [s \in SUBSET S |-> IF s = {} THEN 0
                            ELSE row[CHOOSE x \in s : TRUE].amount + g[s \ {CHOOSE x \in s : TRUE}]]
           fold == CHOOSE g : Def(g)
<1>1. SumOf(row, S) = fold[S]
  BY DEF SumOf, MapThenSumSet, MapThenFoldSet
<1>2. PICK g : g \in Sums(row, S)
  BY SumsExist
<1>3. Def(g)
  BY <1>2 DEF Sums, SumsOn, First
<1>4. Def(fold)
  BY <1>3
<1> HIDE DEF fold
<1>5. \A s \in SUBSET S : fold[s] =
        IF s = {} THEN 0 ELSE row[First(s)].amount + fold[s \ {First(s)}]
  BY <1>4 DEF First
<1> DEFINE Bad == {s \in SUBSET S : fold[s] \notin Int}
<1>6. \A s \in Bad : First(s) \in s /\ s \ {First(s)} \in Bad
  <2> SUFFICES ASSUME NEW s \in Bad PROVE First(s) \in s /\ s \ {First(s)} \in Bad
    OBVIOUS
  <2>1. s # {}
    <3>1. fold[{}] = 0
      BY <1>5
    <3> QED BY <3>1
  <2>2. First(s) \in s
    BY <2>1 DEF First
  <2> QED BY <1>5, <2>1, <2>2 DEF Amounts
<1>7. Bad = {}
  <2> HIDE DEF Bad
  <2>1. Bad \in SUBSET SUBSET S BY DEF Bad
  <2> QED BY <1>6, <2>1, SubsetInduction
<1>8. fold \in [SUBSET S -> Int]
  BY <1>4, <1>7
<1> QED BY <1>1, <1>5, <1>8 DEF Sums, SumsOn

\* The order in which the fold takes its elements does not matter.
LEMMA SumByAny ==
  ASSUME NEW row, NEW S, IsFiniteSet(S), Amounts(row, S),
         NEW g \in Sums(row, S)
  PROVE  \A x \in S : g[S] = row[x].amount + g[S \ {x}]
<1> DEFINE Bad == {s \in SUBSET S : \E x \in s : g[s] # row[x].amount + g[s \ {x}]}
<1>1. ASSUME NEW s \in Bad PROVE \E x \in s : s \ {x} \in Bad
  <2>1. PICK x \in s : g[s] # row[x].amount + g[s \ {x}]
    OBVIOUS
  <2> DEFINE y == First(s)
  <2>2. y \in s /\ g[s] = row[y].amount + g[s \ {y}]
    BY DEF First, Sums, SumsOn
  <2> HIDE DEF y
  <2>3. x # y
    BY <2>1, <2>2
  <2>4. (s \ {y}) \ {x} = (s \ {x}) \ {y}
    OBVIOUS
  <2>5. /\ s \ {x} \in SUBSET S /\ s \ {y} \in SUBSET S /\ (s \ {x}) \ {y} \in SUBSET S
        /\ x \in s \ {y} /\ y \in s \ {x}
    BY <2>2, <2>3
  <2>6. g[(s \ {x}) \ {y}] \in Int /\ g[s \ {y}] \in Int /\ g[s \ {x}] \in Int
       /\ row[x].amount \in Int /\ row[y].amount \in Int
    BY <2>2, <2>5 DEF Sums, SumsOn, Amounts
  <2> DEFINE rest == g[(s \ {x}) \ {y}]
  <2>7. g[(s \ {y}) \ {x}] = rest
    BY <2>4
  <2>8. rest \in Int
    BY <2>6
  <2> HIDE DEF rest
  <2>9. ~ (g[s \ {y}] = row[x].amount + rest /\ g[s \ {x}] = row[y].amount + rest)
    BY <2>1, <2>2, <2>6, <2>8
  <2> QED BY <2>2, <2>5, <2>9, <2>7 DEF rest
<1>2. Bad = {}
  <2>1. Bad \in SUBSET SUBSET S OBVIOUS
  <2> HIDE DEF Bad
  <2> QED BY <1>1, <2>1, SubsetInduction
<1> QED BY <1>2

\* A sum over a set depends on the values there only.
LEMMA SumsAgree ==
  ASSUME NEW row, NEW new, NEW S, IsFiniteSet(S), NEW T, Within(S, T),
         Same(row, new, S),
         NEW g \in Sums(row, S), NEW h \in Sums(new, T)
  PROVE  h[S] = g[S]
<1> DEFINE Bad == {s \in SUBSET S : h[s] # g[s]}
<1>1. ASSUME NEW s \in Bad PROVE First(s) \in s /\ s \ {First(s)} \in Bad
  <2>1. s # {}
    BY DEF Sums, SumsOn, Within
  <2>2. First(s) \in s /\ s \in SUBSET T
    BY <2>1 DEF First, Within
  <2>3. g[s] = row[First(s)].amount + g[s \ {First(s)}]
        /\ h[s] = new[First(s)].amount + h[s \ {First(s)}]
    BY <2>1, <2>2 DEF Sums, SumsOn
  <2> QED BY <2>2, <2>3 DEF Same
<1>2. Bad = {}
  <2>1. Bad \in SUBSET SUBSET S OBVIOUS
  <2> HIDE DEF Bad
  <2> QED BY <1>1, <2>1, SubsetInduction
<1> QED BY <1>2

\* What happens elsewhere does not change a sum.
LEMMA SumSame ==
  ASSUME NEW row, NEW new, NEW S, IsFiniteSet(S), Amounts(row, S),
         Same(row, new, S)
  PROVE  SumOf(new, S) = SumOf(row, S)
<1>1. PICK g \in Sums(row, S) : SumOf(row, S) = g[S]
  BY SumByFirst
<1>2. PICK h \in Sums(new, S) : SumOf(new, S) = h[S]
  <2>1. Amounts(new, S)
    BY DEF Amounts, Same
  <2> QED BY <2>1, SumByFirst
<1>3. h[S] = g[S]
  <2>1. Within(S, S)
    BY DEF Within
  <2> QED BY <2>1, SumsAgree
<1> QED BY <1>1, <1>2, <1>3

\* An element more adds its amount.
LEMMA SumPlus ==
  ASSUME NEW row, NEW new, NEW S, IsFiniteSet(S), Amounts(row, S),
         Same(row, new, S),
         NEW y, y \notin S, new[y].amount \in Int
  PROVE  SumOf(new, S \cup {y}) = SumOf(row, S) + new[y].amount
<1> DEFINE T == S \cup {y}
<1>1. IsFiniteSet(T) /\ T \ {y} = S /\ S \subseteq T /\ y \in T
  BY FS_AddElement
<1>2. Amounts(new, T)
  BY DEF Amounts, Same
<1> HIDE DEF T
<1>3. PICK g \in Sums(row, S) : SumOf(row, S) = g[S]
  BY SumByFirst
<1>4. PICK h \in Sums(new, T) : SumOf(new, T) = h[T]
  BY <1>1, <1>2, SumByFirst
<1>5. h[S] = g[S]
  <2>1. Within(S, T)
    BY <1>1 DEF Within
  <2> QED BY <2>1, SumsAgree
<1>6. h[T] = new[y].amount + h[T \ {y}]
  BY <1>1, <1>2, SumByAny
<1>7. h[T \ {y}] = h[S]
  BY <1>1
<1>8. g[S] \in Int
  BY DEF Sums, SumsOn
<1>9. SumOf(new, T) = SumOf(row, S) + new[y].amount
  BY <1>3, <1>4, <1>5, <1>6, <1>8, <1>7
<1> QED BY <1>9 DEF T

\* No rows sum to nothing.
LEMMA SumEmpty ==
  ASSUME NEW row
  PROVE  SumOf(row, {}) = 0
<1>1. IsFiniteSet({}) /\ Amounts(row, {})
  BY FS_EmptySet DEF Amounts
<1>2. PICK g \in Sums(row, {}) : SumOf(row, {}) = g[{}]
  BY <1>1, SumByFirst
<1> QED BY <1>2 DEF Sums, SumsOn

-----------------------------------------------------------------------------
(* The inductive invariant.                                                *)

Opener(r)    == r.op \in {"checkout", "initiate"}
Settler(r)   == r.op \in {"webhook", "callback"}
OnInvoice(r) == r.op # "issue" /\ r.at \in {"gateway", "insert", "credit"}
OnPayment(r) == Settler(r) /\ r.at # "payment"

FineIssue(r) == r.op = "issue" => r.at = "insert" /\ r.i \in Invoices /\ r.total \in Totals

\* The payment to be opened does not exist, nor does its session before the call.
FineOpener(r) ==
  Opener(r) => /\ r.at \in {"invoice", "gateway", "insert"}
               /\ r.i \in Invoices /\ invoice[r.i] # NoRow
               /\ r.p \in Payments /\ payment[r.p] = NoRow
               /\ (r.op = "initiate" /\ r.at # "insert" => session[r.p] = "none")

\* A settlement that has its payment found it open, and vouched for.
FineSettler(r) ==
  /\ Settler(r) => r.p \in Payments /\ r.at \in {"payment", "execute", "invoice", "credit"}
  /\ OnPayment(r) => /\ payment[r.p] # NoRow /\ payment[r.p].status # "COMPLETED"
                     /\ r.i = payment[r.p].invoice
                     /\ (r.op = "webhook" => payment[r.p].channel = "TXN")
                     /\ (r.op = "callback" /\ r.at # "execute" => session[r.p] = "executed")

\* Whoever has an invoice knows it; whoever opens a payment found it unpaid.
FineInvoice(r) ==
  OnInvoice(r) => r.saw = invoice[r.i] /\ (Opener(r) => r.saw.status # "PAID")

Fine(r) == FineIssue(r) /\ FineOpener(r) /\ FineSettler(r) /\ FineInvoice(r)

\* Two requests have different rows.
Apart(r, q) ==
  /\ OnInvoice(r) /\ OnInvoice(q) => r.i # q.i
  /\ OnPayment(r) /\ OnPayment(q) => r.p # q.p
  /\ Opener(r) /\ Opener(q) => r.p # q.p

Requests ==
  /\ \A w \in Workers : Busy(w) => Fine(req[w])
  /\ \A w, x \in Workers : w # x /\ Busy(w) /\ Busy(x) => Apart(req[w], req[x])

\* A payment is for the whole of an invoice.
Rows ==
  \A p \in Payments : payment[p] # NoRow =>
    /\ invoice[payment[p].invoice] # NoRow
    /\ payment[p].amount = invoice[payment[p].invoice].total_amount

\* An invoice is as it was issued, or PAID; adjustments may have made it a credit.
Booked(i) ==
  \/ invoice[i].status = "ISSUED" /\ invoice[i].paid_amount = 0 /\ Paying(i) = {}
  \/ /\ invoice[i].status = "PAID" /\ Paying(i) # {}
     /\ invoice[i].total_amount >= 0 => invoice[i].paid_amount >= invoice[i].total_amount
     /\ invoice[i].total_amount < 0 => invoice[i].paid_amount < 0

Books == \A i \in Invoices : invoice[i] # NoRow => Booked(i)

IInv == TypeOK /\ Requests /\ Rows /\ Books /\ CompletedWasExecuted

USE PaymentsAssumption

-----------------------------------------------------------------------------
(* Requests.                                                               *)

\* While the rows stay as they are, a request stays fine.
LEMMA FineStays ==
  ASSUME UNCHANGED <<invoice, payment, session>>, NEW r, Fine(r)
  PROVE  Fine(r)'
BY DEF Fine, FineIssue, FineOpener, FineSettler, FineInvoice, Opener, Settler, OnInvoice, OnPayment

\* One request changes, and is still apart from the others.
LEMMA RequestStep ==
  ASSUME TypeOK, Requests, NEW w \in Workers, NEW r, req' = [req EXCEPT ![w] = r],
         r # NoRow => Fine(r)',
         \A x \in Workers \ {w} : Busy(x) => Fine(req[x])',
         r # NoRow => \A x \in Workers \ {w} : Busy(x) => Apart(r, req[x])
  PROVE  Requests'
<1>1. req'[w] = r /\ \A x \in Workers \ {w} : req'[x] = req[x]
  BY DEF TypeOK
<1>2. ASSUME NEW x \in Workers, Busy(x)'
      PROVE  Fine(req[x])'
  <2> USE DEF Busy, Fine, FineIssue, FineOpener, FineSettler, FineInvoice
  <2>1. CASE x = w
    BY <1>1, <1>2, <2>1
  <2>2. CASE x # w
    BY <1>1, <1>2, <2>2
  <2> QED BY <2>1, <2>2
<1>3. ASSUME NEW x \in Workers, NEW y \in Workers, x # y, Busy(x)', Busy(y)'
      PROVE  Apart(req[x], req[y])'
  <2>1. CASE x = w
    BY <1>1, <1>3, <2>1 DEF Busy
  <2>2. CASE y = w
    BY <1>1, <1>3, <2>2 DEF Busy, Apart
  <2>3. CASE x # w /\ y # w
    BY <1>1, <1>3, <2>3 DEF Busy, Requests
  <2> QED BY <2>1, <2>2, <2>3
<1> QED BY <1>2, <1>3 DEF Requests

\* Steps that change one request only.
LEMMA OneRequest ==
  ASSUME IInv, NEW w \in Workers, NEW r \in Request \cup {NoRow},
         req' = [req EXCEPT ![w] = r], UNCHANGED <<live, invoice, payment, session>>,
         r # NoRow => Fine(r),
         r # NoRow => \A x \in Workers \ {w} : Busy(x) => Apart(r, req[x])
  PROVE  IInv'
<1>1. TypeOK'
  BY DEF IInv, TypeOK
<1>2. Requests'
  <2>1. r # NoRow => Fine(r)'
    BY FineStays
  <2>2. \A x \in Workers \ {w} : Busy(x) => Fine(req[x])'
    <3> SUFFICES ASSUME NEW x \in Workers \ {w}, Busy(x) PROVE Fine(req[x])'
      OBVIOUS
    <3>1. Fine(req[x]) /\ req'[x] = req[x]
      BY DEF IInv, Requests, TypeOK
    <3> QED BY <3>1 DEF Fine, FineIssue, FineOpener, FineSettler, FineInvoice
  <2> QED BY <2>1, <2>2, RequestStep DEF IInv
<1>3. Rows' /\ Books' /\ CompletedWasExecuted'
  BY DEF IInv, Rows, Books, Booked, Paying, CompletedWasExecuted
<1> QED BY <1>1, <1>2, <1>3 DEF IInv

\* A request that is refused leaves the invariant.
LEMMA RefuseStep ==
  ASSUME IInv, NEW w \in Workers, Refuse(w)
  PROVE  IInv'
BY OneRequest DEF Refuse, End

\* A request that comes in keeps the invariant: it has read and locked nothing.
LEMMA BeginStep ==
  ASSUME IInv, NEW w \in Workers, BeginSome(w)
  PROVE  IInv'
<1> DEFINE R(op, at, i, p, status, total) ==
      [op |-> op, at |-> at, i |-> i, p |-> p, status |-> status, total |-> total,
       saw |-> NoRow]
<1>1. ASSUME NEW i \in Invoices, NEW total \in Totals, BeginIssue(w, i, total)
      PROVE  IInv'
  <2> DEFINE r == R("issue", "insert", i, NoRow, NoRow, total)
  <2>1. r \in Request /\ Fine(r) /\ \A x \in Workers : Apart(r, req[x])
    BY DEF Request, Fine, FineIssue, FineOpener, FineSettler, FineInvoice, Apart,
           Opener, Settler, OnInvoice, OnPayment
  <2>2. req' = [req EXCEPT ![w] = r] /\ UNCHANGED <<live, invoice, payment, session>>
    BY <1>1 DEF BeginIssue, Start
  <2> HIDE DEF r
  <2> QED BY <2>1, <2>2, OneRequest
<1>2. ASSUME NEW op \in {"checkout", "initiate"}, NEW i \in Invoices, NEW p \in Payments,
             BeginPayment(w, op, i, p)
      PROVE  IInv'
  <2> DEFINE r == R(op, "invoice", i, p, NoRow, NoRow)
  <2>1. r \in Request /\ Fine(r)
    BY <1>2 DEF Request, Fine, FineIssue, FineOpener, FineSettler, FineInvoice,
           Opener, Settler, OnInvoice, OnPayment, BeginPayment, Unused
  <2>2. \A x \in Workers : Busy(x) => Apart(r, req[x])
    BY <1>2 DEF Apart, Opener, Settler, OnInvoice, OnPayment, BeginPayment, Unused
  <2>3. req' = [req EXCEPT ![w] = r] /\ UNCHANGED <<live, invoice, payment, session>>
    BY <1>2 DEF BeginPayment, Start
  <2> HIDE DEF r
  <2> QED BY <2>1, <2>2, <2>3, OneRequest
<1>3. ASSUME NEW op \in {"webhook", "callback"}, NEW p \in Payments,
             NEW status \in {"COMPLETED", "FAILED"},
             Start(w, op, "payment", NoRow, p, status, NoRow)
      PROVE  IInv'
  <2> DEFINE r == R(op, "payment", NoRow, p, status, NoRow)
  <2>1. r \in Request /\ Fine(r) /\ \A x \in Workers : Apart(r, req[x])
    BY DEF Request, Fine, FineIssue, FineOpener, FineSettler, FineInvoice, Apart,
           Opener, Settler, OnInvoice, OnPayment, PaymentStatus
  <2>2. req' = [req EXCEPT ![w] = r] /\ UNCHANGED <<live, invoice, payment, session>>
    BY <1>3 DEF Start
  <2> HIDE DEF r
  <2> QED BY <2>1, <2>2, OneRequest
<1> QED BY <1>1, <1>2, <1>3 DEF BeginSome, BeginWebhook, BeginCallback

\* What the type of a request says.
LEMMA RequestType ==
  ASSUME IInv, NEW w \in Workers, Busy(w)
  PROVE  req[w] \in Request /\ Fine(req[w])
BY DEF IInv, TypeOK, Requests, Busy

\* Nobody else has an invoice that is not locked, nor such a payment.
LEMMA Unlocked ==
  ASSUME NEW w \in Workers, NEW x \in Workers \ {w}, Busy(x)
  PROVE  /\ ~InvoiceLocked(req[w].i, w) /\ OnInvoice(req[x]) => req[x].i # req[w].i
         /\ ~PaymentLocked(req[w].p, w) /\ OnPayment(req[x]) => req[x].p # req[w].p
BY DEF InvoiceLocked, PaymentLocked, Others, At, OnInvoice, OnPayment, Settler

\* A checkout that locks and reads an unpaid invoice keeps it: nobody else is past
\* that lock.
LEMMA OpenInvoiceStep ==
  ASSUME IInv, NEW w \in Workers, OpenInvoice(w)
  PROVE  IInv'
<1> DEFINE q == req[w]
           r == [q EXCEPT !.saw = invoice[q.i],
                          !.at = IF q.op = "initiate" THEN "gateway" ELSE "insert"]
<1>1. Busy(w) /\ q \in Request /\ Fine(q) /\ Opener(q)
  BY RequestType DEF OpenInvoice, Opens, At, Opener
<1>2. r \in Request
  BY <1>1 DEF Request, Fine, FineOpener, IInv, TypeOK
<1>3. Fine(r)
  BY <1>1 DEF Request, Fine, FineIssue, FineOpener, FineSettler, FineInvoice, Opener, Settler,
         OnInvoice, OnPayment, OpenInvoice, Opens, At
<1>4. \A x \in Workers \ {w} : Busy(x) => Apart(r, req[x])
  <2> SUFFICES ASSUME NEW x \in Workers \ {w}, Busy(x) PROVE Apart(r, req[x])
    OBVIOUS
  <2>1. Apart(q, req[x]) /\ (OnInvoice(req[x]) => req[x].i # q.i)
    BY <1>1, Unlocked DEF OpenInvoice, IInv, Requests
  <2> QED BY <1>1, <2>1 DEF Apart, Request, Opener, OnInvoice, OnPayment, Settler
<1>5. req' = [req EXCEPT ![w] = r] /\ UNCHANGED <<live, invoice, payment, session>>
  BY DEF OpenInvoice
<1> HIDE DEF r
<1> QED BY <1>2, <1>3, <1>4, <1>5, OneRequest

\* A settlement that finds its payment vouched for, and not settled, keeps it.
LEMMA ApproveStep ==
  ASSUME IInv, NEW w \in Workers, Approve(w)
  PROVE  IInv'
<1> DEFINE q == req[w]
           r == [q EXCEPT !.i = payment[q.p].invoice,
                          !.at = IF q.op = "callback" THEN "execute" ELSE "invoice"]
<1>1. /\ Busy(w) /\ q \in Request /\ Fine(q) /\ q.at = "payment" /\ Settler(q)
      /\ q.p \in Payments /\ payment[q.p] \in PaymentRow
  <2>1. Busy(w) /\ q \in Request /\ Fine(q) /\ q.at = "payment"
    BY RequestType DEF Approve, Free, At
  <2>2. Settler(q)
    BY <2>1 DEF Request, Fine, FineIssue, FineOpener, Opener, Settler
  <2> QED BY <2>1, <2>2 DEF Fine, FineSettler, Approve, Settled, Found, IInv, TypeOK
<1>2. r \in Request
  BY <1>1 DEF Request, PaymentRow
<1>3. Fine(r)
  BY <1>1 DEF Request, Fine, FineIssue, FineOpener, FineSettler, FineInvoice, Opener, Settler,
         OnInvoice, OnPayment, Approve, Settled, Found, Vouched
<1>4. \A x \in Workers \ {w} : Busy(x) => Apart(r, req[x])
  <2> SUFFICES ASSUME NEW x \in Workers \ {w}, Busy(x) PROVE Apart(r, req[x])
    OBVIOUS
  <2>1. Apart(q, req[x]) /\ (OnPayment(req[x]) => req[x].p # q.p)
    BY <1>1, Unlocked DEF Approve, Free, IInv, Requests
  <2> QED BY <1>1, <2>1 DEF Apart, Request, Opener, OnInvoice, OnPayment, Settler
<1>5. req' = [req EXCEPT ![w] = r] /\ UNCHANGED <<live, invoice, payment, session>>
  BY DEF Approve, rows
<1> HIDE DEF r
<1> QED BY <1>2, <1>3, <1>4, <1>5, OneRequest

\* A settlement that locks its invoice keeps it: what it reads stays true until it
\* commits.
LEMMA LockInvoiceStep ==
  ASSUME IInv, NEW w \in Workers, LockInvoice(w)
  PROVE  IInv'
<1> DEFINE q == req[w]
           r == [q EXCEPT !.at = "credit", !.saw = invoice[q.i]]
<1>1. /\ Busy(w) /\ q \in Request /\ Fine(q) /\ q.at = "invoice" /\ Settler(q)
      /\ q.i \in Invoices
  <2>1. Busy(w) /\ q \in Request /\ Fine(q) /\ q.at = "invoice" /\ Settler(q)
    BY RequestType DEF LockInvoice, Opens, At, Request, Fine, FineIssue, Settler
  <2> QED BY <2>1 DEF Fine, FineSettler, OnPayment, IInv, TypeOK, PaymentRow
<1>2. r \in Request
  BY <1>1 DEF Request, IInv, TypeOK
<1>3. Fine(r)
  BY <1>1 DEF Request, Fine, FineIssue, FineOpener, FineSettler, FineInvoice, Opener, Settler,
         OnInvoice, OnPayment
<1>4. \A x \in Workers \ {w} : Busy(x) => Apart(r, req[x])
  <2> SUFFICES ASSUME NEW x \in Workers \ {w}, Busy(x) PROVE Apart(r, req[x])
    OBVIOUS
  <2>1. Apart(q, req[x]) /\ (OnInvoice(req[x]) => req[x].i # q.i)
    BY <1>1, Unlocked DEF LockInvoice, IInv, Requests
  <2> QED BY <1>1, <2>1 DEF Apart, Request, Opener, OnInvoice, OnPayment, Settler
<1>5. req' = [req EXCEPT ![w] = r] /\ UNCHANGED <<live, invoice, payment, session>>
  BY DEF LockInvoice, rows
<1> HIDE DEF r
<1> QED BY <1>2, <1>3, <1>4, <1>5, OneRequest

\* A session opened at the gateway keeps it: it is not yet executed.
LEMMA OpenSessionStep ==
  ASSUME IInv, NEW w \in Workers, OpenSession(w)
  PROVE  IInv'
<1> DEFINE q == req[w]
<1> SUFFICES ASSUME NEW r, r = [q EXCEPT !.at = "insert"]
             PROVE  IInv'
  OBVIOUS
<1>1. /\ Busy(w) /\ q \in Request /\ Fine(q) /\ q.at = "gateway" /\ Opener(q)
      /\ q.p \in Payments /\ payment[q.p] = NoRow
  <2>1. Busy(w) /\ q \in Request /\ Fine(q) /\ q.at = "gateway"
    BY RequestType DEF OpenSession, At
  <2> QED BY <2>1 DEF Request, Fine, FineIssue, FineSettler, FineOpener, Opener, Settler
<1>2. session' = [session EXCEPT ![q.p] = "open"] /\ UNCHANGED <<live, invoice, payment>>
      /\ req' = [req EXCEPT ![w] = r]
  BY DEF OpenSession, Go, rows
<1>3. TypeOK'
  <2>1. r \in Request
    BY <1>1 DEF Request
  <2> HIDE DEF q
  <2>2. req' \in [Workers -> Request \cup {NoRow}]
    BY <1>2, <2>1 DEF IInv, TypeOK
  <2>3. session' \in [Payments -> SessionState]
    BY <1>2 DEF IInv, TypeOK, SessionState
  <2> QED BY <1>2, <2>2, <2>3 DEF IInv, TypeOK
<1>4. Requests'
  <2>1. Fine(r)'
    BY <1>1, <1>2 DEF Request, Fine, FineIssue, FineOpener, FineSettler, FineInvoice,
           Opener, Settler, OnInvoice, OnPayment
  <2>2. ASSUME NEW x \in Workers \ {w}, Busy(x)
        PROVE  Apart(r, req[x]) /\ Fine(req[x])'
    <3>1. Apart(q, req[x]) /\ Fine(req[x]) /\ req'[x] = req[x] /\ req[x] \in Request
      BY <1>1, <1>2, <2>2, RequestType DEF IInv, Requests, TypeOK
    <3>2. Apart(r, req[x])
      BY <1>1, <3>1 DEF Apart, Request, Opener, OnInvoice, OnPayment, Settler
    <3>3. req[x].p \in Payments /\ req[x].p # q.p => session'[req[x].p] = session[req[x].p]
      BY <1>1, <1>2 DEF IInv, TypeOK
    <3>4. Fine(req[x])'
      BY <1>1, <1>2, <3>1, <3>3 DEF Request, Fine, FineIssue, FineOpener, FineSettler,
             FineInvoice, Opener, Settler, OnInvoice, OnPayment, Apart, IInv, TypeOK
    <3> QED BY <3>2, <3>4
  <2>3. \A x \in Workers \ {w} : Busy(x) => Fine(req[x])'
    BY <2>2
  <2>4. \A x \in Workers \ {w} : Busy(x) => Apart(r, req[x])
    BY <2>2
  <2> QED BY <1>2, <2>1, <2>3, <2>4, RequestStep DEF IInv
<1>5. Rows' /\ Books'
  BY <1>2 DEF IInv, Rows, Books, Booked, Paying
<1>6. CompletedWasExecuted'
  BY <1>1, <1>2 DEF IInv, CompletedWasExecuted, TypeOK
<1> QED BY <1>3, <1>4, <1>5, <1>6 DEF IInv

\* A request stays fine while nobody touches the rows it knows.
LEMMA Undisturbed ==
  ASSUME NEW x \in Workers, Fine(req[x]), req'[x] = req[x],
         OnPayment(req[x]) \/ Opener(req[x]) =>
           /\ payment'[req[x].p] = payment[req[x].p]
           /\ session'[req[x].p] = session[req[x].p],
         OnInvoice(req[x]) => invoice'[req[x].i] = invoice[req[x].i],
         Opener(req[x]) /\ invoice[req[x].i] # NoRow => invoice'[req[x].i] # NoRow
  PROVE  Fine(req[x])'
BY DEF Fine, FineIssue, FineOpener, FineSettler, FineInvoice, Opener, Settler,
       OnInvoice, OnPayment

\* A new invoice keeps it: nothing is paid of it yet.
LEMMA IssueStep ==
  ASSUME IInv, NEW w \in Workers, Issue(w)
  PROVE  IInv'
<1> DEFINE q == req[w]
           row == [total_amount |-> q.total, paid_amount |-> 0, status |-> "ISSUED"]
<1>1. /\ Busy(w) /\ q \in Request /\ q.i \in Invoices /\ q.total \in Totals
      /\ invoice[q.i] = NoRow
  BY RequestType DEF Issue, At, Fine, FineIssue
<1>2. /\ invoice' = [invoice EXCEPT ![q.i] = row] /\ req' = [req EXCEPT ![w] = NoRow]
      /\ UNCHANGED <<live, payment, session>>
  BY DEF Issue, End
<1>3. row \in InvoiceRow /\ row # NoRow
  <2>1. q.total \in Int
    BY <1>1
  <2>2. row \in InvoiceRow
    BY <2>1 DEF InvoiceRow, InvoiceStatus
  <2> QED BY <2>2
<1>4. TypeOK'
  BY <1>1, <1>2, <1>3 DEF IInv, TypeOK
<1>5. invoice'[q.i] = row /\ \A i \in Invoices \ {q.i} : invoice'[i] = invoice[i]
  BY <1>1, <1>2 DEF IInv, TypeOK
<1>6. Requests'
  <2>1. ASSUME NEW x \in Workers \ {w}, Busy(x)
        PROVE  Fine(req[x])'
    <3>1. Fine(req[x]) /\ req'[x] = req[x]
      BY <1>2, <2>1, RequestType DEF IInv, TypeOK
    <3>2. OnInvoice(req[x]) => req[x].i \in Invoices /\ invoice[req[x].i] # NoRow
      <4>1. CASE Settler(req[x])
        BY <3>1, <4>1 DEF IInv, TypeOK, Rows, Fine, FineSettler, OnInvoice, OnPayment, PaymentRow
      <4>2. CASE ~Settler(req[x])
        <5>1. req[x] \in Request
          BY <2>1, RequestType
        <5> QED BY <3>1, <4>2, <5>1 DEF Fine, FineOpener, OnInvoice, Opener, Settler, Request
      <4> QED BY <4>1, <4>2
    <3>3. Opener(req[x]) => req[x].i \in Invoices
      BY <3>1 DEF Fine, FineOpener
    <3> QED BY <1>1, <1>2, <1>3, <1>5, <3>1, <3>2, <3>3, Undisturbed
  <2> QED BY <1>2, <2>1, RequestStep DEF IInv
<1>7. Rows'
  BY <1>1, <1>2, <1>3, <1>5 DEF IInv, Rows, TypeOK, PaymentRow
<1>8. Books'
  <2> SUFFICES ASSUME NEW i \in Invoices, invoice'[i] # NoRow
               PROVE  Booked(i)'
    BY DEF Books
  <2>1. CASE i = q.i
    <3>1. Paying(i) = {}
      BY <1>1, <2>1 DEF IInv, Rows, Paying
    <3> QED BY <1>2, <1>5, <2>1, <3>1 DEF Booked, Paying
  <2>2. CASE i # q.i
    BY <1>2, <1>5, <2>2 DEF IInv, Books, Booked, Paying
  <2> QED BY <2>1, <2>2
<1>9. CompletedWasExecuted'
  BY <1>2 DEF IInv, CompletedWasExecuted
<1> QED BY <1>4, <1>6, <1>7, <1>8, <1>9 DEF IInv

\* What the opening of a payment does.
InsertOf(w, i, p, row) ==
  /\ Busy(w) /\ Fine(req[w]) /\ Opener(req[w]) /\ p = req[w].p
  /\ i \in Invoices /\ p \in Payments /\ payment[p] = NoRow
  /\ invoice[i] \in InvoiceRow /\ invoice[i] # NoRow /\ invoice[i].status # "PAID"
  /\ row \in PaymentRow /\ row # NoRow /\ row.invoice = i /\ row.status = "PENDING"
  /\ row.amount = invoice[i].total_amount - invoice[i].paid_amount
  /\ payment' = [payment EXCEPT ![p] = row] /\ req' = [req EXCEPT ![w] = NoRow]
  /\ UNCHANGED <<live, invoice, session>>

\* An inserted payment is PENDING, for the balance of the invoice it has locked.
LEMMA InsertFacts ==
  ASSUME IInv, NEW w \in Workers, InsertPayment(w)
  PROVE  \E row : InsertOf(w, req[w].i, req[w].p, row)
<1> DEFINE q == req[w]
           row == [invoice |-> q.i, status |-> "PENDING",
                   amount |-> q.saw.total_amount - q.saw.paid_amount,
                   channel |-> IF q.op = "initiate" THEN "BK" ELSE "TXN",
                   gateway_id |-> IF q.op = "initiate" THEN "session" ELSE "none"]
<1>1. /\ Busy(w) /\ q \in Request /\ Fine(q) /\ Opener(q)
      /\ q.i \in Invoices /\ q.p \in Payments /\ payment[q.p] = NoRow /\ invoice[q.i] # NoRow
      /\ invoice[q.i] \in InvoiceRow /\ q.saw = invoice[q.i] /\ q.saw.status # "PAID"
  <2>1. Busy(w) /\ q \in Request /\ Fine(q) /\ Opener(q) /\ OnInvoice(q)
    BY RequestType DEF InsertPayment, At, Request, Fine, FineSettler, Settler, Opener, OnInvoice
  <2> QED BY <2>1 DEF Fine, FineOpener, FineInvoice, IInv, TypeOK
<1>2. /\ payment' = [payment EXCEPT ![q.p] = row] /\ req' = [req EXCEPT ![w] = NoRow]
      /\ UNCHANGED <<live, invoice, session>>
  BY DEF InsertPayment, Pay, End
<1>3. row \in PaymentRow /\ row # NoRow
  BY <1>1 DEF PaymentRow, InvoiceRow, Channel, PaymentStatus
<1>4. /\ row.invoice = q.i /\ row.status = "PENDING"
      /\ row.amount = invoice[q.i].total_amount - invoice[q.i].paid_amount
  BY <1>1
<1> HIDE DEF row
<1> QED BY <1>1, <1>2, <1>3, <1>4 DEF InsertOf

\* It keeps the invariant: a PENDING payment is not in the books.
LEMMA InsertPaymentStep ==
  ASSUME IInv, NEW w \in Workers, InsertPayment(w)
  PROVE  IInv'
<1> PICK i, p, row : InsertOf(w, i, p, row)
  BY InsertFacts
<1>1. /\ Busy(w) /\ Fine(req[w]) /\ Opener(req[w]) /\ p = req[w].p
      /\ i \in Invoices /\ p \in Payments /\ payment[p] = NoRow
      /\ invoice[i] \in InvoiceRow /\ invoice[i] # NoRow /\ invoice[i].status # "PAID"
  BY DEF InsertOf
<1>2. /\ payment' = [payment EXCEPT ![p] = row] /\ req' = [req EXCEPT ![w] = NoRow]
      /\ UNCHANGED <<live, invoice, session>>
  BY DEF InsertOf
<1>3. row \in PaymentRow /\ row # NoRow
  BY DEF InsertOf
<1>4. TypeOK'
  BY <1>1, <1>2, <1>3 DEF IInv, TypeOK
<1>5. payment'[p] = row /\ \A o \in Payments \ {p} : payment'[o] = payment[o]
  BY <1>1, <1>2 DEF IInv, TypeOK
<1>6. row.invoice = i /\ row.status = "PENDING" /\ row.amount = invoice[i].total_amount
  <2>1. invoice[i].paid_amount = 0
    BY <1>1 DEF IInv, Books, Booked
  <2>2. invoice[i].total_amount - invoice[i].paid_amount = invoice[i].total_amount
    BY <1>1, <2>1 DEF InvoiceRow
  <2> QED BY <2>2 DEF InsertOf
<1>7. Requests'
  <2>1. ASSUME NEW x \in Workers \ {w}, Busy(x)
        PROVE  Fine(req[x])'
    <3>1. Fine(req[x]) /\ Apart(req[w], req[x]) /\ req'[x] = req[x]
      BY <1>1, <1>2, <2>1, RequestType DEF IInv, TypeOK, Requests
    <3>2. OnPayment(req[x]) \/ Opener(req[x]) => req[x].p \in Payments \ {p}
      BY <1>1, <3>1 DEF Fine, FineOpener, FineSettler, OnPayment, Apart
    <3> QED BY <1>1, <1>2, <1>5, <3>1, <3>2, Undisturbed
  <2> QED BY <1>2, <2>1, RequestStep DEF IInv
<1>8. Rows'
  BY <1>1, <1>2, <1>3, <1>5, <1>6 DEF IInv, Rows
<1>9. Books'
  <2>1. \A j \in Invoices : Paying(j)' = Paying(j)
    BY <1>1, <1>3, <1>5, <1>6 DEF Paying
  <2> QED BY <1>2, <2>1 DEF IInv, Books, Booked
<1>10. CompletedWasExecuted'
  BY <1>1, <1>2, <1>5, <1>6 DEF IInv, CompletedWasExecuted
<1> QED BY <1>4, <1>7, <1>8, <1>9, <1>10 DEF IInv

\* What a settlement knows when it has its payment, or has just got it.
LEMMA SettlerType ==
  ASSUME IInv, NEW w \in Workers, Busy(w), Settler(req[w]),
         OnPayment(req[w]) \/ payment[req[w].p] # NoRow
  PROVE  /\ req[w] \in Request /\ Fine(req[w]) /\ req[w].p \in Payments
         /\ payment[req[w].p] \in PaymentRow /\ payment[req[w].p] # NoRow
BY RequestType DEF Fine, FineSettler, IInv, TypeOK

\* Its payment is nobody else's.
LEMMA SettlerAlone ==
  ASSUME IInv, NEW w \in Workers, Busy(w), Settler(req[w]),
         payment[req[w].p] # NoRow,
         OnPayment(req[w]) \/ ~PaymentLocked(req[w].p, w),
         NEW x \in Workers \ {w}, Busy(x), OnPayment(req[x]) \/ Opener(req[x])
  PROVE  req[x].p \in Payments \ {req[w].p}
<1>1. Fine(req[x]) /\ Apart(req[w], req[x]) /\ (OnPayment(req[x]) => Settler(req[x]))
  BY RequestType DEF IInv, Requests, OnPayment
<1>2. req[x].p \in Payments
  BY <1>1 DEF Fine, FineOpener, FineSettler
<1>3. CASE Opener(req[x])
  BY <1>1, <1>2, <1>3 DEF Fine, FineOpener
<1>4. CASE OnPayment(req[x])
  BY <1>1, <1>2, <1>4, Unlocked DEF Apart
<1> QED BY <1>3, <1>4

\* What a failure does.
FailOf(w, p, row) ==
  /\ Busy(w) /\ Settler(req[w]) /\ (OnPayment(req[w]) \/ ~PaymentLocked(req[w].p, w))
  /\ p = req[w].p /\ p \in Payments /\ payment[p] # NoRow /\ payment[p].status # "COMPLETED"
  /\ row \in PaymentRow /\ row # NoRow /\ row.status = "FAILED"
  /\ row.invoice = payment[p].invoice /\ row.amount = payment[p].amount
  /\ payment' = [payment EXCEPT ![p] = row] /\ req' = [req EXCEPT ![w] = NoRow]
  /\ UNCHANGED <<live, invoice, session>>

\* A payment that fails was not COMPLETED: only its status changes.
LEMMA FailFacts ==
  ASSUME IInv, NEW w \in Workers, MarkFailed(w) \/ ExecuteIncomplete(w)
  PROVE  \E row : FailOf(w, req[w].p, row)
<1> DEFINE q == req[w]
           row == [payment[q.p] EXCEPT !.status = "FAILED"]
<1>1. /\ Busy(w) /\ Settler(q) /\ payment[q.p] # NoRow /\ payment[q.p].status # "COMPLETED"
      /\ OnPayment(q) \/ ~PaymentLocked(q.p, w)
  <2>1. Busy(w) /\ q \in Request /\ Fine(q) /\ q.at \in {"payment", "execute"}
    BY RequestType DEF MarkFailed, ExecuteIncomplete, Free, At
  <2>2. Settler(q)
    BY <2>1 DEF Fine, FineIssue, FineOpener, Settler, Opener, Request
  <2>3. CASE MarkFailed(w)
    BY <2>1, <2>2, <2>3 DEF MarkFailed, Free, Settled, Found
  <2>4. CASE ExecuteIncomplete(w)
    BY <2>1, <2>2, <2>4 DEF ExecuteIncomplete, At, Fine, FineSettler, OnPayment
  <2> QED BY <2>3, <2>4
<1>2. /\ payment' = [payment EXCEPT ![q.p] = row] /\ req' = [req EXCEPT ![w] = NoRow]
      /\ UNCHANGED <<live, invoice, session>>
  BY DEF MarkFailed, ExecuteIncomplete, Pay, End
<1>3. q.p \in Payments /\ payment[q.p] \in PaymentRow
  BY <1>1, SettlerType
<1>4. row \in PaymentRow /\ row # NoRow
  BY <1>3 DEF PaymentRow, PaymentStatus
<1>5. /\ row.invoice = payment[q.p].invoice /\ row.amount = payment[q.p].amount
      /\ row.status = "FAILED"
  BY <1>3 DEF PaymentRow
<1> HIDE DEF row
<1> QED BY <1>1, <1>2, <1>3, <1>4, <1>5 DEF FailOf

\* It keeps the invariant: the payments in the books are as before.
LEMMA FailStep ==
  ASSUME IInv, NEW w \in Workers, MarkFailed(w) \/ ExecuteIncomplete(w)
  PROVE  IInv'
<1> PICK p, row : FailOf(w, p, row)
  BY FailFacts
<1>1. /\ Busy(w) /\ Settler(req[w]) /\ (OnPayment(req[w]) \/ ~PaymentLocked(req[w].p, w))
      /\ p = req[w].p /\ p \in Payments /\ payment[p] # NoRow /\ payment[p].status # "COMPLETED"
  BY DEF FailOf
<1>2. /\ payment' = [payment EXCEPT ![p] = row] /\ req' = [req EXCEPT ![w] = NoRow]
      /\ UNCHANGED <<live, invoice, session>>
  BY DEF FailOf
<1>3. row \in PaymentRow /\ row # NoRow
  BY DEF FailOf
<1>4. row.status = "FAILED" /\ row.invoice = payment[p].invoice /\ row.amount = payment[p].amount
  BY DEF FailOf
<1>5. payment'[p] = row /\ \A o \in Payments \ {p} : payment'[o] = payment[o]
  BY <1>1, <1>2 DEF IInv, TypeOK
<1>6. TypeOK'
  BY <1>2, <1>3 DEF IInv, TypeOK
<1>7. Requests'
  <2>1. ASSUME NEW x \in Workers \ {w}, Busy(x)
        PROVE  Fine(req[x])'
    <3>1. Fine(req[x]) /\ req'[x] = req[x]
      BY <1>2, <2>1, RequestType DEF IInv, TypeOK
    <3>2. OnPayment(req[x]) \/ Opener(req[x]) => req[x].p \in Payments \ {p}
      BY <1>1, <2>1, SettlerAlone
    <3> QED BY <1>2, <1>5, <3>1, <3>2, Undisturbed
  <2> QED BY <1>2, <2>1, RequestStep DEF IInv
<1>8. Rows'
  BY <1>1, <1>2, <1>4, <1>5 DEF IInv, Rows
<1>9. Books'
  <2>1. \A j \in Invoices : Paying(j)' = Paying(j)
    BY <1>1, <1>3, <1>4, <1>5 DEF Paying
  <2> QED BY <1>2, <2>1 DEF IInv, Books, Booked
<1>10. CompletedWasExecuted'
  BY <1>2, <1>4, <1>5 DEF IInv, CompletedWasExecuted
<1> QED BY <1>6, <1>7, <1>8, <1>9, <1>10 DEF IInv

\* bKash moves the money: the callback hears of it, or not.
LEMMA ExecuteStep ==
  ASSUME IInv, NEW w \in Workers, Execute(w) \/ ExecuteUnheard(w)
  PROVE  IInv'
<1> DEFINE q == req[w]
<1>1. Busy(w) /\ Settler(q) /\ OnPayment(q) /\ q.at = "execute"
  BY RequestType DEF Execute, ExecuteUnheard, At, Fine, FineIssue, FineOpener, Settler, Opener,
     Request, OnPayment
<1>2. /\ q \in Request /\ Fine(q) /\ q.p \in Payments
      /\ payment[q.p] # NoRow /\ payment[q.p].status # "COMPLETED"
  BY <1>1, SettlerType DEF Fine, FineSettler
<1> SUFFICES ASSUME NEW r, req' = [req EXCEPT ![w] = r],
                    r \in {NoRow, [q EXCEPT !.at = "invoice"]}
             PROVE  IInv'
  BY DEF Execute, ExecuteUnheard, Go, End
<1>3. session' = [session EXCEPT ![q.p] = "executed"] /\ UNCHANGED <<live, invoice, payment>>
  BY DEF Execute, ExecuteUnheard, rows
<1>4. r \in Request \cup {NoRow}
  BY <1>2 DEF Request
<1>5. /\ session'[q.p] = "executed"
      /\ \A p \in Payments \ {q.p} : session'[p] = session[p]
  BY <1>2, <1>3 DEF IInv, TypeOK
<1>6. TypeOK'
  BY <1>3, <1>4 DEF IInv, TypeOK, SessionState
<1>7. Requests'
  <2>1. r # NoRow => Fine(r)'
    BY <1>1, <1>2, <1>3, <1>5 DEF Request, Fine, FineIssue, FineOpener, FineSettler, FineInvoice,
           Opener, Settler, OnInvoice, OnPayment
  <2>2. ASSUME NEW x \in Workers \ {w}, Busy(x)
        PROVE  Fine(req[x])'
    <3>1. Fine(req[x]) /\ req'[x] = req[x]
      BY <2>2, RequestType DEF IInv, TypeOK
    <3>2. OnPayment(req[x]) \/ Opener(req[x]) => req[x].p \in Payments \ {q.p}
      BY <1>1, <1>2, <2>2, SettlerAlone
    <3> QED BY <1>3, <1>5, <3>1, <3>2, Undisturbed
  <2>3. \A x \in Workers \ {w} : r # NoRow /\ Busy(x) => Apart(r, req[x])
    <3> SUFFICES ASSUME NEW x \in Workers \ {w}, Busy(x), r # NoRow PROVE Apart(r, req[x])
      OBVIOUS
    <3>1. Apart(q, req[x])
      BY <1>1 DEF IInv, Requests
    <3> QED BY <1>1, <1>2, <3>1 DEF Apart, Request, Opener, OnInvoice, OnPayment, Settler
  <2> QED BY <2>1, <2>2, <2>3, RequestStep DEF IInv
<1>8. Rows' /\ Books'
  BY <1>3 DEF IInv, Rows, Books, Booked, Paying
<1>9. CompletedWasExecuted'
  BY <1>2, <1>3, <1>5 DEF IInv, CompletedWasExecuted
<1> QED BY <1>6, <1>7, <1>8, <1>9 DEF IInv

\* Crediting a payment for the whole of an invoice makes it PAID, and leaves it so.
LEMMA CreditedPaid ==
  ASSUME NEW row \in InvoiceRow,
         \/ row.status = "ISSUED" /\ row.paid_amount = 0
         \/ /\ row.status = "PAID"
            /\ row.total_amount >= 0 => row.paid_amount >= row.total_amount
            /\ row.total_amount < 0 => row.paid_amount < 0
  PROVE  LET new == Credited(row, row.total_amount)
         IN /\ new \in InvoiceRow /\ new.total_amount = row.total_amount
            /\ new.paid_amount = row.paid_amount + row.total_amount /\ new.status = "PAID"
            /\ new.total_amount >= 0 => new.paid_amount >= new.total_amount
            /\ new.total_amount < 0 => new.paid_amount < 0
<1> DEFINE t == row.total_amount
           paid == row.paid_amount + t
<1>1. t \in Int /\ row.paid_amount \in Int /\ paid \in Int
  BY DEF InvoiceRow
<1>2. /\ row.status = "PAID" \/ paid >= t
      /\ t >= 0 => paid >= t
      /\ t < 0 => paid < 0
  BY <1>1
<1>3. Credited(row, t) = [row EXCEPT !.paid_amount = paid, !.status = "PAID"]
  <2>1. CASE paid >= t
    BY <1>1, <2>1 DEF Credited, InvoiceRow
  <2>2. CASE ~(paid >= t)
    <3>1. ~(paid > 0) /\ row.status = "PAID"
      BY <1>1, <1>2, <2>2
    <3> QED BY <1>1, <2>2, <3>1 DEF Credited, InvoiceRow
  <2> QED BY <2>1, <2>2
<1> QED BY <1>1, <1>2, <1>3 DEF InvoiceRow, InvoiceStatus

\* What a credit does: one more payment counts, and its invoice is PAID.
CreditOf(w, i, p) ==
  /\ Busy(w) /\ Settler(req[w]) /\ OnPayment(req[w]) /\ OnInvoice(req[w])
  /\ i = req[w].i /\ i \in Invoices /\ invoice[i] \in InvoiceRow /\ invoice[i] # NoRow
  /\ p = req[w].p /\ p \in Payments /\ payment[p] \in PaymentRow /\ payment[p] # NoRow
  /\ payment[p].invoice = i /\ payment[p].status # "COMPLETED"
  /\ payment[p].amount = invoice[i].total_amount
  /\ payment[p].channel = "BK" => session[p] = "executed"
  /\ req' = [req EXCEPT ![w] = NoRow] /\ UNCHANGED <<live, session>>
  /\ invoice' = [invoice EXCEPT ![i] = Credited(invoice[i], invoice[i].total_amount)]
  /\ payment' = [payment EXCEPT ![p] = [payment[p] EXCEPT !.status = "COMPLETED",
                                                          !.gateway_id = "trx"]]

\* A credit completes a payment that was not COMPLETED, of an executed session,
\* and adds its amount to the invoice it has locked.
LEMMA CreditFacts ==
  ASSUME IInv, NEW w \in Workers, Credit(w)
  PROVE  CreditOf(w, req[w].i, req[w].p)
<1> SUFFICES ASSUME NEW i, i = req[w].i, NEW p, p = req[w].p
             PROVE  CreditOf(w, i, p)
  OBVIOUS
<1> DEFINE q == req[w]
<1>1. Busy(w) /\ q \in Request /\ Fine(q) /\ q.at = "credit"
  BY RequestType DEF Credit, At
<1>2. Settler(q) /\ OnPayment(q) /\ OnInvoice(q)
  BY <1>1 DEF Request, Fine, FineIssue, FineOpener, Settler, Opener, OnPayment, OnInvoice
<1>3. /\ p \in Payments /\ payment[p] \in PaymentRow /\ payment[p] # NoRow
      /\ payment[p].status # "COMPLETED" /\ payment[p].invoice = i
      /\ q.saw = invoice[i]
  BY <1>1, <1>2, SettlerType DEF Fine, FineSettler, FineInvoice
<1>4. i \in Invoices /\ invoice[i] # NoRow /\ payment[p].amount = invoice[i].total_amount
  BY <1>3 DEF IInv, Rows, PaymentRow
<1>5. invoice[i] \in InvoiceRow
  BY <1>4 DEF IInv, TypeOK
<1>6. payment[p].channel = "BK" => session[p] = "executed"
  BY <1>1, <1>2, <1>3 DEF Fine, FineSettler, Settler
<1>7. /\ invoice' = [invoice EXCEPT ![i] = Credited(q.saw, payment[p].amount)]
      /\ payment' = [payment EXCEPT ![p] = [payment[p] EXCEPT !.status = "COMPLETED",
                                                              !.gateway_id = "trx"]]
      /\ req' = [req EXCEPT ![w] = NoRow] /\ UNCHANGED <<live, session>>
  BY DEF Credit, Pay, End
<1> QED BY <1>1, <1>2, <1>3, <1>4, <1>5, <1>6, <1>7 DEF CreditOf

\* It keeps the invariant: amount_paid and the completed payments grow alike.
LEMMA CreditStep ==
  ASSUME IInv, NEW w \in Workers, Credit(w)
  PROVE  IInv'
<1> SUFFICES ASSUME NEW i, NEW p, CreditOf(w, i, p)
             PROVE  IInv'
  BY CreditFacts
<1> DEFINE new == Credited(invoice[i], invoice[i].total_amount)
           row == [payment[p] EXCEPT !.status = "COMPLETED", !.gateway_id = "trx"]
<1>1. /\ Busy(w) /\ Settler(req[w]) /\ OnPayment(req[w]) /\ OnInvoice(req[w])
      /\ i \in Invoices /\ invoice[i] \in InvoiceRow /\ invoice[i] # NoRow
      /\ p \in Payments /\ payment[p] \in PaymentRow /\ payment[p] # NoRow
      /\ payment[p].invoice = i /\ payment[p].amount = invoice[i].total_amount
      /\ payment[p].channel = "BK" => session[p] = "executed"
  BY DEF CreditOf
<1>2. /\ invoice' = [invoice EXCEPT ![i] = new] /\ payment' = [payment EXCEPT ![p] = row]
      /\ req' = [req EXCEPT ![w] = NoRow] /\ UNCHANGED <<live, session>>
  BY DEF CreditOf
<1>3. /\ new \in InvoiceRow /\ new # NoRow
      /\ new.total_amount = invoice[i].total_amount /\ new.status = "PAID"
      /\ new.total_amount >= 0 => new.paid_amount >= new.total_amount
      /\ new.total_amount < 0 => new.paid_amount < 0
  <2>1. Booked(i)
    BY <1>1 DEF IInv, Books
  <2> QED BY <1>1, <2>1, CreditedPaid DEF Booked
<1>4. /\ row \in PaymentRow /\ row # NoRow /\ row.status = "COMPLETED"
      /\ row.invoice = i /\ row.amount = invoice[i].total_amount
      /\ row.channel = payment[p].channel
  BY <1>1 DEF PaymentRow, PaymentStatus
<1> HIDE DEF new, row
<1>5. /\ invoice'[i] = new /\ \A j \in Invoices \ {i} : invoice'[j] = invoice[j]
      /\ payment'[p] = row /\ \A o \in Payments \ {p} : payment'[o] = payment[o]
  BY <1>1, <1>2 DEF IInv, TypeOK
<1>6. TypeOK'
  BY <1>2, <1>3, <1>4 DEF IInv, TypeOK
<1>7. Requests'
  <2>1. ASSUME NEW x \in Workers \ {w}, Busy(x)
        PROVE  Fine(req[x])'
    <3> req[w].i = i /\ req[w].p = p
      BY DEF CreditOf
    <3>1. Fine(req[x]) /\ req'[x] = req[x] /\ Apart(req[w], req[x])
      BY <1>1, <1>2, <2>1, RequestType DEF IInv, TypeOK, Requests
    <3>2. OnPayment(req[x]) \/ Opener(req[x]) => req[x].p \in Payments \ {p}
      BY <1>1, <2>1, SettlerAlone
    <3>3. OnInvoice(req[x]) => req[x].i \in Invoices \ {i}
      <4>1. CASE Settler(req[x])
        BY <1>1, <3>1, <4>1 DEF IInv, TypeOK, Fine, FineSettler, OnInvoice, OnPayment, PaymentRow,
           Apart
      <4>2. CASE ~Settler(req[x])
        <5>1. req[x] \in Request
          BY <2>1, RequestType
        <5> QED BY <1>1, <3>1, <4>2, <5>1 DEF Fine, FineOpener, OnInvoice, Opener, Settler,
               Request, Apart
      <4> QED BY <4>1, <4>2
    <3>4. Opener(req[x]) => req[x].i \in Invoices
      BY <3>1 DEF Fine, FineOpener
    <3> QED BY <1>2, <1>3, <1>5, <3>1, <3>2, <3>3, <3>4, Undisturbed
  <2> QED BY <1>2, <2>1, RequestStep DEF IInv
<1>8. Rows'
  <2> SUFFICES ASSUME NEW o \in Payments, payment'[o] # NoRow
               PROVE  /\ invoice'[payment'[o].invoice] # NoRow
                      /\ payment'[o].amount = invoice'[payment'[o].invoice].total_amount
    BY DEF Rows
  <2>1. CASE o = p
    BY <1>3, <1>4, <1>5, <2>1
  <2>2. CASE o # p
    <3>1. payment'[o] = payment[o] /\ payment[o].invoice \in Invoices
      BY <1>5, <2>2 DEF IInv, TypeOK, PaymentRow
    <3> QED BY <1>3, <1>5, <3>1 DEF IInv, Rows
  <2> QED BY <2>1, <2>2
<1>9. Books'
  <2> SUFFICES ASSUME NEW j \in Invoices, invoice'[j] # NoRow
               PROVE  Booked(j)'
    BY DEF Books
  <2>1. CASE j = i
    <3>1. p \in Paying(j)'
      BY <1>1, <1>4, <1>5, <2>1 DEF Paying
    <3> QED BY <1>3, <1>5, <2>1, <3>1 DEF Booked
  <2>2. CASE j # i
    <3>1. Paying(j)' = Paying(j)
      BY <1>1, <1>4, <1>5, <2>2 DEF Paying
    <3> QED BY <1>5, <2>2, <3>1 DEF IInv, Books, Booked
  <2> QED BY <2>1, <2>2
<1>10. CompletedWasExecuted'
  BY <1>1, <1>2, <1>4, <1>5 DEF IInv, CompletedWasExecuted
<1> QED BY <1>6, <1>7, <1>8, <1>9, <1>10 DEF IInv

-----------------------------------------------------------------------------
(* The invariant, and what follows from it.                                *)

\* The invariant holds of the empty tables.
LEMMA InitIInv == Init => IInv
BY DEF Init, IInv, TypeOK, Requests, Rows, Books, CompletedWasExecuted, Busy, SessionState

\* Nothing but the tables and the requests is in the invariant.
LEMMA StutterIInv ==
  ASSUME IInv, UNCHANGED vars
  PROVE  IInv'
<1>1. UNCHANGED <<live, invoice, payment, session, req>>
  BY DEF vars
<1>2. TypeOK' /\ Rows' /\ Books' /\ CompletedWasExecuted'
  BY <1>1 DEF IInv, TypeOK, Rows, Books, Booked, Paying, CompletedWasExecuted
<1>3. Requests'
  BY <1>1 DEF IInv, Requests, Busy, Apart, Fine, FineIssue, FineOpener, FineSettler,
     FineInvoice
<1> QED BY <1>2, <1>3 DEF IInv

\* The customer acts on an open session: nobody knows it as executed, nor as none.
LEMMA CustomerStep ==
  ASSUME IInv, NEW p \in Payments, Authorise(p) \/ Cancel(p)
  PROVE  IInv'
<1> PICK to \in {"authorised", "cancelled"} :
      /\ session[p] = "open" /\ session' = [session EXCEPT ![p] = to]
      /\ UNCHANGED <<live, invoice, payment, req>>
  BY DEF Authorise, Cancel, rows
<1>1. TypeOK' /\ Rows' /\ Books'
  BY DEF IInv, TypeOK, SessionState, Rows, Books, Booked, Paying
<1>2. \A o \in Payments : session'[o] = IF o = p THEN to ELSE session[o]
  BY DEF IInv, TypeOK
<1>3. CompletedWasExecuted'
  BY <1>2 DEF IInv, CompletedWasExecuted
<1>4. Requests'
  <2>1. ASSUME NEW w \in Workers, Busy(w)
        PROVE  Fine(req[w])'
    BY <1>2, <2>1, RequestType DEF Fine, FineIssue, FineOpener, FineSettler, FineInvoice,
       Opener, Settler, OnInvoice, OnPayment
  <2> QED BY <2>1 DEF IInv, Requests, Busy, Apart
<1> QED BY <1>1, <1>3, <1>4 DEF IInv

\* Every step keeps it.
LEMMA NextIInv == IInv /\ [Next]_vars => IInv'
<1> SUFFICES ASSUME IInv, [Next]_vars PROVE IInv'
  OBVIOUS
<1>1. ASSUME NEW w \in Workers, BeginSome(w) PROVE IInv'
  BY <1>1, BeginStep
<1>2. ASSUME NEW w \in Workers, Step(w) PROVE IInv'
  <2>1. CASE Issue(w)
    BY <2>1, IssueStep
  <2>2. CASE OpenInvoice(w)
    BY <2>2, OpenInvoiceStep
  <2>3. CASE OpenSession(w)
    BY <2>3, OpenSessionStep
  <2>4. CASE InsertPayment(w)
    BY <2>4, InsertPaymentStep
  <2>5. CASE Approve(w)
    BY <2>5, ApproveStep
  <2>6. CASE MarkFailed(w) \/ ExecuteIncomplete(w)
    BY <2>6, FailStep
  <2>7. CASE Execute(w) \/ ExecuteUnheard(w)
    BY <2>7, ExecuteStep
  <2>8. CASE LockInvoice(w)
    BY <2>8, LockInvoiceStep
  <2>9. CASE Credit(w)
    BY <2>9, CreditStep
  <2>10. CASE \/ IssueTwice(w) \/ AlreadyPaid(w) \/ SessionFails(w)
              \/ NothingToDo(w) \/ ExecuteFails(w)
    BY <2>10, RefuseStep DEF IssueTwice, AlreadyPaid, SessionFails, NothingToDo, ExecuteFails
  <2> QED BY <1>2, <2>1, <2>2, <2>3, <2>4, <2>5, <2>6, <2>7, <2>8, <2>9, <2>10 DEF Step
<1>3. ASSUME NEW w \in Workers, Crash(w) PROVE IInv'
  BY <1>3, RefuseStep DEF Crash
<1>4. ASSUME NEW p \in Payments, Authorise(p) \/ Cancel(p) PROVE IInv'
  BY <1>4, CustomerStep
<1>5. CASE EndTenancy
  <2>1. UNCHANGED <<invoice, payment, session, req>> /\ live' \in BOOLEAN
    BY <1>5 DEF EndTenancy
  <2>2. TypeOK' /\ Rows' /\ Books' /\ CompletedWasExecuted'
    BY <2>1 DEF IInv, TypeOK, Rows, Books, Booked, Paying, CompletedWasExecuted
  <2>3. Requests'
    BY <2>1 DEF IInv, Requests, Busy, Apart, Fine, FineIssue, FineOpener, FineSettler,
       FineInvoice
  <2> QED BY <2>2, <2>3 DEF IInv
<1>6. CASE UNCHANGED vars
  BY <1>6, StutterIInv
<1> QED BY <1>1, <1>2, <1>3, <1>4, <1>5, <1>6 DEF Next

\* The invariant holds throughout, for any number of payments and gateways'
\* callbacks that overlap (create, execute, callback, confirm).
THEOREM Inductive == Spec => []IInv
BY InitIInv, NextIInv, PTL DEF Spec

\* The variables keep their types.
THEOREM TypeCorrect == Spec => []TypeOK
BY Inductive, PTL DEF IInv

\* An invoice is PAID exactly when a payment of it has completed, whatever
\* requests overlap, are repeated or are cut off.
THEOREM PaidMeansPaying == Spec => []PaidIffCompleted
<1>1. IInv => PaidIffCompleted
  BY DEF IInv, Books, Booked, PaidIffCompleted
<1> QED BY <1>1, Inductive, PTL

\* No bKash payment counts as completed unless its money was moved.
THEOREM CreditNeedsExecution == Spec => []CompletedWasExecuted
BY Inductive, PTL DEF IInv

\* What steps do to the rows.
LEMMA RowSteps ==
  ASSUME IInv, [Next]_vars
  PROVE  \/ UNCHANGED <<invoice, payment>>
         \/ \E w \in Workers : Issue(w)
         \/ \E w \in Workers : \E i, p, row : InsertOf(w, i, p, row)
         \/ \E w \in Workers : \E p, row : FailOf(w, p, row)
         \/ \E w \in Workers : \E i, p : CreditOf(w, i, p)
<1>1. \/ UNCHANGED <<invoice, payment>>
      \/ \E w \in Workers : \/ Issue(w) \/ InsertPayment(w)
                            \/ MarkFailed(w) \/ ExecuteIncomplete(w) \/ Credit(w)
  <2>1. ASSUME NEW w \in Workers, BeginSome(w) PROVE UNCHANGED <<invoice, payment>>
    BY <2>1 DEF BeginSome, BeginIssue, BeginPayment, BeginWebhook, BeginCallback, Start
  <2>2. ASSUME NEW w \in Workers, Step(w)
        PROVE  \/ UNCHANGED <<invoice, payment>>
               \/ Issue(w) \/ InsertPayment(w)
               \/ MarkFailed(w) \/ ExecuteIncomplete(w) \/ Credit(w)
    BY <2>2 DEF Step, IssueTwice, OpenInvoice, AlreadyPaid, OpenSession, SessionFails,
       NothingToDo, Approve, Execute, ExecuteUnheard, ExecuteFails, LockInvoice, Refuse, rows
  <2> QED BY <2>1, <2>2 DEF Next, Crash, Refuse, Authorise, Cancel, EndTenancy, rows, vars
<1> QED BY <1>1, InsertFacts, FailFacts, CreditFacts

\* A completed payment never changes again.
THEOREM CompletionIsFinal == Spec => CompletedIsFinal
<1>1. ASSUME IInv, [Next]_vars, NEW p \in Payments,
             payment[p] # NoRow, payment[p].status = "COMPLETED"
      PROVE  payment'[p] = payment[p]
  <2>1. CASE UNCHANGED payment
    BY <2>1
  <2>2. CASE \E w \in Workers : Issue(w)
    BY <2>2 DEF Issue
  <2>3. ASSUME NEW w \in Workers, NEW i, NEW o, NEW row, InsertOf(w, i, o, row)
        PROVE  payment'[p] = payment[p]
    BY <1>1, <2>3 DEF InsertOf, IInv, TypeOK
  <2>4. ASSUME NEW w \in Workers, NEW o, NEW row, FailOf(w, o, row)
        PROVE  payment'[p] = payment[p]
    BY <1>1, <2>4 DEF FailOf, IInv, TypeOK
  <2>5. ASSUME NEW w \in Workers, NEW i, NEW o, CreditOf(w, i, o)
        PROVE  payment'[p] = payment[p]
    <3>1. o # p
      BY <1>1, <2>5 DEF CreditOf
    <3> QED BY <1>1, <2>5, <3>1 DEF CreditOf, IInv, TypeOK
  <2> QED BY <1>1, <2>1, <2>2, <2>3, <2>4, <2>5, RowSteps
<1>2. IInv /\ [Next]_vars =>
        [\A p \in Payments : payment[p] # NoRow /\ payment[p].status = "COMPLETED"
                             => payment'[p] = payment[p]]_vars
  BY <1>1
<1> QED BY <1>2, Inductive, PTL DEF Spec, CompletedIsFinal

\* The invoice is locked from the statement that reads it to the one that
\* inserts the payment, bKash's answer in between: the payment is for what
\* remains to be paid of an invoice that is not paid yet.
THEOREM OpenedForBalance == Spec => PaymentForBalance
<1>1. ASSUME IInv, [Next]_vars, NEW p \in Payments,
             payment[p] = NoRow, payment'[p] # NoRow
      PROVE  LET inv == invoice[payment'[p].invoice]
             IN /\ inv.status # "PAID"
                /\ payment'[p].amount = inv.total_amount - inv.paid_amount
  <2>1. PICK w, i, o, row : InsertOf(w, i, o, row)
    <3>1. ~ UNCHANGED payment
      BY <1>1
    <3>2. \A w \in Workers : ~ Issue(w)
      BY <3>1 DEF Issue
    <3>3. ASSUME NEW w \in Workers, NEW o, NEW row, FailOf(w, o, row) PROVE FALSE
      BY <1>1, <3>3 DEF FailOf, IInv, TypeOK
    <3>4. ASSUME NEW w \in Workers, NEW i, NEW o, CreditOf(w, i, o) PROVE FALSE
      <4>1. payment'[p] = payment[p]
        BY <1>1, <3>4 DEF CreditOf, IInv, TypeOK
      <4> QED BY <1>1, <4>1
    <3> QED BY <1>1, <3>1, <3>2, <3>3, <3>4, RowSteps
  <2>2. payment'[p] = row
    BY <1>1, <2>1 DEF InsertOf, IInv, TypeOK
  <2> QED BY <2>1, <2>2 DEF InsertOf
<1>2. IInv /\ [Next]_vars =>
        [\A p \in Payments :
           payment[p] = NoRow /\ payment'[p] # NoRow =>
             LET inv == invoice[payment'[p].invoice]
             IN /\ inv.status # "PAID"
                /\ payment'[p].amount = inv.total_amount - inv.paid_amount]_vars
  BY <1>1
<1> QED BY <1>2, Inductive, PTL DEF Spec, PaymentForBalance

-----------------------------------------------------------------------------
(* The ledger.                                                             *)

\* What is paid of an invoice is the sum of the finitely many payments that count.
Balanced(i) ==
  /\ IsFiniteSet(Paying(i))
  /\ invoice[i].paid_amount = SumOf(payment, Paying(i))

Ledger == \A i \in Invoices : invoice[i] # NoRow => Balanced(i)

\* Payments that count, and their amounts, stay: so does the balance.
LEMMA BalanceStays ==
  ASSUME TypeOK, NEW i \in Invoices, Balanced(i), Paying(i)' = Paying(i),
         invoice'[i].paid_amount = invoice[i].paid_amount,
         \A p \in Paying(i) : payment'[p].amount = payment[p].amount
  PROVE  Balanced(i)'
<1>1. Amounts(payment, Paying(i)) /\ Same(payment, payment', Paying(i))
  BY DEF Amounts, Same, Paying, TypeOK, PaymentRow
<1>2. SumOf(payment', Paying(i)) = SumOf(payment, Paying(i))
  BY <1>1, SumSame DEF Balanced
<1>3. SumOf(payment, Paying(i))' = SumOf(payment', Paying(i)')
  OBVIOUS
<1> QED BY <1>2, <1>3 DEF Balanced

\* Every step keeps the ledger: a credit adds to both sides.
LEMMA LedgerStep ==
  ASSUME IInv, Ledger, [Next]_vars
  PROVE  Ledger'
<1> TypeOK
  BY DEF IInv
<1>1. CASE UNCHANGED <<invoice, payment>>
  BY <1>1 DEF Ledger, Balanced, Paying
<1>2. ASSUME NEW w \in Workers, Issue(w)
      PROVE  Ledger'
  <2> SUFFICES ASSUME NEW i \in Invoices, invoice'[i] # NoRow
               PROVE  Balanced(i)'
    BY DEF Ledger
  <2>1. /\ UNCHANGED payment /\ req[w].i \in Invoices /\ invoice[req[w].i] = NoRow
        /\ invoice' = [invoice EXCEPT ![req[w].i] = [total_amount |-> req[w].total,
                                                     paid_amount |-> 0, status |-> "ISSUED"]]
    BY <1>2, RequestType DEF Issue, At, Fine, FineIssue
  <2>2. CASE i = req[w].i
    <3>1. Paying(i)' = {} /\ invoice'[i].paid_amount = 0
      BY <2>1, <2>2 DEF IInv, Rows, Paying, TypeOK
    <3> QED BY <3>1, FS_EmptySet, SumEmpty DEF Balanced
  <2>3. CASE i # req[w].i
    <3>1. Paying(i)' = Paying(i) /\ invoice'[i] = invoice[i]
      BY <2>1, <2>3 DEF Paying, TypeOK
    <3> QED BY <2>1, <3>1, BalanceStays DEF Ledger
  <2> QED BY <2>2, <2>3
<1>3. ASSUME NEW p, NEW row,
             p \in Payments, row \in PaymentRow,
             payment[p] = NoRow \/ payment[p].status # "COMPLETED",
             row.status # "COMPLETED", payment' = [payment EXCEPT ![p] = row],
             UNCHANGED invoice
      PROVE  Ledger'
  <2> SUFFICES ASSUME NEW i \in Invoices, invoice[i] # NoRow
               PROVE  Balanced(i)'
    BY <1>3 DEF Ledger
  <2>1. Paying(i)' = Paying(i)
    BY <1>3 DEF Paying, TypeOK
  <2>2. \A o \in Paying(i) : payment'[o].amount = payment[o].amount
    BY <1>3 DEF Paying, TypeOK
  <2> QED BY <1>3, <2>1, <2>2, BalanceStays DEF Ledger
<1>4. ASSUME NEW w \in Workers, NEW j, NEW p, CreditOf(w, j, p)
      PROVE  Ledger'
  <2> SUFFICES ASSUME NEW i \in Invoices, invoice'[i] # NoRow
               PROVE  Balanced(i)'
    BY DEF Ledger
  <2> DEFINE new == Credited(invoice[j], invoice[j].total_amount)
             row == [payment[p] EXCEPT !.status = "COMPLETED", !.gateway_id = "trx"]
  <2>1. /\ j \in Invoices /\ invoice[j] \in InvoiceRow /\ invoice[j] # NoRow
        /\ p \in Payments /\ payment[p] \in PaymentRow /\ payment[p] # NoRow
        /\ payment[p].invoice = j /\ payment[p].status # "COMPLETED"
        /\ payment[p].amount = invoice[j].total_amount
        /\ invoice' = [invoice EXCEPT ![j] = new] /\ payment' = [payment EXCEPT ![p] = row]
    BY <1>4 DEF CreditOf
  <2>2. /\ row \in PaymentRow /\ row # NoRow /\ row.status = "COMPLETED"
        /\ row.invoice = j /\ row.amount = invoice[j].total_amount
    BY <2>1 DEF PaymentRow, PaymentStatus
  <2>3. new.paid_amount = invoice[j].paid_amount + row.amount
    <3>1. Booked(j)
      BY <2>1 DEF IInv, Books
    <3> QED BY <2>1, <2>2, <3>1, CreditedPaid DEF Booked
  <2> HIDE DEF new, row
  <2>4. /\ invoice'[j] = new /\ \A k \in Invoices \ {j} : invoice'[k] = invoice[k]
        /\ payment'[p] = row /\ \A o \in Payments \ {p} : payment'[o] = payment[o]
    BY <2>1 DEF TypeOK
  <2>5. CASE i # j
    <3>1. Paying(i)' = Paying(i) /\ p \notin Paying(i)
      BY <2>1, <2>2, <2>4, <2>5 DEF Paying
    <3>2. \A o \in Paying(i) : payment'[o].amount = payment[o].amount
      BY <2>4, <3>1 DEF Paying
    <3>3. Balanced(i) /\ invoice'[i] = invoice[i]
      BY <2>4, <2>5 DEF Ledger
    <3> QED BY <3>1, <3>2, <3>3, BalanceStays
  <2>6. CASE i = j
    <3>1. Paying(i)' = Paying(i) \cup {p} /\ p \notin Paying(i)
      BY <2>1, <2>2, <2>4, <2>6 DEF Paying
    <3>2. IsFiniteSet(Paying(i)) /\ invoice[i].paid_amount = SumOf(payment, Paying(i))
      BY <2>1, <2>6 DEF Ledger, Balanced
    <3>3. Amounts(payment, Paying(i)) /\ Same(payment, payment', Paying(i))
      BY <2>4, <3>1 DEF Amounts, Same, Paying, TypeOK, PaymentRow
    <3>4. payment'[p].amount \in Int
      BY <2>2, <2>4 DEF PaymentRow
    <3>5. SumOf(payment', Paying(i) \cup {p}) = SumOf(payment, Paying(i)) + payment'[p].amount
      BY <3>1, <3>2, <3>3, <3>4, SumPlus
    <3>6. SumOf(payment, Paying(i))' = SumOf(payment', Paying(i)')
      OBVIOUS
    <3>7. IsFiniteSet(Paying(i)')
      BY <3>1, <3>2, FS_AddElement
    <3> QED BY <2>3, <2>4, <2>6, <3>1, <3>2, <3>5, <3>6, <3>7 DEF Balanced
  <2> QED BY <2>5, <2>6
<1>5. ASSUME NEW w \in Workers, NEW i, NEW p, NEW row, InsertOf(w, i, p, row)
      PROVE  Ledger'
  BY <1>3, <1>5 DEF InsertOf
<1>6. ASSUME NEW w \in Workers, NEW p, NEW row, FailOf(w, p, row)
      PROVE  Ledger'
  BY <1>3, <1>6 DEF FailOf
<1> QED BY <1>1, <1>2, <1>4, <1>5, <1>6, RowSteps

\* The ledger balances: what an invoice counts as paid is the sum of its
\* completed payments, each once.
THEOREM LedgerIsKept == Spec => []LedgerBalances
<1>1. Init => Ledger
  BY DEF Init, Ledger
<1>2. IInv /\ Ledger /\ [Next]_vars => Ledger'
  BY LedgerStep
<1>3. Ledger => LedgerBalances
  BY DEF Ledger, Balanced, SumOf, LedgerBalances
<1> QED BY <1>1, <1>2, <1>3, Inductive, PTL DEF Spec
=============================================================================
