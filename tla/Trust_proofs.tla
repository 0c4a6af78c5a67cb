---------------------------- MODULE Trust_proofs ----------------------------
(***************************************************************************)
(* Theorems about Trust, for every number of users, tenancies, reviews and *)
(* requests in progress.                                                   *)
(*                                                                         *)
(* The argument: reviews and submissions are never deleted and approvals   *)
(* are counted, so whatever a request has read of them stays true as a     *)
(* bound (Fine), however many requests overlap; this is what the score,    *)
(* the blind window and the reviews sent in answer rest on.  What an       *)
(* identity check has read is exact (CheckNow) as long as no other check   *)
(* of its user overlaps it, whatever is done about other users or scores.  *)
(***************************************************************************)
EXTENDS Trust, FiniteSetTheorems, TLAPS

Request == ReviewRequest \cup KycRequest
Kyc(q)  == q.op \in {"submit", "resubmit", "decide"}

\* What a row of user u may say: the score is explained by reviews and approvals.
Sound(u, row) ==
  /\ row \in UserRow
  /\ row.trust_score >= 50 - 4 * Cardinality(Rated(u, {1, 2}))
  /\ row.trust_score <= 50 + 4 * Cardinality(Rated(u, {4, 5})) + 20 * approvals[u]

\* A review that is being written is new; the opposite one it has found is one,
\* and no other opposite one was there when its request came in.
ReviewFine(q) ==
  /\ q.id \notin Written
  /\ q.row.reviewee = Reviewee(q.row.reviewer, q.row.tenancy)
  /\ q.opposite # NoRow => q.opposite \in By(q.row.reviewee, q.row.tenancy)
  /\ q.at = "write" => Sound(q.row.reviewee, q.saw)
  /\ q.seen \subseteq Written
  /\ q.at \in {"reviewee", "write"} =>
       \A j \in q.seen : j \in By(q.row.reviewee, q.row.tenancy) => j = q.opposite

\* Submissions are decided that are there.
KycFine(q) ==
  /\ q.op \in {"submit", "resubmit"} => q.decision = "PENDING"
  /\ q.op = "decide" => kyc[q.user] # NoRow
  /\ q.op = "decide" /\ q.at = "write" => Sound(q.user, q.saw)

Fine(q) == (q.op = "review" => ReviewFine(q)) /\ (Kyc(q) => KycFine(q))

Apart(q, p) == q.op = "review" /\ p.op = "review" => q.id # p.id

Requests ==
  /\ \A w \in Workers : req[w] # NoRow => Fine(req[w]) /\ req[w].op \in Allowed[w]
  /\ \A v, w \in Workers : v # w /\ req[v] # NoRow /\ req[w] # NoRow => Apart(req[v], req[w])

AllSound == \A u \in Users : Sound(u, users[u])

SeenWritten == \A i \in Reviews : seen[i] \subseteq Written

TrustInv == TypeOK /\ AllSound /\ Requests /\ SeenWritten /\ BlindUntilAnswered /\ AnsweredArePublic

\* What is still exact: the status of the submission, and the user's badge.
CheckNow(q) ==
  /\ q.op = "decide" /\ q.at \in {"user", "write"} => q.sawStatus = kyc[q.user]
  /\ q.op = "decide" /\ q.at = "write" =>
       q.saw.is_kyc_verified = users[q.user].is_kyc_verified
  /\ q.op \in {"submit", "resubmit"} /\ q.at = "write" =>
       q.sawStatus = kyc[q.user] /\ kyc[q.user] # "APPROVED"

-----------------------------------------------------------------------------
(* The operators.                                                          *)

\* The score after a review, and what a rating is worth.
LEMMA RaisedScore ==
  ASSUME NEW score \in Score, NEW d \in Int
  PROVE  Raised(score, d) = IF score + d < 0 THEN 0
                            ELSE IF score + d > 100 THEN 100 ELSE score + d
<1> DEFINE n == score + d
           m == IF n > 100 THEN 100 ELSE n
<1>1. n \in Int /\ m \in Int
  BY DEF Score
<1>2. Min({100, n}) = m
  <2>1. \A x \in {100, n} : (\A y \in {100, n} : x <= y) <=> x = m
    BY <1>1
  <2>2. m \in {100, n}
    OBVIOUS
  <2> HIDE DEF m, n
  <2> QED BY <2>1, <2>2 DEF Min
<1>3. Max({0, m}) = IF m < 0 THEN 0 ELSE m
  <2> DEFINE k == IF m < 0 THEN 0 ELSE m
  <2>1. \A x \in {0, m} : (\A y \in {0, m} : x >= y) <=> x = k
    <3> HIDE DEF m
    <3> QED BY <1>1
  <2>2. k \in {0, m}
    OBVIOUS
  <2> HIDE DEF m, k
  <2>3. Max({0, m}) = k
    BY <2>1, <2>2 DEF Max
  <2> QED BY <2>3 DEF k
<1> QED BY <1>1, <1>2, <1>3 DEF Raised

\* What an approval makes of a score: 20 more, up to 100.
LEMMA ApprovedScore ==
  ASSUME NEW score \in Score
  PROVE  Min({100, score + 20}) = IF score + 20 > 100 THEN 100 ELSE score + 20
<1> DEFINE n == score + 20
           m == IF n > 100 THEN 100 ELSE n
<1>1. n \in Int /\ m \in Int
  BY DEF Score
<1>2. \A x \in {100, n} : (\A y \in {100, n} : x <= y) <=> x = m
  BY <1>1
<1>3. m \in {100, n}
  OBVIOUS
<1> HIDE DEF m, n
<1>4. Min({100, n}) = m
  BY <1>2, <1>3 DEF Min
<1> QED BY <1>4 DEF m, n

\* A rating moves a score by at most 4; only 1 and 2 lower it, only 4 and 5 raise it.
LEMMA DeltaOf ==
  ASSUME NEW rating \in 1..5
  PROVE  /\ Delta(rating) \in Int /\ Delta(rating) >= -4 /\ Delta(rating) <= 4
         /\ Delta(rating) < 0 => rating \in {1, 2}
         /\ Delta(rating) > 0 => rating \in {4, 5}
BY DEF Delta

\* An UPDATE changes the columns in which the new row differs from the one read.
LEMMA UpdatedRow ==
  ASSUME NEW u \in Users, users[u] \in UserRow, NEW saw \in UserRow, NEW new \in UserRow
  PROVE  /\ Updated(u, saw, new) \in UserRow
         /\ Updated(u, saw, new).trust_score =
              IF new.trust_score = saw.trust_score THEN users[u].trust_score
                                                   ELSE new.trust_score
         /\ Updated(u, saw, new).is_kyc_verified =
              IF new.is_kyc_verified = saw.is_kyc_verified THEN users[u].is_kyc_verified
                                                           ELSE new.is_kyc_verified
<1>1. DOMAIN new = {"trust_score", "is_kyc_verified"}
  BY DEF UserRow
<1>2. Updated(u, saw, new) =
        [trust_score |-> IF new.trust_score = saw.trust_score THEN users[u].trust_score
                                                              ELSE new.trust_score,
         is_kyc_verified |-> IF new.is_kyc_verified = saw.is_kyc_verified
                             THEN users[u].is_kyc_verified ELSE new.is_kyc_verified]
  BY <1>1 DEF Updated
<1> QED BY <1>2 DEF UserRow

-----------------------------------------------------------------------------
(* The steps.                                                              *)

\* The fields of each kind of request.
LEMMA RequestFields ==
  ASSUME NEW q \in Request
  PROVE  /\ q.op = "review" => q \in ReviewRequest
         /\ Kyc(q) => q \in KycRequest
         /\ q # NoRow
BY TrustAssumption DEF Request, ReviewRequest, KycRequest, Kyc

\* Worker w goes from one statement of its requests to the next: r is what it is
\* serving then, and what was exact still is.
Advance(w, r) ==
  /\ r \in Request /\ Fine(r) /\ r.op \in Allowed[w] /\ (req[w] # NoRow => req[w].op = r.op)
  /\ \A v \in Workers : v # w /\ req[v] # NoRow => Apart(r, req[v]) /\ Apart(req[v], r)
  /\ Kyc(r) /\ (req[w] = NoRow \/ CheckNow(req[w])) => CheckNow(r)
  /\ Kyc(r) /\ req[w] # NoRow => req[w].user = r.user
  /\ req' = [req EXCEPT ![w] = r]
  /\ UNCHANGED <<users, kyc, review, seen, approvals, mixed>>
  /\ alone' = IF req[w] # NoRow \/ ~Kyc(r) THEN alone
              ELSE IF Checking(r.user) = {} THEN alone \cup {w} ELSE alone \ Checking(r.user)

\* Worker w answers its request.
Answer(w) == /\ req[w] \in Request /\ Fine(req[w])
             /\ WriteReview(w) \/ WriteSubmission(w) \/ WriteDecision(w) \/ GiveUp(w)

\* A request that comes in only advances.
LEMMA BeginAdvances ==
  ASSUME TrustInv, NEW w \in Workers,
         \/ \E i \in Reviews, t \in Tenancies, u \in Users, rating \in Ratings :
              BeginReview(w, i, t, u, rating)
         \/ \E u \in Submitters : BeginSubmit(w, u) \/ BeginResubmit(w, u)
         \/ \E u \in Submitters, d \in Decisions : BeginDecide(w, u, d)
  PROVE  \E r : Advance(w, r)
<1>1. TypeOK /\ Requests
  BY DEF TrustInv
<1>2. ASSUME NEW i \in Reviews, NEW t \in Tenancies, NEW u \in Users, NEW rating \in Ratings,
             BeginReview(w, i, t, u, rating)
      PROVE  \E r : Advance(w, r)
  <2> DEFINE row == [tenancy |-> t, reviewer |-> u, reviewee |-> Reviewee(u, t),
                     rating |-> rating, is_public |-> FALSE]
             r == [op |-> "review", at |-> "dup", id |-> i, row |-> row,
                   opposite |-> NoRow, saw |-> NoRow, seen |-> Written]
  <2>1. Reviewee(u, t) \in Users
    BY TrustAssumption DEF Reviewee
  <2>2. row \in ReviewRow
    BY <2>1, TrustAssumption DEF ReviewRow
  <2>3. r \in Request
    BY <2>2 DEF Request, ReviewRequest, Written
  <2>4. Fine(r)
    BY <1>2 DEF Fine, ReviewFine, Kyc, BeginReview
  <2>5. \A v \in Workers : v # w /\ req[v] # NoRow => Apart(r, req[v]) /\ Apart(req[v], r)
    BY <1>2 DEF BeginReview, Busy, Apart
  <2>6. ~Kyc(r)
    BY DEF Kyc
  <2> QED BY <1>2, <2>3, <2>4, <2>5, <2>6 DEF BeginReview, Begin, Busy, Advance
<1>3. ASSUME NEW op \in {"submit", "resubmit", "decide"}, NEW u \in Users, NEW d \in Status,
             op \in {"submit", "resubmit"} => d = "PENDING",
             op = "decide" => kyc[u] # NoRow, BeginKyc(w, op, u, d)
      PROVE  \E r : Advance(w, r)
  <2> DEFINE r == [op |-> op, at |-> "kyc", user |-> u, decision |-> d,
                   sawStatus |-> NoRow, saw |-> NoRow]
  <2>1. r \in Request
    BY DEF Request, KycRequest
  <2>2. Fine(r) /\ CheckNow(r) /\ Kyc(r) /\ r.op # "review"
    BY <1>3 DEF Fine, KycFine, Kyc, CheckNow
  <2>3. \A v \in Workers : v # w /\ req[v] # NoRow => Apart(r, req[v]) /\ Apart(req[v], r)
    BY DEF Apart
  <2>4. /\ req[w] = NoRow /\ op \in Allowed[w] /\ req' = [req EXCEPT ![w] = r]
        /\ UNCHANGED <<users, kyc, review, seen, approvals, mixed>>
    BY <1>3 DEF BeginKyc, Begin, Busy
  <2>5. alone' = IF Checking(r.user) = {} THEN alone \cup {w} ELSE alone \ Checking(r.user)
    BY <1>3 DEF BeginKyc
  <2>6. r.op = op
    OBVIOUS
  <2> HIDE DEF r
  <2> QED BY <2>1, <2>2, <2>3, <2>4, <2>5, <2>6 DEF Advance
<1>4. "PENDING" \in Status /\ Submitters \subseteq Users /\ Decisions \subseteq Status
  BY TrustAssumption DEF Status
<1> QED
  BY <1>2, <1>3, <1>4 DEF BeginSubmit, BeginResubmit, BeginDecide

\* A SELECT only advances its request.
LEMMA ReadAdvances ==
  ASSUME TrustInv, NEW w \in Workers,
         \/ ReadDuplicate(w) \/ ReadOpposite(w) \/ ReadReviewee(w)
         \/ ReadSubmission(w) \/ ReadDecided(w) \/ ReadUser(w)
  PROVE  \E r : Advance(w, r)
<1>1. TypeOK /\ Requests /\ AllSound /\ req[w] # NoRow
  BY DEF TrustInv, ReadDuplicate, ReadOpposite, ReadReviewee, ReadSubmission, ReadDecided,
         ReadUser, At, Busy
<1>2. PICK q \in Request : q = req[w]
  BY <1>1 DEF TypeOK, Request
<1>3. /\ Fine(q) /\ q.op \in Allowed[w]
      /\ \A v \in Workers : v # w /\ req[v] # NoRow => Apart(q, req[v]) /\ Apart(req[v], q)
  BY <1>1, <1>2 DEF Requests
<1>4. ASSUME ReadDuplicate(w) PROVE \E r : Advance(w, r)
  <2> DEFINE r == [q EXCEPT !.at = "opposite"]
  <2>1. q \in ReviewRequest /\ q.op = "review" /\ q.at = "dup"
    BY <1>2, <1>4, RequestFields DEF ReadDuplicate, At
  <2>2. /\ r \in Request /\ r.op = "review" /\ r.at = "opposite" /\ r.id = q.id
        /\ r.row = q.row /\ r.opposite = q.opposite /\ r.seen = q.seen
    BY <2>1 DEF Request, ReviewRequest
  <2>3. Fine(r) /\ ~Kyc(r)
    BY <1>3, <2>1, <2>2 DEF Fine, ReviewFine, Kyc
  <2>4. \A v \in Workers : v # w /\ req[v] # NoRow => Apart(r, req[v]) /\ Apart(req[v], r)
    BY <1>3, <2>1, <2>2 DEF Apart
  <2>5. req' = [req EXCEPT ![w] = r] /\ UNCHANGED <<users, kyc, review, history>>
    BY <1>2, <1>4 DEF ReadDuplicate, Read
  <2> QED BY <1>1, <1>2, <1>3, <2>1, <2>2, <2>3, <2>4, <2>5 DEF Advance, history
<1>5. ASSUME ReadOpposite(w) PROVE \E r : Advance(w, r)
  <2>1. q \in ReviewRequest /\ q.op = "review" /\ q.at = "opposite"
    BY <1>2, <1>5, RequestFields DEF ReadOpposite, At
  <2>2. By(q.row.reviewee, q.row.tenancy) \subseteq Reviews
    BY DEF By, Written
  <2>3. \E r \in ReviewRequest :
          /\ req' = [req EXCEPT ![w] = r] /\ UNCHANGED <<users, kyc, review, history>>
          /\ r.at = "reviewee" /\ r.id = q.id /\ r.row = q.row /\ r.seen = q.seen
          /\ \/ /\ By(q.row.reviewee, q.row.tenancy) = {} /\ r.opposite = q.opposite
             \/ By(q.row.reviewee, q.row.tenancy) = {r.opposite} /\ r.opposite # NoRow
    <3>1. CASE /\ By(q.row.reviewee, q.row.tenancy) = {}
               /\ Read(w, [q EXCEPT !.at = "reviewee"])
      <4> DEFINE r == [q EXCEPT !.at = "reviewee"]
      <4>1. /\ r \in ReviewRequest /\ r.at = "reviewee" /\ r.id = q.id /\ r.row = q.row
            /\ r.opposite = q.opposite /\ r.seen = q.seen
        BY <2>1 DEF ReviewRequest
      <4> QED BY <3>1, <4>1 DEF Read
    <3>2. ASSUME NEW i \in Reviews, By(q.row.reviewee, q.row.tenancy) = {i},
                 Read(w, [q EXCEPT !.at = "reviewee", !.opposite = i])
          PROVE  \E r \in ReviewRequest :
                   /\ req' = [req EXCEPT ![w] = r] /\ UNCHANGED <<users, kyc, review, history>>
                   /\ r.at = "reviewee" /\ r.id = q.id /\ r.row = q.row /\ r.seen = q.seen
                   /\ By(q.row.reviewee, q.row.tenancy) = {r.opposite} /\ r.opposite # NoRow
      <4> DEFINE r == [q EXCEPT !.at = "reviewee", !.opposite = i]
      <4>1. /\ r \in ReviewRequest /\ r.at = "reviewee" /\ r.id = q.id /\ r.row = q.row
            /\ r.opposite = i /\ r.seen = q.seen
        BY <2>1 DEF ReviewRequest
      <4>2. i # NoRow
        BY TrustAssumption
      <4> QED BY <3>2, <4>1, <4>2 DEF Read
    <3> QED BY <1>2, <1>5, <2>2, <3>1, <3>2 DEF ReadOpposite
  <2>4. PICK r \in ReviewRequest :
          /\ req' = [req EXCEPT ![w] = r] /\ UNCHANGED <<users, kyc, review, history>>
          /\ r.at = "reviewee" /\ r.id = q.id /\ r.row = q.row /\ r.seen = q.seen
          /\ \/ /\ By(q.row.reviewee, q.row.tenancy) = {} /\ r.opposite = q.opposite
             \/ By(q.row.reviewee, q.row.tenancy) = {r.opposite} /\ r.opposite # NoRow
    BY <2>3
  <2>5. r \in Request /\ r.op = "review" /\ ~Kyc(r)
    BY DEF Request, ReviewRequest, Kyc
  <2>6. Fine(r)
    BY <1>3, <2>1, <2>4, <2>5 DEF Fine, ReviewFine
  <2>7. \A v \in Workers : v # w /\ req[v] # NoRow => Apart(r, req[v]) /\ Apart(req[v], r)
    BY <1>3, <2>1, <2>4, <2>5 DEF Apart
  <2> QED BY <1>1, <1>2, <1>3, <2>1, <2>4, <2>5, <2>6, <2>7 DEF Advance, history
<1>6. ASSUME ReadReviewee(w) PROVE \E r : Advance(w, r)
  <2> DEFINE r == [q EXCEPT !.at = "write", !.saw = users[q.row.reviewee]]
  <2>1. q \in ReviewRequest /\ q.op = "review" /\ q.at = "reviewee"
    BY <1>2, <1>6, RequestFields DEF ReadReviewee, At
  <2>2. q.row.reviewee \in Users
    BY <2>1 DEF ReviewRequest, ReviewRow
  <2>3. users[q.row.reviewee] \in UserRow
    BY <1>1, <2>2 DEF TypeOK
  <2>4. /\ r \in Request /\ r.op = "review" /\ r.at = "write" /\ r.id = q.id
        /\ r.row = q.row /\ r.opposite = q.opposite /\ r.saw = users[q.row.reviewee]
        /\ r.seen = q.seen
    BY <2>1, <2>3 DEF Request, ReviewRequest
  <2>5. Fine(r) /\ ~Kyc(r)
    BY <1>1, <1>3, <2>1, <2>2, <2>4 DEF Fine, ReviewFine, Kyc, AllSound
  <2>6. \A v \in Workers : v # w /\ req[v] # NoRow => Apart(r, req[v]) /\ Apart(req[v], r)
    BY <1>3, <2>1, <2>4 DEF Apart
  <2>7. req' = [req EXCEPT ![w] = r] /\ UNCHANGED <<users, kyc, review, history>>
    BY <1>2, <1>6 DEF ReadReviewee, Read
  <2> QED BY <1>1, <1>2, <1>3, <2>1, <2>4, <2>5, <2>6, <2>7 DEF Advance, history
<1>7. ASSUME ReadSubmission(w) PROVE \E r : Advance(w, r)
  <2> DEFINE r == [q EXCEPT !.at = "write", !.sawStatus = kyc[q.user]]
  <2>1. /\ Kyc(q) /\ q \in KycRequest /\ q.op \in {"submit", "resubmit"}
        /\ kyc[q.user] # "APPROVED"
    BY <1>2, <1>7, RequestFields DEF ReadSubmission, At, Kyc
  <2>2. kyc[q.user] \in Status \cup {NoRow}
    BY <1>1, <2>1 DEF TypeOK, KycRequest
  <2>3. /\ r \in Request /\ r.op = q.op /\ r.at = "write" /\ r.user = q.user
        /\ r.decision = q.decision /\ r.sawStatus = kyc[q.user]
    BY <2>1, <2>2 DEF Request, KycRequest
  <2>4. Fine(r) /\ CheckNow(r) /\ r.op # "review"
    BY <1>3, <2>1, <2>3 DEF Fine, KycFine, Kyc, CheckNow
  <2>5. \A v \in Workers : Apart(r, req[v]) /\ Apart(req[v], r)
    BY <2>4 DEF Apart
  <2>6. req' = [req EXCEPT ![w] = r] /\ UNCHANGED <<users, kyc, review, history>>
    BY <1>2, <1>7 DEF ReadSubmission, Read
  <2> QED BY <1>1, <1>2, <1>3, <2>3, <2>4, <2>5, <2>6 DEF Advance, history
<1>8. ASSUME ReadDecided(w) PROVE \E r : Advance(w, r)
  <2> DEFINE r == [q EXCEPT !.at = "user", !.sawStatus = kyc[q.user]]
  <2>1. Kyc(q) /\ q \in KycRequest /\ q.op = "decide"
    BY <1>2, <1>8, RequestFields DEF ReadDecided, At, Kyc
  <2>2. kyc[q.user] \in Status \cup {NoRow}
    BY <1>1, <2>1 DEF TypeOK, KycRequest
  <2>3. /\ r \in Request /\ r.op = "decide" /\ r.at = "user" /\ r.user = q.user
        /\ r.decision = q.decision /\ r.sawStatus = kyc[q.user]
    BY <2>1, <2>2 DEF Request, KycRequest
  <2>4. Fine(r) /\ CheckNow(r) /\ r.op # "review"
    BY <1>3, <2>1, <2>3 DEF Fine, KycFine, Kyc, CheckNow
  <2>5. \A v \in Workers : Apart(r, req[v]) /\ Apart(req[v], r)
    BY <2>4 DEF Apart
  <2>6. req' = [req EXCEPT ![w] = r] /\ UNCHANGED <<users, kyc, review, history>>
    BY <1>2, <1>8 DEF ReadDecided, Read
  <2> QED BY <1>1, <1>2, <1>3, <2>1, <2>3, <2>4, <2>5, <2>6 DEF Advance, history
<1>9. ASSUME ReadUser(w) PROVE \E r : Advance(w, r)
  <2> DEFINE r == [q EXCEPT !.at = "write", !.saw = users[q.user]]
  <2>1. Kyc(q) /\ q \in KycRequest /\ q.op = "decide" /\ q.at = "user" /\ q.user \in Users
    BY <1>2, <1>9, RequestFields DEF ReadUser, At, Kyc, KycRequest
  <2>2. users[q.user] \in UserRow
    BY <1>1, <2>1 DEF TypeOK
  <2>3. /\ r \in Request /\ r.op = "decide" /\ r.at = "write" /\ r.user = q.user
        /\ r.decision = q.decision /\ r.sawStatus = q.sawStatus /\ r.saw = users[q.user]
    BY <2>1, <2>2 DEF Request, KycRequest
  <2>4. Fine(r) /\ r.op # "review"
    BY <1>1, <1>3, <2>1, <2>3 DEF Fine, KycFine, Kyc, AllSound
  <2>5. CheckNow(q) => CheckNow(r)
    BY <2>1, <2>3 DEF CheckNow
  <2>6. \A v \in Workers : Apart(r, req[v]) /\ Apart(req[v], r)
    BY <2>4 DEF Apart
  <2>7. req' = [req EXCEPT ![w] = r] /\ UNCHANGED <<users, kyc, review, history>>
    BY <1>2, <1>9 DEF ReadUser, Read
  <2> QED BY <1>1, <1>2, <1>3, <2>1, <2>3, <2>4, <2>5, <2>6, <2>7 DEF Advance, history
<1> QED BY <1>4, <1>5, <1>6, <1>7, <1>8, <1>9

\* Every step is one of these.
LEMMA TrustSteps ==
  ASSUME TrustInv, [Next]_vars
  PROVE  \/ \E w \in Workers : (\E r : Advance(w, r)) \/ Answer(w)
         \/ UNCHANGED vars
<1>1. ASSUME NEW w \in Workers,
             WriteReview(w) \/ WriteSubmission(w) \/ WriteDecision(w) \/ GiveUp(w)
      PROVE  Answer(w)
  <2>1. req[w] # NoRow
    BY <1>1 DEF WriteReview, WriteSubmission, WriteDecision, GiveUp, At, Busy
  <2> QED BY <1>1, <2>1 DEF Answer, TrustInv, TypeOK, Requests, Request
<1> QED BY <1>1, BeginAdvances, ReadAdvances DEF Next

\* Reviews stay, with all that the score depends on, and what is public stays
\* public; so do submissions and approvals.
Grows ==
  /\ \A i \in Written :
       /\ i \in Written' /\ (review[i].is_public => review'[i].is_public)
       /\ review'[i].tenancy = review[i].tenancy
       /\ review'[i].reviewer = review[i].reviewer
       /\ review'[i].reviewee = review[i].reviewee
       /\ review'[i].rating = review[i].rating
  /\ \A u \in Users : /\ kyc[u] # NoRow => kyc'[u] # NoRow
                     /\ approvals[u] \in Nat /\ approvals'[u] \in Nat
                     /\ approvals[u] <= approvals'[u]

\* The write of a review, column by column.
LEMMA ReviewWritten ==
  ASSUME TrustInv, NEW w \in Workers, WriteReview(w), NEW q, q = req[w]
  PROVE  /\ q \in ReviewRequest /\ ReviewFine(q) /\ q.at = "write" /\ q.op = "review"
         /\ q.row.reviewee \in Users /\ Sound(q.row.reviewee, q.saw)
         /\ review'[q.id] \in ReviewRow
         /\ review'[q.id].tenancy = q.row.tenancy
         /\ review'[q.id].reviewer = q.row.reviewer
         /\ review'[q.id].reviewee = q.row.reviewee
         /\ review'[q.id].rating = q.row.rating
         /\ review'[q.id].is_public <=> q.opposite # NoRow
         /\ \A i \in Reviews \ {q.id, q.opposite} : review'[i] = review[i]
         /\ q.opposite # NoRow =>
              /\ q.opposite \in Written \ {q.id}
              /\ review'[q.opposite] = [review[q.opposite] EXCEPT !.is_public = TRUE]
         /\ review' \in [Reviews -> ReviewRow \cup {NoRow}]
         /\ kyc' = kyc
<1>1. q # NoRow /\ q.op = "review" /\ q.at = "write"
  BY DEF WriteReview, At, Busy
<1>2. q \in Request /\ Fine(q) /\ TypeOK
  BY <1>1 DEF TrustInv, TypeOK, Requests, Request
<1>3. q \in ReviewRequest /\ ReviewFine(q)
  BY <1>1, <1>2, RequestFields DEF Fine
<1>4. q.row \in ReviewRow /\ q.id \in Reviews /\ q.row.reviewee \in Users
  BY <1>3 DEF ReviewRequest, ReviewRow
<1>5. review' = Published(q) /\ kyc' = kyc
  BY DEF WriteReview
<1>6. PICK new : new = [q.row EXCEPT !.is_public = (q.opposite # NoRow)]
  OBVIOUS
<1>7. /\ new \in ReviewRow /\ new.tenancy = q.row.tenancy /\ new.reviewer = q.row.reviewer
      /\ new.reviewee = q.row.reviewee /\ new.rating = q.row.rating
      /\ new.is_public <=> q.opposite # NoRow
  BY <1>4, <1>6 DEF ReviewRow
<1>8. review'[q.id] = new
  BY <1>4, <1>5, <1>6 DEF Published
<1>9. \A i \in Reviews \ {q.id, q.opposite} : review'[i] = review[i]
  BY <1>5 DEF Published
<1>10. ASSUME q.opposite # NoRow
       PROVE  /\ q.opposite \in Written \ {q.id}
              /\ review'[q.opposite] = [review[q.opposite] EXCEPT !.is_public = TRUE]
              /\ review'[q.opposite] \in ReviewRow
  <2>1. q.opposite \in Written \ {q.id}
    BY <1>3, <1>10 DEF ReviewFine, By
  <2>2. review'[q.opposite] = [review[q.opposite] EXCEPT !.is_public = TRUE]
    BY <1>5, <2>1 DEF Published, Written
  <2>3. review[q.opposite] \in ReviewRow
    BY <1>2, <2>1 DEF Written, TypeOK
  <2> QED BY <2>1, <2>2, <2>3 DEF ReviewRow
<1>11. \A i \in Reviews : review'[i] \in ReviewRow \cup {NoRow}
  <2> TAKE i \in Reviews
  <2>1. CASE i = q.id
    BY <1>7, <1>8, <2>1
  <2>2. CASE i = q.opposite
    BY <1>10, <2>2, TrustAssumption
  <2>3. CASE i \notin {q.id, q.opposite}
    BY <1>2, <1>9, <2>3 DEF TypeOK
  <2> QED BY <2>1, <2>2, <2>3
<1>12. review' \in [Reviews -> ReviewRow \cup {NoRow}]
  BY <1>5, <1>11 DEF Published
<1> QED
  BY <1>1, <1>3, <1>4, <1>5, <1>7, <1>8, <1>9, <1>10, <1>12 DEF ReviewFine

\* A submission gets the status asked for, or keeps it, and stays.
LEMMA StatusSet ==
  ASSUME TypeOK, NEW q \in KycRequest, SetStatus(q)
  PROVE  /\ kyc' \in [Users -> Status \cup {NoRow}]
         /\ \A u \in Users : kyc[u] # NoRow => kyc'[u] # NoRow
         /\ \A u \in Users \ {q.user} : kyc'[u] = kyc[u]
         /\ kyc'[q.user] = IF q.sawStatus = q.decision THEN kyc[q.user] ELSE q.decision
         /\ q.user \in Users
<1>1. q.user \in Users /\ q.decision \in Status
  BY DEF KycRequest
<1>2. kyc' = [kyc EXCEPT ![q.user] = IF q.sawStatus = q.decision THEN kyc[q.user]
                                                                  ELSE q.decision]
  BY DEF SetStatus
<1> QED BY <1>1, <1>2, TrustAssumption DEF TypeOK

\* What is decided: verified exactly if approved, with a score that an approval
\* raises by up to twenty and any other decision leaves.
LEMMA DecidedRow ==
  ASSUME NEW q, q.saw \in UserRow
  PROVE  /\ Decided(q) \in UserRow
         /\ Decided(q).is_kyc_verified <=> q.decision = "APPROVED"
         /\ Decided(q).trust_score >= q.saw.trust_score
         /\ Decided(q).trust_score <= q.saw.trust_score + 20
         /\ q.decision # "APPROVED" => Decided(q).trust_score = q.saw.trust_score
<1>1. q.saw.trust_score \in Score
  BY DEF UserRow
<1>2. CASE q.decision = "APPROVED"
  <2> DEFINE n == Min({100, q.saw.trust_score + 20})
  <2>1. n \in Score /\ n >= q.saw.trust_score /\ n <= q.saw.trust_score + 20
    <3>1. n = IF q.saw.trust_score + 20 > 100 THEN 100 ELSE q.saw.trust_score + 20
      BY <1>1, ApprovedScore
    <3> HIDE DEF n
    <3> QED BY <1>1, <3>1 DEF Score
  <2>2. Decided(q) = [is_kyc_verified |-> TRUE, trust_score |-> n]
    BY <1>2 DEF Decided
  <2> HIDE DEF n
  <2> QED BY <1>2, <2>1, <2>2 DEF UserRow
<1>3. CASE q.decision # "APPROVED"
  <2>1. Decided(q) = [q.saw EXCEPT !.is_kyc_verified = FALSE]
    BY <1>3 DEF Decided
  <2>2. /\ Decided(q) \in UserRow /\ Decided(q).is_kyc_verified = FALSE
        /\ Decided(q).trust_score = q.saw.trust_score
    BY <2>1 DEF UserRow
  <2> QED BY <1>1, <1>3, <2>2 DEF Score
<1> QED BY <1>2, <1>3

\* An approval is counted when it is committed, and nothing else is.
LEMMA ApprovalsCounted ==
  ASSUME TrustInv, NEW w \in Workers, Answer(w)
  PROVE  /\ approvals' \in [Users -> 0..MaxApprovals]
         /\ \A u \in Users : approvals[u] \in Nat /\ approvals'[u] \in Nat
                           /\ approvals[u] <= approvals'[u]
         /\ WriteDecision(w) /\ req[w].decision = "APPROVED" =>
              approvals'[req[w].user] = approvals[req[w].user] + 1
<1>1. TypeOK /\ MaxApprovals \in Nat
  BY TrustAssumption DEF TrustInv
<1>2. PICK q \in Request : q = req[w]
  BY DEF Answer
<1>3. CASE ~WriteDecision(w)
  <2>1. approvals' = approvals
    BY <1>3 DEF Answer, WriteReview, WriteSubmission, GiveUp
  <2> QED BY <1>1, <1>3, <2>1 DEF TypeOK
<1>4. CASE WriteDecision(w)
  <2>1. q \in KycRequest /\ q.user \in Users
    BY <1>2, <1>4, RequestFields DEF WriteDecision, At, Kyc, KycRequest
  <2>2. CASE q.decision = "APPROVED"
    <3>1. /\ approvals[q.user] < MaxApprovals
          /\ approvals' = [approvals EXCEPT ![q.user] = approvals[q.user] + 1]
      BY <1>2, <1>4, <2>2 DEF WriteDecision
    <3>2. \A u \in Users : approvals'[u] = IF u = q.user THEN approvals[u] + 1 ELSE approvals[u]
      BY <1>1, <2>1, <3>1 DEF TypeOK
    <3>3. \A u \in Users : approvals[u] \in 0..MaxApprovals
      BY <1>1 DEF TypeOK
    <3>4. \A u \in Users : approvals'[u] \in 0..MaxApprovals
      BY <1>1, <3>1, <3>2, <3>3
    <3>5. approvals' \in [Users -> 0..MaxApprovals]
      BY <1>1, <3>1, <3>4 DEF TypeOK
    <3> QED BY <1>1, <1>2, <2>1, <3>2, <3>3, <3>4, <3>5
  <2>3. CASE q.decision # "APPROVED"
    <3>1. approvals' = approvals
      BY <1>2, <1>4, <2>3 DEF WriteDecision
    <3> QED BY <1>1, <1>2, <2>3, <3>1 DEF TypeOK
  <2> QED BY <2>2, <2>3
<1> QED BY <1>3, <1>4

\* Nothing that matters to a score or to the blind window is ever taken back.
LEMMA AnswerGrows ==
  ASSUME TrustInv, NEW w \in Workers, Answer(w)
  PROVE  Grows
<1>1. /\ TypeOK
      /\ \A u \in Users : approvals[u] \in Nat /\ approvals'[u] \in Nat
                        /\ approvals[u] <= approvals'[u]
  BY ApprovalsCounted DEF TrustInv
<1>2. PICK q \in Request : q = req[w]
  BY DEF Answer
<1>3. CASE WriteReview(w)
  <2>1. /\ ReviewFine(q) /\ kyc' = kyc
        /\ \A i \in Reviews \ {q.id, q.opposite} : review'[i] = review[i]
        /\ q.opposite # NoRow =>
             review'[q.opposite] = [review[q.opposite] EXCEPT !.is_public = TRUE]
    BY <1>2, <1>3, ReviewWritten
  <2> SUFFICES ASSUME NEW i \in Written
               PROVE  /\ i \in Written' /\ (review[i].is_public => review'[i].is_public)
                      /\ review'[i].tenancy = review[i].tenancy
                      /\ review'[i].reviewer = review[i].reviewer
                      /\ review'[i].reviewee = review[i].reviewee
                      /\ review'[i].rating = review[i].rating
    BY <1>1, <2>1 DEF Grows
  <2>2. i \in Reviews /\ i # q.id /\ review[i] \in ReviewRow
    BY <1>1, <2>1 DEF ReviewFine, Written, TypeOK
  <2>3. CASE i = q.opposite
    <3>1. review'[i] = [review[i] EXCEPT !.is_public = TRUE]
      BY <2>2, <2>3, <2>1, TrustAssumption
    <3>2. review'[i] \in ReviewRow
      BY <2>2, <3>1 DEF ReviewRow
    <3> QED BY <2>2, <3>1, <3>2, TrustAssumption DEF ReviewRow, Written
  <2>4. CASE i # q.opposite
    <3>1. review'[i] = review[i]
      BY <2>2, <2>4, <2>1
    <3> QED BY <2>2, <3>1, TrustAssumption DEF Written
  <2> QED BY <2>3, <2>4
<1>4. CASE WriteSubmission(w) \/ WriteDecision(w)
  <2>1. q \in KycRequest /\ SetStatus(q) /\ review' = review
    BY <1>2, <1>4, RequestFields DEF WriteSubmission, WriteDecision, At, Kyc
  <2> QED BY <1>1, <2>1, StatusSet DEF Grows, Written
<1>5. CASE GiveUp(w)
  BY <1>1, <1>5 DEF GiveUp, Grows, Written
<1> QED BY <1>3, <1>4, <1>5 DEF Answer

\* So the bounds on the score stay true of what a request has read.
LEMMA RatedGrows ==
  ASSUME Grows, NEW u, NEW S
  PROVE  /\ Rated(u, S) \subseteq Rated(u, S)' /\ IsFiniteSet(Rated(u, S)')
         /\ Cardinality(Rated(u, S)) <= Cardinality(Rated(u, S)')
         /\ Cardinality(Rated(u, S)) \in Nat /\ Cardinality(Rated(u, S)') \in Nat
<1>1. Rated(u, S) \subseteq Rated(u, S)'
  BY DEF Rated, Grows
<1>2. Rated(u, S)' \subseteq Reviews
  BY DEF Rated, Written
<1>3. IsFiniteSet(Rated(u, S)')
  BY <1>2, TrustAssumption, FS_Subset
<1> QED BY <1>1, <1>3, FS_Subset, FS_CardinalityType

\* What explains a score still does when there are more reviews.
LEMMA SoundKept ==
  ASSUME Grows, NEW u \in Users, NEW row, Sound(u, row)
  PROVE  Sound(u, row)'
<1> DEFINE A == Cardinality(Rated(u, {1, 2}))
           B == Cardinality(Rated(u, {1, 2})')
           C == Cardinality(Rated(u, {4, 5}))
           D == Cardinality(Rated(u, {4, 5})')
<1>1. A <= B /\ C <= D /\ A \in Nat /\ B \in Nat /\ C \in Nat /\ D \in Nat
  BY RatedGrows
<1>2. /\ row \in UserRow /\ row.trust_score >= 50 - 4 * A
      /\ row.trust_score <= 50 + 4 * C + 20 * approvals[u]
  BY DEF Sound
<1>3. /\ row.trust_score \in Int /\ approvals[u] \in Nat /\ approvals'[u] \in Nat
      /\ approvals[u] <= approvals'[u]
  BY <1>2 DEF UserRow, Score, Grows
<1> HIDE DEF A, B, C, D
<1>4. /\ row.trust_score >= 50 - 4 * B
      /\ row.trust_score <= 50 + 4 * D + 20 * approvals'[u]
  BY <1>1, <1>2, <1>3
<1> QED BY <1>2, <1>4 DEF Sound, B, D

-----------------------------------------------------------------------------
(* The inductive invariant.                                                *)

\* The new row of the user whose score is written is sound: a lower score comes
\* with a bad review, a higher one with a good review or an approval.
LEMMA AnswerUsers ==
  ASSUME TrustInv, NEW w \in Workers, Answer(w)
  PROVE  users' \in [Users -> UserRow] /\ AllSound'
<1>1. TypeOK /\ AllSound /\ Grows
  BY AnswerGrows DEF TrustInv
<1>2. PICK q \in Request : q = req[w] /\ Fine(q)
  BY DEF Answer
<1>3. \A u \in Users : Sound(u, users[u]) /\ users[u] \in UserRow
  BY <1>1 DEF AllSound, TypeOK
<1>4. ASSUME NEW u \in Users, users'[u] = users[u] PROVE Sound(u, users[u])'
  <2>1. PICK row : row = users[u]
    OBVIOUS
  <2>2. Sound(u, row)'
    BY <1>1, <1>3, <2>1, SoundKept
  <2> QED BY <1>4, <2>1, <2>2 DEF Sound
<1>5. ASSUME users' = users PROVE users' \in [Users -> UserRow] /\ AllSound'
  BY <1>1, <1>4, <1>5 DEF TypeOK, AllSound
\* An UPDATE to the row new of user x, which is sound afterwards.
<1>6. ASSUME NEW x \in Users, NEW saw \in UserRow, NEW new \in UserRow, Sound(x, new)',
             users' = [users EXCEPT ![x] = Updated(x, saw, new)]
      PROVE  users' \in [Users -> UserRow] /\ AllSound'
  <2>1. PICK row : row = Updated(x, saw, new)
    OBVIOUS
  <2>2. /\ row \in UserRow
        /\ row.trust_score = users[x].trust_score \/ row.trust_score = new.trust_score
    BY <1>3, <2>1, UpdatedRow
  <2>3. \A u \in Users : users'[u] = IF u = x THEN row ELSE users[u]
    BY <1>1, <1>6, <2>1 DEF TypeOK
  <2>4. PICK old : old = users[x]
    OBVIOUS
  <2>5. Sound(x, old)'
    BY <1>1, <1>3, <2>4, SoundKept
  <2>6. Sound(x, row)'
    BY <1>6, <2>2, <2>4, <2>5 DEF Sound
  <2>7. ASSUME NEW u \in Users PROVE Sound(u, users[u])'
    <3>1. CASE u # x
      BY <1>4, <2>3, <3>1
    <3>2. CASE u = x
      BY <2>3, <2>6, <3>2 DEF Sound
    <3> QED BY <3>1, <3>2
  <2>8. users' \in [Users -> UserRow]
    BY <1>1, <1>6, <2>1, <2>2 DEF TypeOK
  <2> QED BY <2>7, <2>8 DEF AllSound
<1>7. CASE WriteReview(w)
  <2> DEFINE x == q.row.reviewee
             n == Raised(q.saw.trust_score, Delta(q.row.rating))
             new == [q.saw EXCEPT !.trust_score = n]
  <2>1. /\ q \in ReviewRequest /\ ReviewFine(q) /\ x \in Users /\ Sound(x, q.saw)
        /\ review'[q.id] \in ReviewRow /\ review'[q.id].reviewee = x
        /\ review'[q.id].rating = q.row.rating /\ kyc' = kyc
    BY <1>2, <1>7, ReviewWritten
  <2>2. q.row.rating \in 1..5 /\ q.saw \in UserRow /\ q.id \in Reviews
    BY <2>1 DEF ReviewRequest, ReviewRow, Sound
  <2>3. PICK s, d, k : s = q.saw.trust_score /\ d = Delta(q.row.rating) /\ k = q.row.rating
    OBVIOUS
  <2>4. /\ s \in Score /\ d \in Int /\ d >= -4 /\ d <= 4
        /\ d < 0 => k \in {1, 2}
        /\ d > 0 => k \in {4, 5}
    BY <2>2, <2>3, DeltaOf DEF UserRow
  <2>5. n = IF s + d < 0 THEN 0 ELSE IF s + d > 100 THEN 100 ELSE s + d
    BY <2>3, <2>4, RaisedScore
  <2> HIDE DEF n
  <2>6. n \in Score
    BY <2>4, <2>5 DEF Score
  <2>7. new \in UserRow /\ new.trust_score = n
    BY <2>2, <2>6 DEF UserRow
  <2>8. users' = [users EXCEPT ![x] = Updated(x, q.saw, new)]
    BY <1>2, <1>7 DEF WriteReview, n
  <2>9. Sound(x, new)'
    <3> DEFINE A == Cardinality(Rated(x, {1, 2}))
               B == Cardinality(Rated(x, {1, 2})')
               C == Cardinality(Rated(x, {4, 5}))
               D == Cardinality(Rated(x, {4, 5})')
    <3>1. A <= B /\ C <= D /\ A \in Nat /\ B \in Nat /\ C \in Nat /\ D \in Nat
      BY <1>1, RatedGrows
    <3>2. \A S : k \in S => Rated(x, S) \cup {q.id} \subseteq Rated(x, S)'
                       /\ q.id \notin Rated(x, S)
      <4>1. q.id \in Written' /\ q.id \notin Written
        BY <2>1, <2>2, TrustAssumption DEF Written, ReviewFine
      <4>2. \A S : Rated(x, S) \subseteq Rated(x, S)'
        BY <1>1, RatedGrows
      <4> QED BY <2>1, <2>3, <4>1, <4>2 DEF Rated
    <3>3. ASSUME NEW S, k \in S
          PROVE  Cardinality(Rated(x, S)) + 1 <= Cardinality(Rated(x, S)')
      <4>1. /\ IsFiniteSet(Rated(x, S)') /\ Rated(x, S) \subseteq Rated(x, S)'
            /\ Cardinality(Rated(x, S)) \in Nat /\ Cardinality(Rated(x, S)') \in Nat
        BY <1>1, RatedGrows
      <4>2. IsFiniteSet(Rated(x, S))
        BY <4>1, FS_Subset
      <4>3. Cardinality(Rated(x, S) \cup {q.id}) = Cardinality(Rated(x, S)) + 1
        BY <3>2, <3>3, <4>2, FS_AddElement
      <4>4. Cardinality(Rated(x, S) \cup {q.id}) <= Cardinality(Rated(x, S)')
        BY <3>2, <3>3, <4>1, FS_Subset
      <4> QED BY <4>3, <4>4
    <3>4. (d < 0 => A + 1 <= B) /\ (d > 0 => C + 1 <= D)
      BY <2>4, <3>3
    <3>5. PICK e, f : e = approvals[x] /\ f = approvals'[x]
      OBVIOUS
    <3>6. e \in Nat /\ f \in Nat /\ e <= f
      BY <1>1, <2>1, <3>5 DEF Grows
    <3>7. s >= 50 - 4 * A /\ s <= 50 + 4 * C + 20 * e
      BY <2>1, <2>3, <3>5 DEF Sound
    <3> HIDE DEF A, B, C, D
    <3>8. n >= 50 - 4 * B /\ n <= 50 + 4 * D + 20 * f
      BY <2>4, <2>5, <3>1, <3>4, <3>6, <3>7 DEF Score
    <3> QED BY <2>7, <3>5, <3>8 DEF Sound, B, D
  <2> QED BY <1>6, <2>1, <2>2, <2>7, <2>8, <2>9
<1>8. CASE WriteDecision(w)
  <2>1. q \in KycRequest /\ q.op = "decide" /\ q.at = "write" /\ SetStatus(q)
    BY <1>2, <1>8, RequestFields DEF WriteDecision, At, Kyc
  <2>2. q.user \in Users /\ Sound(q.user, q.saw) /\ kyc[q.user] # NoRow
    BY <1>2, <2>1 DEF Fine, Kyc, KycFine, KycRequest
  <2>3. PICK new : new = Decided(q)
    OBVIOUS
  <2>4. PICK saw : saw = q.saw
    OBVIOUS
  <2>5. /\ saw \in UserRow /\ new \in UserRow /\ new.trust_score >= saw.trust_score
        /\ new.trust_score <= saw.trust_score + 20
        /\ q.decision # "APPROVED" => new.trust_score = saw.trust_score
    BY <2>2, <2>3, <2>4, DecidedRow DEF Sound
  <2>6. PICK e, f : e = approvals[q.user] /\ f = approvals'[q.user]
    OBVIOUS
  <2>7. Sound(q.user, new)'
    <3> DEFINE A == Cardinality(Rated(q.user, {1, 2}))
               B == Cardinality(Rated(q.user, {1, 2})')
               C == Cardinality(Rated(q.user, {4, 5}))
               D == Cardinality(Rated(q.user, {4, 5})')
    <3>1. A <= B /\ C <= D /\ A \in Nat /\ B \in Nat /\ C \in Nat /\ D \in Nat
      BY <1>1, RatedGrows
    <3>2. /\ saw.trust_score >= 50 - 4 * A /\ saw.trust_score <= 50 + 4 * C + 20 * e
          /\ saw.trust_score \in Int /\ new.trust_score \in Int
      BY <2>2, <2>4, <2>5, <2>6 DEF Sound, UserRow, Score
    <3>3. /\ e \in Nat /\ f \in Nat /\ e <= f
          /\ q.decision = "APPROVED" => f = e + 1
      BY <1>2, <1>8, <2>2, <2>6, ApprovalsCounted
    <3> HIDE DEF A, B, C, D
    <3>4. new.trust_score >= 50 - 4 * B /\ new.trust_score <= 50 + 4 * D + 20 * f
      BY <2>5, <3>1, <3>2, <3>3
    <3> QED BY <2>5, <2>6, <3>4 DEF Sound, B, D
  <2>8. users' = [users EXCEPT ![q.user] = Updated(q.user, q.saw, new)]
    BY <1>2, <1>8, <2>3 DEF WriteDecision
  <2> QED BY <1>6, <2>2, <2>4, <2>5, <2>7, <2>8
<1>9. CASE WriteSubmission(w) \/ GiveUp(w)
  BY <1>5, <1>9 DEF WriteSubmission, GiveUp
<1> QED BY <1>7, <1>8, <1>9 DEF Answer

\* What another request relies on stays true.
LEMMA AnswerFine ==
  ASSUME TrustInv, NEW w \in Workers, Answer(w), NEW q \in Request, Fine(q),
         Apart(q, req[w])
  PROVE  Fine(q)'
<1>1. Grows /\ TypeOK
  BY AnswerGrows DEF TrustInv
<1>2. PICK p \in Request : p = req[w]
  BY DEF Answer
<1>3. ASSUME q.op = "review" PROVE ReviewFine(q)'
  <2>1. q \in ReviewRequest /\ ReviewFine(q) /\ q.id \in Reviews /\ q.row.reviewee \in Users
    BY <1>3, RequestFields DEF Fine, ReviewRequest, ReviewRow
  <2>2. review'[q.id] = NoRow
    <3>1. review[q.id] = NoRow
      BY <2>1 DEF ReviewFine, Written
    <3>2. CASE WriteReview(w)
      <4>1. /\ p.op = "review"
            /\ \A i \in Reviews \ {p.id, p.opposite} : review'[i] = review[i]
            /\ p.opposite # NoRow => p.opposite \in Written
        BY <1>2, <3>2, ReviewWritten
      <4>2. q.id # p.id /\ q.id # p.opposite
        BY <1>2, <1>3, <2>1, <3>1, <4>1, TrustAssumption DEF Apart, Written
      <4> QED BY <2>1, <3>1, <4>1, <4>2
    <3>3. CASE ~WriteReview(w)
      BY <3>1, <3>3 DEF Answer, WriteSubmission, WriteDecision, GiveUp
    <3> QED BY <3>2, <3>3
  <2>3. q.opposite # NoRow => q.opposite \in By(q.row.reviewee, q.row.tenancy)'
    BY <1>1, <2>1 DEF ReviewFine, By, Grows
  <2>4. PICK u, saw : u \in Users /\ u = q.row.reviewee /\ saw = q.saw
    BY <2>1
  <2>5. q.at = "write" => Sound(u, saw)'
    BY <1>1, <2>1, <2>4, SoundKept DEF ReviewFine
  <2>6. /\ q.seen \subseteq Written'
        /\ q.at \in {"reviewee", "write"} =>
             \A j \in q.seen : j \in By(q.row.reviewee, q.row.tenancy)' => j = q.opposite
    BY <1>1, <2>1 DEF ReviewFine, By, Grows
  <2> QED BY <2>1, <2>2, <2>3, <2>4, <2>5, <2>6 DEF ReviewFine, Written, Sound, By
<1>4. ASSUME Kyc(q) PROVE KycFine(q)'
  <2>1. q \in KycRequest /\ KycFine(q) /\ q.user \in Users
    BY <1>4, RequestFields DEF Fine, KycRequest
  <2>2. PICK u, saw : u \in Users /\ u = q.user /\ saw = q.saw
    BY <2>1
  <2>3. q.op = "decide" /\ q.at = "write" => Sound(u, saw)'
    BY <1>1, <2>1, <2>2, SoundKept DEF KycFine
  <2> QED BY <1>1, <2>1, <2>2, <2>3 DEF KycFine, Grows, Sound
<1> QED BY <1>3, <1>4 DEF Fine, Kyc

\* An answer is of one worker.
LEMMA AnswerEnds ==
  ASSUME NEW w \in Workers, Answer(w)
  PROVE  req' = [req EXCEPT ![w] = NoRow] /\ alone' = alone \ {w}
BY DEF Answer, WriteReview, WriteSubmission, WriteDecision, GiveUp, End

\* A review becomes public together with an opposite one.
LEMMA AnswerBlind ==
  ASSUME TrustInv, NEW w \in Workers, Answer(w)
  PROVE  BlindUntilAnswered'
<1>1. Grows /\ TypeOK /\ BlindUntilAnswered
  BY AnswerGrows DEF TrustInv
<1> DEFINE Answered(i, u) ==
             \E j \in Written' : /\ review'[j].tenancy = review'[i].tenancy
                                 /\ \/ review'[j].reviewer = u
                                    \/ review'[j].reviewee = review'[i].reviewer
<1> SUFFICES ASSUME NEW u \in Users, NEW i \in Written', review'[i].reviewee = u,
                    review'[i].is_public
             PROVE  Answered(i, u)
  BY DEF BlindUntilAnswered, PublicReviews
<1>2. ASSUME i \in Written, review[i].is_public PROVE Answered(i, u)
  <2>1. i \in PublicReviews(u)
    BY <1>1, <1>2 DEF PublicReviews, Grows
  <2>2. PICK j \in Written : /\ review[j].tenancy = review[i].tenancy
                             /\ \/ review[j].reviewer = u
                                \/ review[j].reviewee = review[i].reviewer
    BY <1>1, <2>1 DEF BlindUntilAnswered
  <2> QED BY <1>1, <1>2, <2>2 DEF Grows
<1>3. CASE WriteReview(w)
  <2>1. PICK q : q = req[w]
    OBVIOUS
  <2>2. /\ q \in ReviewRequest /\ ReviewFine(q) /\ review'[q.id] \in ReviewRow
        /\ review'[q.id].tenancy = q.row.tenancy /\ review'[q.id].reviewee = q.row.reviewee
        /\ review'[q.id].is_public <=> q.opposite # NoRow
        /\ \A x \in Reviews \ {q.id, q.opposite} : review'[x] = review[x]
    BY <1>3, <2>1, ReviewWritten
  <2>3. q.id \in Written'
    BY <2>2, TrustAssumption DEF Written, ReviewRequest
  <2>4. ASSUME q.opposite # NoRow
        PROVE  /\ q.opposite \in Written' /\ review'[q.opposite].tenancy = q.row.tenancy
               /\ review'[q.opposite].reviewer = q.row.reviewee
    BY <1>1, <2>2, <2>4 DEF ReviewFine, By, Grows
  <2>5. CASE i = q.id
    BY <2>2, <2>4, <2>5
  <2>6. CASE i = q.opposite /\ i # q.id
    <3>1. q.opposite # NoRow
      BY <2>6, TrustAssumption DEF Written
    <3> QED BY <2>2, <2>3, <2>4, <2>6, <3>1
  <2>7. CASE i \notin {q.id, q.opposite}
    BY <1>2, <2>2, <2>7 DEF Written
  <2> QED BY <2>5, <2>6, <2>7
<1>4. CASE WriteSubmission(w) \/ WriteDecision(w) \/ GiveUp(w)
  BY <1>2, <1>4 DEF WriteSubmission, WriteDecision, GiveUp, Written
<1> QED BY <1>3, <1>4 DEF Answer

\* A review that was sent in answer is public together with the one it answers.
LEMMA AnswerAnswered ==
  ASSUME TrustInv, NEW w \in Workers, Answer(w)
  PROVE  seen' \in [Reviews -> SUBSET Reviews] /\ SeenWritten' /\ AnsweredArePublic'
<1>1. Grows /\ TypeOK /\ SeenWritten /\ AnsweredArePublic
  BY AnswerGrows DEF TrustInv
<1>2. ASSUME NEW i \in Written, NEW j \in seen[i],
             review'[j].tenancy = review'[i].tenancy, review'[j].reviewer = review'[i].reviewee
      PROVE  review'[i].is_public /\ review'[j].is_public
  <2>1. j \in Written /\ i \in Reviews
    BY <1>1 DEF SeenWritten, Written
  <2>2. review[i].is_public /\ review[j].is_public
    BY <1>1, <1>2, <2>1 DEF AnsweredArePublic, Grows
  <2> QED BY <1>1, <2>1, <2>2 DEF Grows
<1>3. CASE WriteReview(w)
  <2>1. PICK q : q = req[w]
    OBVIOUS
  <2>2. /\ q \in ReviewRequest /\ ReviewFine(q) /\ q.at = "write" /\ review'[q.id] \in ReviewRow
        /\ review'[q.id].tenancy = q.row.tenancy /\ review'[q.id].reviewee = q.row.reviewee
        /\ review'[q.id].is_public <=> q.opposite # NoRow
        /\ \A x \in Reviews \ {q.id, q.opposite} : review'[x] = review[x]
        /\ q.opposite # NoRow =>
             /\ q.opposite \in Written \ {q.id}
             /\ review'[q.opposite] = [review[q.opposite] EXCEPT !.is_public = TRUE]
    BY <1>3, <2>1, ReviewWritten
  <2>3. q.id \in Reviews /\ q.seen \subseteq Written /\ q.id \notin Written
    BY <2>2 DEF ReviewRequest, ReviewFine
  <2>4. seen' = [seen EXCEPT ![q.id] = q.seen]
    BY <1>3, <2>1 DEF WriteReview
  <2>5. \A i \in Reviews : seen'[i] = IF i = q.id THEN q.seen ELSE seen[i]
    BY <1>1, <2>3, <2>4 DEF TypeOK
  <2>6. \A i \in Reviews : seen'[i] \subseteq Written
    BY <1>1, <2>3, <2>5 DEF SeenWritten
  <2>7. seen' \in [Reviews -> SUBSET Reviews]
    BY <1>1, <2>4, <2>6 DEF TypeOK, Written
  <2>8. SeenWritten'
    BY <1>1, <2>6 DEF SeenWritten, Grows
  <2>9. ASSUME NEW i \in Written', NEW j \in seen'[i],
               review'[j].tenancy = review'[i].tenancy, review'[j].reviewer = review'[i].reviewee
        PROVE  review'[i].is_public /\ review'[j].is_public
    <3>1. CASE i = q.id
      <4>1. j \in q.seen /\ j \in Written
        BY <2>3, <2>5, <2>9, <3>1
      <4>2. j \in By(q.row.reviewee, q.row.tenancy)
        BY <1>1, <2>2, <2>9, <3>1, <4>1 DEF By, Grows
      <4>3. j = q.opposite /\ q.opposite # NoRow
        BY <2>2, <4>1, <4>2, TrustAssumption DEF ReviewFine, Written
      <4>4. review[j] \in ReviewRow
        BY <1>1, <4>1 DEF TypeOK, Written
      <4> QED BY <2>2, <3>1, <4>3, <4>4 DEF ReviewRow
    <3>2. CASE i # q.id
      <4>1. i \in Reviews /\ i \in Written
        BY <2>2, <3>2, TrustAssumption DEF Written
      <4> QED BY <1>2, <2>5, <2>9, <3>2, <4>1
    <3> QED BY <3>1, <3>2
  <2> QED BY <2>7, <2>8, <2>9 DEF AnsweredArePublic
<1>4. CASE WriteSubmission(w) \/ WriteDecision(w) \/ GiveUp(w)
  <2>1. review' = review /\ seen' = seen
    BY <1>4 DEF WriteSubmission, WriteDecision, GiveUp
  <2> QED BY <1>1, <2>1 DEF TypeOK, SeenWritten, AnsweredArePublic, Written
<1> QED BY <1>3, <1>4 DEF Answer

\* Every step leaves the requests in progress right about what they have read.
LEMMA NextRequests ==
  ASSUME TrustInv, [Next]_vars
  PROVE  Requests'
<1>1. TypeOK /\ Requests
  BY DEF TrustInv
<1>2. ASSUME NEW w \in Workers, NEW r, Advance(w, r) PROVE Requests'
  <2>1. UNCHANGED <<users, kyc, review, approvals>> /\ Fine(r) /\ r.op \in Allowed[w]
    BY <1>2 DEF Advance
  <2>2. ASSUME NEW q, Fine(q) PROVE Fine(q)'
    BY <2>1, <2>2 DEF Fine, ReviewFine, KycFine, Kyc, Written, By, Sound, Rated
  <2>3. \A v \in Workers : req'[v] = IF v = w THEN r ELSE req[v]
    BY <1>1, <1>2 DEF Advance, TypeOK
  <2>4. ASSUME NEW v \in Workers, req'[v] # NoRow
        PROVE  Fine(req[v])' /\ req'[v].op \in Allowed[v]
    <3>1. PICK q : q = req'[v]
      OBVIOUS
    <3>2. Fine(q)' /\ q.op \in Allowed[v]
      BY <1>1, <2>1, <2>2, <2>3, <2>4, <3>1 DEF Requests
    <3> QED BY <3>1, <3>2 DEF Fine, ReviewFine, KycFine, Kyc, Sound, By, Written
  <2>5. ASSUME NEW v \in Workers, NEW x \in Workers, v # x, req'[v] # NoRow, req'[x] # NoRow
        PROVE  Apart(req'[v], req'[x])
    BY <1>1, <1>2, <2>3, <2>5 DEF Requests, Advance
  <2> QED BY <2>4, <2>5 DEF Requests, Apart
<1>3. ASSUME NEW w \in Workers, Answer(w) PROVE Requests'
  <2>1. \A v \in Workers : req'[v] = IF v = w THEN NoRow ELSE req[v]
    BY <1>1, <1>3, AnswerEnds DEF TypeOK
  <2>2. ASSUME NEW v \in Workers, req'[v] # NoRow
        PROVE  Fine(req[v])' /\ req'[v].op \in Allowed[v]
    <3>1. v # w /\ req[v] # NoRow /\ req[w] # NoRow
      BY <1>3, <2>1, <2>2, RequestFields DEF Answer
    <3>2. PICK q \in Request : q = req[v]
      BY <1>1, <3>1 DEF TypeOK, Request
    <3>3. Fine(q)' /\ q.op \in Allowed[v]
      BY <1>1, <1>3, <3>1, <3>2, AnswerFine DEF Requests
    <3> QED BY <2>1, <3>1, <3>2, <3>3 DEF Fine, ReviewFine, KycFine, Kyc, Sound, By, Written
  <2> QED BY <1>1, <2>1, <2>2 DEF Requests, Apart
<1>4. CASE UNCHANGED vars
  <2>1. UNCHANGED <<users, kyc, review, req, approvals>>
    BY <1>4 DEF vars, history
  <2>2. ASSUME NEW q, Fine(q) PROVE Fine(q)'
    BY <2>1, <2>2 DEF Fine, ReviewFine, KycFine, Kyc, Written, By, Sound, Rated
  <2>3. ASSUME NEW v \in Workers, req[v] # NoRow PROVE Fine(req[v])'
    <3>1. PICK q : q = req[v] /\ Fine(q)
      BY <1>1, <2>3 DEF Requests
    <3>2. Fine(q)' /\ q = req'[v]
      BY <2>1, <2>2, <3>1
    <3> QED BY <3>2 DEF Fine, ReviewFine, KycFine, Kyc, Sound, By, Written
  <2> QED BY <1>1, <2>1, <2>3 DEF Requests, Apart
<1> QED BY <1>2, <1>3, <1>4, TrustSteps

\* Every step keeps the invariant.
LEMMA NextTrustInv == TrustInv /\ [Next]_vars => TrustInv'
<1> SUFFICES ASSUME TrustInv, [Next]_vars PROVE TrustInv'
  OBVIOUS
<1> DEFINE Kept == AllSound' /\ SeenWritten' /\ BlindUntilAnswered' /\ AnsweredArePublic'
<1>1. TypeOK /\ AllSound /\ SeenWritten /\ BlindUntilAnswered /\ AnsweredArePublic
  BY DEF TrustInv
<1>2. ASSUME UNCHANGED <<users, kyc, review, seen, approvals>>
      PROVE  Kept
  <2>1. \A u \in Users : Sound(u, users[u])' <=> Sound(u, users[u])
    BY <1>2 DEF Sound, Rated, Written
  <2>2. BlindUntilAnswered' /\ SeenWritten' /\ AnsweredArePublic'
    BY <1>1, <1>2 DEF Written, BlindUntilAnswered, PublicReviews, SeenWritten, AnsweredArePublic
  <2> QED BY <1>1, <2>1, <2>2 DEF AllSound
<1>3. ASSUME NEW w \in Workers, NEW r, Advance(w, r)
      PROVE  TypeOK' /\ Kept
  <2>1. alone' \subseteq Workers
    BY <1>1, <1>3 DEF Advance, TypeOK
  <2> QED BY <1>1, <1>2, <1>3, <2>1 DEF Advance, TypeOK, Request
<1>4. ASSUME NEW w \in Workers, Answer(w)
      PROVE  TypeOK' /\ Kept
  <2>1. PICK q \in Request : q = req[w]
    BY <1>4 DEF Answer
  <2>2. /\ req' \in [Workers -> ReviewRequest \cup KycRequest \cup {NoRow}]
        /\ alone' \subseteq Workers
    BY <1>1, <1>4, AnswerEnds DEF TypeOK
  <2>3. /\ users' \in [Users -> UserRow] /\ approvals' \in [Users -> 0..MaxApprovals]
        /\ seen' \in [Reviews -> SUBSET Reviews] /\ Kept
    BY <1>4, AnswerUsers, AnswerBlind, AnswerAnswered, ApprovalsCounted
  <2> HIDE DEF Kept
  <2>4. CASE WriteReview(w)
    <3>1. /\ review' \in [Reviews -> ReviewRow \cup {NoRow}] /\ kyc' = kyc
          /\ mixed' = mixed
      BY <2>1, <2>4, ReviewWritten DEF WriteReview
    <3> QED BY <1>1, <2>2, <2>3, <3>1 DEF TypeOK
  <2>5. CASE WriteSubmission(w) \/ WriteDecision(w)
    <3>1. q \in KycRequest /\ SetStatus(q) /\ review' = review
      BY <2>1, <2>5, RequestFields DEF WriteSubmission, WriteDecision, At, Kyc
    <3>2. kyc' \in [Users -> Status \cup {NoRow}] /\ q.user \in Users
      BY <1>1, <3>1, StatusSet
    <3>3. mixed' \subseteq Users
      BY <1>1, <2>1, <2>5, <3>2 DEF WriteSubmission, WriteDecision, TypeOK
    <3> QED BY <1>1, <2>2, <2>3, <3>1, <3>2, <3>3 DEF TypeOK
  <2>6. CASE GiveUp(w)
    BY <1>1, <2>2, <2>3, <2>6 DEF GiveUp, TypeOK
  <2> QED BY <1>4, <2>4, <2>5, <2>6 DEF Answer
<1>5. ASSUME UNCHANGED vars
      PROVE  TypeOK' /\ Kept
  BY <1>1, <1>2, <1>5 DEF vars, history, TypeOK
<1> QED
  BY <1>3, <1>4, <1>5, TrustSteps, NextRequests DEF TrustInv

\* The invariant holds when there are no reviews and no submissions.
LEMMA InitTrustInv == Init => TrustInv
<1> SUFFICES ASSUME Init PROVE TrustInv
  OBVIOUS
<1>1. TypeOK /\ Requests
  BY TrustAssumption DEF Init, TypeOK, UserRow, Score, Requests
<1>2. Written = {}
  BY DEF Init, Written
<1>3. \A u, S : Rated(u, S) = {}
  BY <1>2 DEF Rated
<1>4. AllSound
  <2> SUFFICES ASSUME NEW u \in Users PROVE Sound(u, users[u])
    BY DEF AllSound
  <2>1. users[u] \in UserRow /\ users[u].trust_score = 50 /\ approvals[u] = 0
    BY DEF Init, UserRow, Score
  <2>2. Cardinality(Rated(u, {1, 2})) = 0 /\ Cardinality(Rated(u, {4, 5})) = 0
    BY <1>3, FS_EmptySet
  <2> QED BY <2>1, <2>2 DEF Sound
<1>5. SeenWritten /\ BlindUntilAnswered /\ AnsweredArePublic
  BY <1>2 DEF Init, SeenWritten, BlindUntilAnswered, PublicReviews, AnsweredArePublic
<1> QED BY <1>1, <1>4, <1>5 DEF TrustInv

\* The inductive invariant of Trust.
THEOREM TrustInvariant == Spec => []TrustInv
BY InitTrustInv, NextTrustInv, PTL DEF Spec

\* Every row and request keeps its type: no score leaves 0..100.
THEOREM TypeCorrect == Spec => []TypeOK
BY TrustInvariant, PTL DEF TrustInv

\* Nobody reads a review before there is an opposite one, however many reviews
\* of one tenancy are sent at the same time.
THEOREM BlindWindowHolds == Spec => []BlindUntilAnswered
BY TrustInvariant, PTL DEF TrustInv

\* However many reviews of one tenancy are sent at the same time, one that is sent
\* when the opposite one is there makes both public.
THEOREM AnsweredReviewsArePublic == Spec => []AnsweredArePublic
BY TrustInvariant, PTL DEF TrustInv

\* However requests overlap, no review and no approval moves a score more than
\* once, and nothing else does.
THEOREM ScoresAreExplained == Spec => []ScoreExplained
<1>1. TrustInv => ScoreExplained
  BY DEF TrustInv, AllSound, Sound, ScoreExplained
<1> QED BY <1>1, TrustInvariant, PTL

-----------------------------------------------------------------------------
(* The two badges.                                                         *)

\* A check that has overlapped no other of its user is the only one of its user,
\* and what it has read is still so.
AloneNow ==
  \A w \in alone : /\ req[w] # NoRow /\ Kyc(req[w]) /\ CheckNow(req[w])
                   /\ Checking(req[w].user) = {w}

BadgeInv == AloneNow /\ DecisionRepairsBadges

\* A review leaves every badge.
LEMMA ReviewKeepsBadges ==
  ASSUME TrustInv, NEW w \in Workers, WriteReview(w)
  PROVE  /\ kyc' = kyc
         /\ \A u \in Users : users'[u].is_kyc_verified = users[u].is_kyc_verified
<1>1. TypeOK
  BY DEF TrustInv
<1>2. PICK q : q = req[w]
  OBVIOUS
<1>3. q \in ReviewRequest /\ q.row.reviewee \in Users /\ Sound(q.row.reviewee, q.saw) /\ kyc' = kyc
  BY <1>2, ReviewWritten
<1> DEFINE n == Raised(q.saw.trust_score, Delta(q.row.rating))
<1>4. q.saw \in UserRow /\ q.row.rating \in 1..5
  BY <1>3 DEF Sound, ReviewRequest, ReviewRow
<1>5. n \in Score
  <2>1. PICK s, d : s = q.saw.trust_score /\ d = Delta(q.row.rating)
    OBVIOUS
  <2>2. s \in Score /\ d \in Int
    BY <1>4, <2>1, DeltaOf DEF UserRow
  <2>3. n = IF s + d < 0 THEN 0 ELSE IF s + d > 100 THEN 100 ELSE s + d
    BY <2>1, <2>2, RaisedScore
  <2> HIDE DEF n
  <2> QED BY <2>2, <2>3 DEF Score
<1>6. PICK new : new = [q.saw EXCEPT !.trust_score = n]
  OBVIOUS
<1>7. users' = [users EXCEPT ![q.row.reviewee] = Updated(q.row.reviewee, q.saw, new)]
  BY <1>2, <1>6 DEF WriteReview
<1> HIDE DEF n
<1>8. new \in UserRow /\ new.is_kyc_verified = q.saw.is_kyc_verified
  BY <1>4, <1>5, <1>6 DEF UserRow
<1>9. users[q.row.reviewee] \in UserRow
  BY <1>1, <1>3 DEF TypeOK
<1>10. Updated(q.row.reviewee, q.saw, new).is_kyc_verified = users[q.row.reviewee].is_kyc_verified
  BY <1>3, <1>4, <1>8, <1>9, UpdatedRow
<1> QED BY <1>1, <1>3, <1>7, <1>10 DEF TypeOK

\* An identity check that ends leaves both badges of its user alike, if it has
\* overlapped no other, or its user among the mixed.
LEMMA CheckRepairs ==
  ASSUME TrustInv, BadgeInv, NEW w \in Workers, NEW q \in Request, q = req[w],
         Fine(q), WriteSubmission(w) \/ WriteDecision(w)
  PROVE  DecisionRepairsBadges'
<1>1. TypeOK /\ AllSound /\ AloneNow /\ DecisionRepairsBadges
  BY DEF TrustInv, BadgeInv
<1>2. q \in KycRequest /\ Kyc(q) /\ q.at = "write" /\ SetStatus(q)
  BY RequestFields DEF WriteSubmission, WriteDecision, At, Kyc
<1>3. /\ q.user \in Users
      /\ \A u \in Users \ {q.user} : kyc'[u] = kyc[u]
      /\ kyc'[q.user] = IF q.sawStatus = q.decision THEN kyc[q.user] ELSE q.decision
  BY <1>1, <1>2, StatusSet
<1> DEFINE Agree(u) == users'[u].is_kyc_verified <=> kyc'[u] = "APPROVED"
<1>4. \A u \in Users \ mixed : users[u].is_kyc_verified <=> kyc[u] = "APPROVED"
  BY <1>1 DEF DecisionRepairsBadges, Verified, ListedVerified
<1>5. (\A u \in Users \ mixed' : Agree(u)) => DecisionRepairsBadges'
  BY DEF DecisionRepairsBadges, Verified, ListedVerified
<1>6. w \in alone => CheckNow(q)
  BY <1>1 DEF AloneNow
<1>7. CASE WriteSubmission(w)
  <2>1. /\ q.op \in {"submit", "resubmit"} /\ users' = users
        /\ mixed' = IF w \in alone THEN mixed ELSE mixed \cup {q.user}
    BY <1>7 DEF WriteSubmission, At
  <2>2. q.decision = "PENDING"
    BY <1>2, <2>1 DEF Fine, KycFine
  <2>3. w \in alone => kyc[q.user] # "APPROVED"
    BY <1>2, <1>6, <2>1 DEF CheckNow
  <2> QED BY <1>3, <1>4, <1>5, <2>1, <2>2, <2>3
<1>8. CASE WriteDecision(w)
  <2>1. /\ q.op = "decide"
        /\ mixed' = IF w \in alone THEN mixed \ {q.user} ELSE mixed \cup {q.user}
    BY <1>8 DEF WriteDecision, At
  <2>2. q.saw \in UserRow /\ users[q.user] \in UserRow
    BY <1>1, <1>2, <1>3, <2>1 DEF Fine, KycFine, Sound, TypeOK
  <2>3. PICK new : new = Decided(q)
    OBVIOUS
  <2>4. new \in UserRow /\ (new.is_kyc_verified <=> q.decision = "APPROVED")
    BY <2>2, <2>3, DecidedRow
  <2>5. PICK row : row = Updated(q.user, q.saw, new)
    OBVIOUS
  <2>6. users' = [users EXCEPT ![q.user] = row]
    BY <1>8, <2>3, <2>5 DEF WriteDecision
  <2>7. \A u \in Users : users'[u] = IF u = q.user THEN row ELSE users[u]
    BY <1>1, <2>6 DEF TypeOK
  <2>8. ASSUME w \in alone PROVE Agree(q.user)
    <3>1. /\ kyc'[q.user] = q.decision
          /\ q.saw.is_kyc_verified = users[q.user].is_kyc_verified
      BY <1>2, <1>3, <1>6, <2>1, <2>8 DEF CheckNow
    <3>2. row.is_kyc_verified = new.is_kyc_verified
      BY <1>3, <2>2, <2>4, <2>5, <3>1, UpdatedRow
    <3> QED BY <1>3, <2>4, <2>7, <3>1, <3>2
  <2> QED BY <1>3, <1>4, <1>5, <2>1, <2>7, <2>8
<1> QED BY <1>7, <1>8

\* Every step leaves the badges as the property says.
LEMMA NextBadges ==
  ASSUME TrustInv, BadgeInv, [Next]_vars
  PROVE  BadgeInv'
<1>1. TypeOK /\ Requests /\ AloneNow /\ DecisionRepairsBadges
  BY DEF TrustInv, BadgeInv
<1>2. ASSUME kyc' = kyc, mixed' = mixed,
             \A u \in Users : users'[u].is_kyc_verified = users[u].is_kyc_verified
      PROVE  DecisionRepairsBadges'
  BY <1>1, <1>2 DEF DecisionRepairsBadges, Verified, ListedVerified
<1>3. ASSUME NEW w \in Workers, NEW r, Advance(w, r) PROVE BadgeInv'
  <2>1. /\ UNCHANGED <<users, kyc, mixed>> /\ r \in Request /\ r # NoRow
        /\ \A v \in Workers : req'[v] = IF v = w THEN r ELSE req[v]
    BY <1>1, <1>3, RequestFields DEF Advance, TypeOK
  <2>2. \A u : Checking(u)' = IF r.op # "review" /\ r.user = u THEN Checking(u) \cup {w}
                                                             ELSE Checking(u) \ {w}
    BY <2>1 DEF Checking, Busy
  <2>3. Kyc(r) <=> r.op # "review"
    BY <2>1 DEF Request, ReviewRequest, KycRequest, Kyc
  <2>4. ASSUME NEW v \in alone'
        PROVE  /\ req'[v] # NoRow /\ Kyc(req'[v]) /\ CheckNow(req'[v])
               /\ Checking(req[v].user)' = {v}
    <3>1. CASE req[w] # NoRow
      <4>1. v \in alone /\ v \in Workers
        BY <1>1, <1>3, <2>4, <3>1 DEF Advance, TypeOK
      <4>2. /\ req[v] # NoRow /\ Kyc(req[v]) /\ CheckNow(req[v])
            /\ Checking(req[v].user) = {v}
        BY <1>1, <4>1 DEF AloneNow
      <4>3. CASE v = w
        <5>1. Kyc(r) /\ CheckNow(r) /\ r.user = req[w].user
          BY <1>3, <3>1, <4>2, <4>3 DEF Advance, Kyc
        <5> QED BY <2>1, <2>2, <2>3, <4>1, <4>2, <4>3, <5>1
      <4>4. CASE v # w
        <5>1. req[w].op # "review" => w \in Checking(req[w].user)
          BY <3>1 DEF Checking, Busy
        <5>2. ~(r.op # "review" /\ r.user = req[v].user)
          BY <1>3, <2>3, <3>1, <4>2, <4>4, <5>1 DEF Advance
        <5> QED BY <2>1, <2>2, <4>1, <4>2, <4>4, <5>2
      <4> QED BY <4>3, <4>4
    <3>2. CASE req[w] = NoRow
      <4>1. w \notin alone /\ \A u : w \notin Checking(u)
        BY <1>1, <3>2 DEF AloneNow, Checking, Busy
      <4>2. CASE v = w
        <5>1. Kyc(r) /\ Checking(r.user) = {}
          BY <1>3, <2>4, <3>2, <4>1, <4>2 DEF Advance
        <5>2. CheckNow(r)
          BY <1>3, <3>2, <5>1 DEF Advance
        <5> QED BY <2>1, <2>2, <2>3, <4>2, <5>1, <5>2
      <4>3. CASE v # w
        <5>1. v \in alone /\ v \in Workers /\ (Kyc(r) => v \notin Checking(r.user))
          BY <1>1, <1>3, <2>4, <3>2, <4>3 DEF Advance, TypeOK
        <5>2. /\ req[v] # NoRow /\ Kyc(req[v]) /\ CheckNow(req[v])
              /\ Checking(req[v].user) = {v}
          BY <1>1, <5>1 DEF AloneNow
        <5>3. ~(r.op # "review" /\ r.user = req[v].user)
          BY <2>3, <5>1, <5>2
        <5> QED BY <2>1, <2>2, <4>1, <4>3, <5>1, <5>2, <5>3
      <4> QED BY <4>2, <4>3
    <3> QED BY <3>1, <3>2
  <2>5. AloneNow'
    BY <2>1, <2>4 DEF AloneNow, CheckNow, Kyc
  <2> QED BY <1>2, <2>1, <2>5 DEF BadgeInv
<1>4. ASSUME NEW w \in Workers, Answer(w) PROVE BadgeInv'
  <2>1. /\ \A v \in Workers : req'[v] = IF v = w THEN NoRow ELSE req[v]
        /\ alone' = alone \ {w}
    BY <1>1, <1>4, AnswerEnds DEF TypeOK
  <2>2. PICK q \in Request : q = req[w] /\ Fine(q) /\ q # NoRow
    BY <1>4, RequestFields DEF Answer
  <2>3. \A u : Checking(u)' = Checking(u) \ {w}
    BY <2>1 DEF Checking, Busy
  <2>4. ASSUME NEW v \in alone'
        PROVE  /\ v \in Workers /\ v # w /\ v \in alone /\ req'[v] = req[v]
               /\ Kyc(req[v]) /\ req[v] # NoRow /\ CheckNow(req[v])
               /\ Checking(req[v].user) = {v} /\ Checking(req[v].user)' = {v}
    BY <1>1, <2>1, <2>3, <2>4 DEF AloneNow, TypeOK
  <2>5. CASE WriteReview(w) \/ GiveUp(w)
    <3>1. /\ kyc' = kyc /\ mixed' = mixed
          /\ \A u \in Users : users'[u].is_kyc_verified = users[u].is_kyc_verified
      BY <2>5, ReviewKeepsBadges DEF GiveUp, WriteReview
    <3>2. ASSUME NEW v \in alone' PROVE CheckNow(req[v])'
      <4>1. PICK p \in Request : p = req'[v] /\ p = req[v] /\ Kyc(p) /\ CheckNow(p)
        BY <1>1, <2>4, <3>2 DEF TypeOK, Request
      <4>2. p \in KycRequest /\ p.user \in Users
        BY <4>1, RequestFields DEF KycRequest
      <4> QED BY <3>1, <4>1, <4>2 DEF CheckNow
    <3>3. AloneNow'
      BY <2>4, <3>2 DEF AloneNow, Kyc
    <3> QED BY <1>2, <3>1, <3>3 DEF BadgeInv
  <2>6. CASE WriteSubmission(w) \/ WriteDecision(w)
    <3>1. q \in KycRequest /\ Kyc(q) /\ q.op # "review" /\ SetStatus(q)
      BY <2>2, <2>6, RequestFields DEF WriteSubmission, WriteDecision, At, Kyc
    <3>2. /\ \A u \in Users \ {q.user} : kyc'[u] = kyc[u]
          /\ \A u \in Users \ {q.user} : users'[u] = users[u]
      <4>1. WriteDecision(w) \/ users' = users
        BY <2>6 DEF WriteSubmission
      <4>2. q.user \in Users /\ \A u \in Users \ {q.user} : kyc'[u] = kyc[u]
        BY <1>1, <3>1, StatusSet
      <4>3. WriteDecision(w) =>
              users' = [users EXCEPT ![q.user] = Updated(q.user, q.saw, Decided(q))]
        BY <2>2 DEF WriteDecision
      <4> QED BY <1>1, <4>1, <4>2, <4>3 DEF TypeOK
    <3>3. w \in Checking(q.user)
      BY <2>2, <3>1 DEF Checking, Busy
    <3>4. ASSUME NEW v \in alone' PROVE CheckNow(req[v])'
      <4>1. PICK p \in Request : p = req'[v] /\ p = req[v] /\ Kyc(p) /\ CheckNow(p)
        BY <1>1, <2>4, <3>4 DEF TypeOK, Request
      <4>2. p \in KycRequest /\ p.user \in Users
        BY <4>1, RequestFields DEF KycRequest
      <4>3. p.user # q.user
        BY <2>4, <3>3, <3>4, <4>1
      <4>4. kyc'[p.user] = kyc[p.user] /\ users'[p.user] = users[p.user]
        BY <3>2, <4>2, <4>3
      <4> QED BY <4>1, <4>2, <4>4 DEF CheckNow
    <3>5. AloneNow'
      BY <2>4, <3>4 DEF AloneNow, Kyc
    <3>6. DecisionRepairsBadges'
      BY <2>2, <2>6, CheckRepairs
    <3> QED BY <3>5, <3>6 DEF BadgeInv
  <2> QED BY <1>4, <2>5, <2>6 DEF Answer
<1>5. ASSUME UNCHANGED vars PROVE BadgeInv'
  BY <1>1, <1>5 DEF vars, history, BadgeInv, AloneNow, CheckNow, Kyc, Checking, Busy,
                    DecisionRepairsBadges, Verified, ListedVerified
<1> QED BY <1>3, <1>4, <1>5, TrustSteps

\* However many submissions, decisions and reviews overlap: a user's two badges
\* agree unless checks of the user have overlapped and no decision has been
\* taken since that overlapped none.
THEOREM BadgesAreRepaired == Spec => []DecisionRepairsBadges
<1>1. Init => BadgeInv
  <2> SUFFICES ASSUME Init PROVE BadgeInv
    OBVIOUS
  <2>1. NoRow # "APPROVED"
    BY TrustAssumption DEF Status
  <2> QED
    BY <2>1 DEF Init, BadgeInv, AloneNow, DecisionRepairsBadges, Verified, ListedVerified
<1>2. TrustInv /\ BadgeInv /\ [Next]_vars => BadgeInv'
  BY NextBadges
<1> QED BY <1>1, <1>2, TrustInvariant, PTL DEF Spec, BadgeInv
=============================================================================
