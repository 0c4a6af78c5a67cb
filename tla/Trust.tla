-------------------------------- MODULE Trust --------------------------------
(***************************************************************************)
(* What other users may believe of a user: the identity check (KYC), the   *)
(* reviews that the two parties of a tenancy write of each other, and the  *)
(* trust score that both feed.                                             *)
(*                                                                         *)
(* Requests are transactions, several at a time.  None of them locks what  *)
(* it reads.  The commit inserts, and updates the columns whose value      *)
(* differs from the one read.  A request that is refused, raises or is cut *)
(* off leaves no trace (GiveUp).                                           *)
(*                                                                         *)
(* Four history variables, which only properties and the bound read, say   *)
(* what overlapped what.                                                   *)
(***************************************************************************)
EXTENDS Integers, FiniteSets, FiniteSetsExt

CONSTANTS
  Users, Admins,        \* users, and those with an administrator's role
  Submitters, Decisions, \* the users who hand in documents, the decisions that are made
  Tenancies, Parties,   \* Parties[t]: the tenant and the owner of tenancy t
  Reviews,              \* identifiers of reviews
  Ratings,              \* the ratings that are given
  Workers, Allowed,     \* Allowed[w]: the requests that worker w serves
  MaxApprovals,         \* bound on the approvals of one user
  NoRow                 \* no row, no value or no request

Status    == {"UNVERIFIED", "PENDING", "APPROVED", "REJECTED"}
Score     == 0..100
UserRow   == [trust_score : Score, is_kyc_verified : BOOLEAN]
ReviewRow == [tenancy : Tenancies, reviewer : Users, reviewee : Users,
              rating : 1..5, is_public : BOOLEAN]

\* A request in progress, with what it has read.
ReviewRequest ==
  [op : {"review"}, at : {"dup", "opposite", "reviewee", "write"}, id : Reviews,
   row : ReviewRow, opposite : Reviews \cup {NoRow}, saw : UserRow \cup {NoRow},
   seen : SUBSET Reviews]
KycRequest ==
  [op : {"submit", "resubmit", "decide"}, at : {"kyc", "user", "write"}, user : Users,
   decision : Status, sawStatus : Status \cup {NoRow}, saw : UserRow \cup {NoRow}]

\* Nobody has a tenancy in a property of their own: create_booking_request refuses.
ASSUME TrustAssumption ==
  /\ Admins \subseteq Users /\ Submitters \subseteq Users /\ Ratings \subseteq 1..5
  /\ Decisions \subseteq Status
  /\ Parties \in [Tenancies -> [tenant : Users, owner : Users]]
  /\ \A t \in Tenancies : Parties[t].tenant # Parties[t].owner
  /\ IsFiniteSet(Reviews) /\ MaxApprovals \in Nat
  /\ NoRow \notin Reviews /\ NoRow \notin Status
  /\ NoRow \notin ReviewRow /\ NoRow \notin ReviewRequest /\ NoRow \notin KycRequest

VARIABLES
  users,    \* users[u]: the columns of user u that matter here
  kyc,      \* kyc[u]: the status of u's submission, or NoRow
  review,   \* review[i]: the row of review i, or NoRow
  req,      \* req[w]: the request worker w is serving, or NoRow
  seen,     \* history: seen[i]: the reviews there were when the request for i came in
  approvals, \* history: approvals[u]: how often an approval of u was committed
  alone,    \* history: the workers whose identity check has overlapped no other of its user
  mixed     \* history: the users with overlapping checks, and no undisturbed decision since

history == <<seen, approvals, alone, mixed>>
vars    == <<users, kyc, review, req, history>>

TypeOK ==
  /\ users \in [Users -> UserRow]
  /\ kyc \in [Users -> Status \cup {NoRow}]
  /\ review \in [Reviews -> ReviewRow \cup {NoRow}]
  /\ req \in [Workers -> ReviewRequest \cup KycRequest \cup {NoRow}]
  /\ seen \in [Reviews -> SUBSET Reviews] /\ approvals \in [Users -> 0..MaxApprovals]
  /\ alone \subseteq Workers /\ mixed \subseteq Users

Init ==
  /\ users = [u \in Users |-> [trust_score |-> 50, is_kyc_verified |-> FALSE]]
  /\ kyc = [u \in Users |-> NoRow]
  /\ review = [i \in Reviews |-> NoRow]
  /\ req = [w \in Workers |-> NoRow]
  /\ seen = [i \in Reviews |-> {}] /\ approvals = [u \in Users |-> 0]
  /\ alone = {} /\ mixed = {}

Busy(w)      == req[w] # NoRow
At(w, op, at) == Busy(w) /\ req[w].op = op /\ req[w].at = at
Written      == {i \in Reviews : review[i] # NoRow}
By(u, t)     == {i \in Written : review[i].reviewer = u /\ review[i].tenancy = t}

Begin(w, op, r) == ~Busy(w) /\ op \in Allowed[w] /\ req' = [req EXCEPT ![w] = r]
                            /\ UNCHANGED <<users, kyc, review, seen, approvals, mixed>>
Read(w, r)      == req' = [req EXCEPT ![w] = r] /\ UNCHANGED <<users, kyc, review, history>>
End(w)          == req' = [req EXCEPT ![w] = NoRow] /\ alone' = alone \ {w}

\* A refusal, an exception, or the loss of the connection before the commit.
GiveUp(w) == Busy(w) /\ End(w) /\ UNCHANGED <<users, kyc, review, seen, approvals, mixed>>

-----------------------------------------------------------------------------
(* create_review.                                                          *)

MayReview(u, t) == u \in {Parties[t].tenant, Parties[t].owner} \cup Admins

Reviewee(u, t) == IF u = Parties[t].tenant THEN Parties[t].owner ELSE Parties[t].tenant

BeginReview(w, i, t, u, rating) ==
  /\ MayReview(u, t)
  /\ i \notin Written
  /\ \A x \in Workers : Busy(x) /\ req[x].op = "review" => req[x].id # i
  /\ Begin(w, "review",
           [op |-> "review", at |-> "dup", id |-> i,
            row |-> [tenancy |-> t, reviewer |-> u, reviewee |-> Reviewee(u, t),
                     rating |-> rating, is_public |-> FALSE],
            opposite |-> NoRow, saw |-> NoRow, seen |-> Written])
  /\ UNCHANGED alone

\* Refused (GiveUp) when there is one already.
ReadDuplicate(w) ==
  /\ At(w, "review", "dup")
  /\ By(req[w].row.reviewer, req[w].row.tenancy) = {}
  /\ Read(w, [req[w] EXCEPT !.at = "opposite"])

\* scalar_one_or_none raises (GiveUp) when there are several.
ReadOpposite(w) ==
  /\ At(w, "review", "opposite")
  /\ LET found == By(req[w].row.reviewee, req[w].row.tenancy)
     IN \/ found = {} /\ Read(w, [req[w] EXCEPT !.at = "reviewee"])
        \/ \E i \in found : found = {i} /\ Read(w, [req[w] EXCEPT !.at = "reviewee",
                                                                  !.opposite = i])

ReadReviewee(w) ==
  /\ At(w, "review", "reviewee")
  /\ Read(w, [req[w] EXCEPT !.at = "write", !.saw = users[req[w].row.reviewee]])

\* Mutant: 3 stars are worth two points.
MutDelta(rating) == (rating - 2) * 2

Delta(rating) == (rating - 3) * 2

Raised(score, delta) == Max({0, Min({100, score + delta})})

\* The row of user u after an UPDATE of the columns in which new differs from saw.
Updated(u, saw, new) ==
  [c \in DOMAIN new |-> IF new[c] = saw[c] THEN users[u][c] ELSE new[c]]

\* Mutant: the opposite review stays as it is.
MutPublished(r) == [review EXCEPT ![r.id] = [r.row EXCEPT !.is_public = r.opposite # NoRow]]

\* Mutant: a review is public at once.
MutPublishedAtOnce(r) ==
  [i \in Reviews |-> IF i = r.id THEN [r.row EXCEPT !.is_public = TRUE]
                     ELSE IF i = r.opposite THEN [review[i] EXCEPT !.is_public = TRUE]
                     ELSE review[i]]

\* The reviews after the commit: with an opposite review, both are public.
Published(r) ==
  [i \in Reviews |-> IF i = r.id THEN [r.row EXCEPT !.is_public = r.opposite # NoRow]
                     ELSE IF i = r.opposite THEN [review[i] EXCEPT !.is_public = TRUE]
                     ELSE review[i]]

WriteReview(w) ==
  LET r == req[w]
      u == r.row.reviewee
      score == Raised(r.saw.trust_score, Delta(r.row.rating))
  IN /\ At(w, "review", "write")
     /\ review' = Published(r)
     /\ users' = [users EXCEPT ![u] = Updated(u, r.saw, [r.saw EXCEPT !.trust_score = score])]
     /\ seen' = [seen EXCEPT ![r.id] = r.seen]
     /\ End(w)
     /\ UNCHANGED <<kyc, approvals, mixed>>

-----------------------------------------------------------------------------
(* The identity check: submit_kyc, resubmit_kyc and admin_decision.        *)

\* The workers that serve an identity check of user u.
Checking(u) == {w \in Workers : Busy(w) /\ req[w].op # "review" /\ req[w].user = u}

BeginKyc(w, op, u, decision) ==
  /\ Begin(w, op, [op |-> op, at |-> "kyc", user |-> u, decision |-> decision,
                   sawStatus |-> NoRow, saw |-> NoRow])
  /\ alone' = IF Checking(u) = {} THEN alone \cup {w} ELSE alone \ Checking(u)

BeginSubmit(w, u)    == BeginKyc(w, "submit", u, "PENDING")
BeginResubmit(w, u)  == kyc[u] # NoRow /\ BeginKyc(w, "resubmit", u, "PENDING")
BeginDecide(w, u, d) == kyc[u] # NoRow /\ BeginKyc(w, "decide", u, d)

\* An approved submission is not submitted again.
ReadSubmission(w) ==
  /\ At(w, "submit", "kyc") \/ At(w, "resubmit", "kyc")
  /\ kyc[req[w].user] # "APPROVED"
  /\ Read(w, [req[w] EXCEPT !.at = "write", !.sawStatus = kyc[req[w].user]])

ReadDecided(w) ==
  /\ At(w, "decide", "kyc")
  /\ Read(w, [req[w] EXCEPT !.at = "user", !.sawStatus = kyc[req[w].user]])

ReadUser(w) ==
  /\ At(w, "decide", "user")
  /\ Read(w, [req[w] EXCEPT !.at = "write", !.saw = users[req[w].user]])

\* user_id is unique: an INSERT of a second row fails (GiveUp).
SetStatus(r) ==
  /\ r.sawStatus = NoRow => kyc[r.user] = NoRow
  /\ kyc' = [kyc EXCEPT ![r.user] = IF r.sawStatus = r.decision THEN @ ELSE r.decision]

WriteSubmission(w) ==
  /\ At(w, "submit", "write") \/ At(w, "resubmit", "write")
  /\ SetStatus(req[w]) /\ End(w)
  /\ mixed' = IF w \in alone THEN mixed ELSE mixed \cup {req[w].user}
  /\ UNCHANGED <<users, review, seen, approvals>>

\* Mutant: a rejection leaves the user verified.
MutDecided(r) ==
  IF r.decision = "APPROVED"
  THEN [is_kyc_verified |-> TRUE, trust_score |-> Min({100, r.saw.trust_score + 20})]
  ELSE r.saw

\* Mutant: a rejection takes twenty points away.
MutTakesBack(r) ==
  IF r.decision = "APPROVED"
  THEN [is_kyc_verified |-> TRUE, trust_score |-> Min({100, r.saw.trust_score + 20})]
  ELSE [is_kyc_verified |-> FALSE, trust_score |-> r.saw.trust_score - 20]

\* The user row that a decision asks for.
Decided(r) ==
  IF r.decision = "APPROVED"
  THEN [is_kyc_verified |-> TRUE, trust_score |-> Min({100, r.saw.trust_score + 20})]
  ELSE [r.saw EXCEPT !.is_kyc_verified = FALSE]

WriteDecision(w) ==
  LET r == req[w]
  IN /\ At(w, "decide", "write")
     /\ SetStatus(r)
     /\ users' = [users EXCEPT ![r.user] = Updated(r.user, r.saw, Decided(r))]
     /\ IF r.decision = "APPROVED"
        THEN approvals[r.user] < MaxApprovals /\ approvals' = [approvals EXCEPT ![r.user] = @ + 1]
        ELSE UNCHANGED approvals
     /\ mixed' = IF w \in alone THEN mixed \ {r.user} ELSE mixed \cup {r.user}
     /\ End(w)
     /\ UNCHANGED <<review, seen>>

-----------------------------------------------------------------------------
Next ==
  \E w \in Workers :
    \/ \E i \in Reviews, t \in Tenancies, u \in Users, rating \in Ratings :
         BeginReview(w, i, t, u, rating)
    \/ ReadDuplicate(w) \/ ReadOpposite(w) \/ ReadReviewee(w) \/ WriteReview(w)
    \/ \E u \in Submitters : BeginSubmit(w, u) \/ BeginResubmit(w, u)
    \/ \E u \in Submitters, d \in Decisions : BeginDecide(w, u, d)
    \/ ReadSubmission(w) \/ WriteSubmission(w)
    \/ ReadDecided(w) \/ ReadUser(w) \/ WriteDecision(w)
    \/ GiveUp(w)

Spec == Init /\ [][Next]_vars

-----------------------------------------------------------------------------
(* What other users are shown.                                             *)

PublicReviews(u) == {i \in Written : review[i].reviewee = u /\ review[i].is_public}

\* The badge in a user's trust profile, and the one beside roommate profiles.
Verified       == {u \in Users : users[u].is_kyc_verified}
ListedVerified == {u \in Users : kyc[u] = "APPROVED"}

-----------------------------------------------------------------------------
(* Properties.                                                             *)

\* "It will be published once the reciprocal review is submitted": when both
\* parties of a tenancy have reviewed it, their reviews are public.
BothPublic ==
  \A t \in Tenancies : \A i \in By(Parties[t].tenant, t), j \in By(Parties[t].owner, t) :
    review[i].is_public /\ review[j].is_public

\* The blind window: nobody reads a review before there is an opposite one,
\* by the user it is about, or by somebody who reviewed its author.
BlindUntilAnswered ==
  \A u \in Users : \A i \in PublicReviews(u) :
    \E j \in Written : /\ review[j].tenancy = review[i].tenancy
                       /\ \/ review[j].reviewer = u
                          \/ review[j].reviewee = review[i].reviewer

\* Whatever overlaps, a review sent when the opposite one was there makes both
\* public.  (Two that are sent before either is there stay hidden: BothPublic.)
AnsweredArePublic ==
  \A i \in Written : \A j \in seen[i] :
    /\ review[j].tenancy = review[i].tenancy
    /\ review[j].reviewer = review[i].reviewee
    => review[i].is_public /\ review[j].is_public

\* The two badges, one from the user's row and one from the submission, agree
\* unless checks of the user have overlapped; and whatever overlapping ones left
\* behind, the next decision that overlaps no other check makes them agree again.
DecisionRepairsBadges ==
  \A u \in Users \ mixed : u \in Verified <=> u \in ListedVerified

Rated(u, ratings) ==
  {i \in Written : review[i].reviewee = u /\ review[i].rating \in ratings}

\* Overlapping updates of a score are lost, the bad ones as well as the good, but
\* none counts twice, and nothing else moves a score: it takes a bad review to
\* lose up to four of the first 50 points, and each point above them is owed to a
\* good review, up to four, or to an approval, up to twenty.
ScoreExplained ==
  \A u \in Users :
    /\ users[u].trust_score >= 50 - 4 * Cardinality(Rated(u, {1, 2}))
    /\ users[u].trust_score <= 50 + 4 * Cardinality(Rated(u, {4, 5})) + 20 * approvals[u]
=============================================================================
