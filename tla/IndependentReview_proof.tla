----------------------- MODULE IndependentReview_proof -----------------------
(* The safety of IndependentReview, for any number of Workers, findings and  *)
(* crashes.                                                                  *)
EXTENDS IndependentReview, TLAPS

-----------------------------------------------------------------------------
(* The inductive invariant.                                                  *)

\* Only a completed Worker is verified, and it stays completed.
VerifiedIsOver == \A w \in Worker : worker[w].verified => worker[w].state = "completed"

\* A finding is raised before it is decided.
RaisedFirst == \A f \in Finding : finding[f].raised = "none" => finding[f].decided = "none"

\* Findings wait for a decision in one state of the Review only.
Decided == commitment.review # "awaiting-adjudication" => Undecided = {}

\* What was upheld in an earlier round has been repaired by the implementation
\* that the Review is bound to, unless the repair is what it waits for.
Carried == commitment.review # "changes-requested" /\ Upheld # {} => Repaired(Upheld)

LeadAccepts ==
    ByTheLead => commitment.verification = "passed" /\ commitment.review = "passed"

RInv == TypeOK /\ VerifiedIsOver /\ RaisedFirst /\ Decided /\ Carried /\ LeadAccepts

-----------------------------------------------------------------------------
(* The steps of each part of the protocol.                                   *)

Implementing ==
    \/ \E w \in Implementer : DelegateEffectful(w) \/ ImplementerEnds(w) \/ VerifyWorker(w)
    \/ ExecuteOperation
Reviewing ==
    \/ \E r \in Reviewer, w \in Implementer : DelegateReview(r, w) \/ DelegateReviewCrash(r, w)
    \/ \E r \in Reviewer : ReviewerReports(r) \/ ReviewerReportsCrash(r) \/ ReviewerFails(r)
    \/ AdjudicateReview
Attending == Resume \/ Cancel \/ OwnerVerdict \/ Restart

LEMMA Parts == Next <=> Implementing \/ Reviewing \/ Attending
BY DEF Next, Implementing, Reviewing, Attending

-----------------------------------------------------------------------------
(* Type correctness.                                                         *)

LEMMA InitTyped == Init => TypeOK
BY CrashesAreBounded DEF Init, TypeOK, Commitments, Findings, Workers, Worker, Raised, Decision

\* The outcome of a Verification is a Commitment.
LEMMA PassedTyped ==
    ASSUME TypeOK, NEW w \in Implementer \cup {None}, Passed(w) \/ NotPassed
    PROVE  commitment' \in Commitments
<1>1. CASE NotPassed
  BY <1>1 DEF NotPassed, TypeOK, Commitments
<1>2. CASE Passed(w)
  <2>1. Verified(w, commitment) \in Commitments
    BY ZenonT(60) DEF Verified, TypeOK, Commitments
  <2> DEFINE c == [Verified(w, commitment) EXCEPT !.verification = "passed"]
  <2>2. c \in Commitments
    BY <2>1 DEF Commitments
  <2>3. commitment' = IF c.review = "passed"
                      THEN [c EXCEPT !.state = "accepted", !.authority = "lead-agent"]
                      ELSE [c EXCEPT !.state = "verifying"]
    BY <1>2 DEF Passed
  <2> HIDE DEF c
  <2> QED BY <2>2, <2>3 DEF Commitments
<1> QED BY <1>1, <1>2

LEMMA ImplementingTyped == TypeOK /\ Implementing => TypeOK'
<1> SUFFICES ASSUME TypeOK, Implementing PROVE TypeOK'
  OBVIOUS
<1>1. ASSUME NEW w \in Implementer, DelegateEffectful(w) PROVE TypeOK'
  <2>1. Repairs \in SUBSET Finding
    BY DEF Repairs, MustFix, Found
  <2>2. worker' \in [Worker -> Workers]
    BY ZenonT(60), <1>1, <2>1 DEF DelegateEffectful, TypeOK, Worker, Workers
  <2> QED BY <1>1, <2>2 DEF DelegateEffectful, TypeOK
<1>2. ASSUME NEW w \in Implementer, ImplementerEnds(w) PROVE TypeOK'
  <2>1. worker' \in [Worker -> Workers]
    BY <1>2 DEF ImplementerEnds, TypeOK, Worker, Workers
  <2> QED BY <1>2, <2>1 DEF ImplementerEnds, TypeOK
<1>3. ASSUME NEW w \in Implementer, VerifyWorker(w) PROVE TypeOK'
  <2>1. commitment' \in Commitments
    BY <1>3, PassedTyped DEF VerifyWorker
  <2>2. worker' \in [Worker -> Workers]
    BY <1>3 DEF VerifyWorker, TypeOK, Worker, Workers
  <2> QED BY <1>3, <2>1, <2>2 DEF VerifyWorker, TypeOK
<1>4. ASSUME ExecuteOperation PROVE TypeOK'
  <2>1. commitment' \in Commitments
    BY <1>4, PassedTyped DEF ExecuteOperation
  <2> QED BY <1>4, <2>1 DEF ExecuteOperation, TypeOK
<1> QED BY <1>1, <1>2, <1>3, <1>4 DEF Implementing

LEMMA RestartedTyped == TypeOK => Restarted \in Commitments
BY DEF Restarted, TypeOK, Commitments

LEMMA ReviewingTyped == TypeOK /\ Reviewing => TypeOK'
<1> SUFFICES ASSUME TypeOK, Reviewing PROVE TypeOK'
  OBVIOUS
<1>0. TypeOK /\ crashes < MaxCrashes => crashes + 1 \in 0 .. MaxCrashes
  BY CrashesAreBounded DEF TypeOK
<1>1. ASSUME NEW r \in Reviewer, NEW w \in Implementer, Reviews(r, w)
      PROVE  worker' \in [Worker -> Workers]
  BY ZenonT(60), <1>1 DEF Reviews, TypeOK, Worker, Workers
<1>2. ASSUME NEW r \in Reviewer, NEW w \in Implementer, DelegateReview(r, w) PROVE TypeOK'
  <2>1. commitment' \in Commitments
    BY <1>2 DEF DelegateReview, TypeOK, Commitments
  <2> QED BY <1>1, <1>2, <2>1 DEF DelegateReview, TypeOK
<1>3. ASSUME NEW r \in Reviewer, NEW w \in Implementer, DelegateReviewCrash(r, w) PROVE TypeOK'
  BY <1>0, <1>1, <1>3, RestartedTyped DEF DelegateReviewCrash, TypeOK
<1>4. ASSUME NEW r \in Reviewer, NEW o \in {"completed", "failed"},
             worker' = [worker EXCEPT ![r].state = o]
      PROVE  worker' \in [Worker -> Workers]
  BY <1>4 DEF TypeOK, Worker, Workers
<1>5. ASSUME NEW r \in Reviewer, ReviewerReports(r) PROVE TypeOK'
  <2>1. worker' \in [Worker -> Workers]
    BY <1>4, <1>5 DEF ReviewerReports
  <2>2. PICK F \in SUBSET (Finding \ Found) : \E raised \in [F -> Raised] :
            IF Attributed(r) THEN Settle(r, raised) ELSE UNCHANGED <<commitment, finding>>
    BY <1>5 DEF ReviewerReports
  <2>3. PICK raised \in [F -> Raised] :
            IF Attributed(r) THEN Settle(r, raised) ELSE UNCHANGED <<commitment, finding>>
    BY <2>2
  <2>4. CASE ~Attributed(r)
    BY <1>5, <2>1, <2>3, <2>4 DEF ReviewerReports, TypeOK
  <2>5. CASE Attributed(r)
    <3>1. Settle(r, raised)
      BY <2>3, <2>5
    <3>2. commitment' \in Commitments
      BY ZenonT(60), <3>1 DEF Settle, TypeOK, Commitments
    <3>3. \A f \in F : raised[f] \in Raised
      BY <2>3
    <3>4. \A f \in Finding : [finding[f] EXCEPT !.raised = raised[f]] =
                             [raised |-> raised[f], decided |-> finding[f].decided]
      BY DEF TypeOK, Findings
    <3>5. finding' \in [Finding -> Findings]
      BY <3>1, <3>3, <3>4, DOMAIN raised = F DEF Settle, TypeOK, Findings
    <3> QED BY <1>5, <2>1, <3>2, <3>5 DEF ReviewerReports, TypeOK
  <2> QED BY <2>4, <2>5
<1>6. ASSUME NEW r \in Reviewer, ReviewerReportsCrash(r) PROVE TypeOK'
  BY <1>0, <1>4, <1>6, RestartedTyped DEF ReviewerReportsCrash, TypeOK
<1>7. ASSUME NEW r \in Reviewer, ReviewerFails(r) PROVE TypeOK'
  BY <1>4, <1>7 DEF ReviewerFails, TypeOK
<1>8. ASSUME AdjudicateReview PROVE TypeOK'
  <2>1. PICK d \in [Undecided -> Decision] :
            /\ finding' = [f \in Finding |-> IF f \in Undecided
                              THEN [finding[f] EXCEPT !.decided = d[f]] ELSE finding[f]]
            /\ commitment' = Adjudicated(d)
    BY <1>8 DEF AdjudicateReview
  <2>2. commitment' \in Commitments
    BY ZenonT(60), <2>1 DEF Adjudicated, TypeOK, Commitments
  <2>3. \A f \in Finding : [finding[f] EXCEPT !.decided = d[f]] =
                           [raised |-> finding[f].raised, decided |-> d[f]]
    BY DEF TypeOK, Findings
  <2>4. \A f \in Undecided : d[f] \in Decision
    BY <2>1
  <2>5. finding' \in [Finding -> Findings]
    BY <2>1, <2>3, <2>4 DEF TypeOK, Findings
  <2> QED BY <1>8, <2>2, <2>5 DEF AdjudicateReview, TypeOK
<1> QED BY <1>2, <1>3, <1>5, <1>6, <1>7, <1>8 DEF Reviewing

LEMMA AttendingTyped == TypeOK /\ Attending => TypeOK'
<1> SUFFICES ASSUME TypeOK, Attending PROVE TypeOK'
  OBVIOUS
<1>1. CASE Resume
  BY <1>1 DEF Resume, TypeOK, Commitments
<1>2. CASE Cancel
  BY <1>2 DEF Cancel, TypeOK, Commitments
<1>3. CASE OwnerVerdict
  BY <1>3 DEF OwnerVerdict, TypeOK, Commitments
<1>4. CASE Restart
  BY <1>4, RestartedTyped, CrashesAreBounded DEF Restart, TypeOK
<1> QED BY <1>1, <1>2, <1>3, <1>4 DEF Attending

LEMMA NextTyped == TypeOK /\ [Next]_vars => TypeOK'
<1>1. TypeOK /\ UNCHANGED vars => TypeOK'
  BY DEF TypeOK, vars
<1> QED BY <1>1, Parts, ImplementingTyped, ReviewingTyped, AttendingTyped

(* Every state of every behaviour is well typed.                             *)
THEOREM TypeCorrect == Spec => []TypeOK
BY InitTyped, NextTyped, PTL DEF Spec

-----------------------------------------------------------------------------
(* The invariant.                                                            *)

LEMMA InitInv == Init => RInv
<1> SUFFICES ASSUME Init PROVE RInv
  OBVIOUS
<1>1. Found = {} /\ MustFix = {} /\ Upheld = {} /\ Undecided = {}
  BY DEF Init, Found, MustFix, Upheld, Undecided
<1> QED BY <1>1, InitTyped
        DEF Init, RInv, VerifiedIsOver, RaisedFirst, Decided, Carried, LeadAccepts, ByTheLead

\* A step that leaves the findings, what a completed Worker was asked for and
\* what the Review says of itself as they are.
LEMMA Quiet ==
    ASSUME RInv, TypeOK', finding' = finding,
           \A w \in Worker : /\ worker[w].state = "completed" => worker'[w] = worker[w]
                             /\ worker'[w].verified = worker[w].verified,
           commitment'.review = commitment.review,
           commitment'.implementation = commitment.implementation,
           LeadAccepts'
    PROVE  RInv'
<1>1. Found' = Found /\ MustFix' = MustFix /\ Upheld' = Upheld /\ Undecided' = Undecided
  BY DEF Found, MustFix, Upheld, Undecided
<1>2. VerifiedIsOver' /\ RaisedFirst' /\ Decided'
  BY <1>1 DEF RInv, VerifiedIsOver, RaisedFirst, Decided
<1>3. ASSUME commitment.implementation # None, worker[commitment.implementation].verified
      PROVE  worker'[commitment.implementation] = worker[commitment.implementation]
  BY <1>3 DEF RInv, TypeOK, Commitments, VerifiedIsOver, Worker
<1>4. Carried'
  BY <1>1, <1>3 DEF RInv, Carried, Repaired
<1> QED BY <1>2, <1>4 DEF RInv

LEMMA QuietWorker ==
    ASSUME RInv, NEW v \in Worker, NEW n, worker[v].state # "completed",
           worker' = [worker EXCEPT ![v] = n], n.verified = worker[v].verified
    PROVE  \A w \in Worker : /\ worker[w].state = "completed" => worker'[w] = worker[w]
                             /\ worker'[w].verified = worker[w].verified
BY DEF RInv, TypeOK

\* A Verification.
LEMMA VerifiedInv ==
    ASSUME RInv, TypeOK', NEW w \in Implementer \cup {None},
           Open, Passed(w) \/ NotPassed, finding' = finding,
           w # None => worker[w].state = "completed",
           worker' = IF w = None THEN worker ELSE [worker EXCEPT ![w].verified = TRUE]
    PROVE  RInv'
<1>1. Found' = Found /\ MustFix' = MustFix /\ Upheld' = Upheld /\ Undecided' = Undecided
  BY DEF Found, MustFix, Upheld, Undecided
<1>2. \A v \in Worker : /\ worker'[v].state = worker[v].state
                        /\ worker'[v].repairs = worker[v].repairs
                        /\ worker[v].verified => worker'[v].verified
                        /\ worker'[v].verified => worker[v].verified \/ v = w
  BY DEF RInv, TypeOK, Worker, Workers
<1>3. VerifiedIsOver' /\ RaisedFirst'
  BY <1>1, <1>2 DEF RInv, VerifiedIsOver, RaisedFirst
<1>4. \A F : Repaired(F) /\ commitment'.implementation = commitment.implementation
                => Repaired(F)'
  BY <1>2 DEF Repaired, RInv, TypeOK, Commitments, Worker
<1>5. CASE NotPassed
  <2>1. /\ commitment'.review = commitment.review
        /\ commitment'.implementation = commitment.implementation
        /\ commitment'.state = "active"
    BY <1>5 DEF NotPassed, RInv, TypeOK, Commitments, Open
  <2> QED BY <1>1, <1>3, <1>4, <2>1
          DEF RInv, Decided, Carried, LeadAccepts, ByTheLead
<1>6. CASE Passed(w) /\ commitment.review = "changes-requested"
  <2>1. /\ commitment'.review = "pending" /\ commitment'.implementation = w
        /\ commitment'.state = "verifying" /\ RepairedBy(w)
    BY <1>6 DEF Passed, Verified, RInv, TypeOK, Commitments
  <2>2. w \in Worker /\ worker'[w].verified
    BY <2>1 DEF RepairedBy, RInv, TypeOK, Worker, Workers
  <2>3. Repaired(Upheld)'
    BY <1>1, <1>2, <2>1, <2>2 DEF Repaired, RepairedBy, Upheld
  <2>4. Carried'
    BY <2>3 DEF Carried
  <2>5. Decided'
    BY <1>1, <1>6 DEF RInv, Decided
  <2>6. LeadAccepts'
    BY <2>1 DEF LeadAccepts, ByTheLead
  <2> QED BY <1>3, <2>4, <2>5, <2>6 DEF RInv
<1>7. CASE Passed(w) /\ commitment.review # "changes-requested"
  <2>1. /\ commitment'.review = commitment.review
        /\ commitment'.implementation = commitment.implementation
        /\ commitment'.verification = "passed"
        /\ commitment'.state = "accepted" => commitment'.review = "passed"
    BY <1>7 DEF Passed, Verified, RInv, TypeOK, Commitments
  <2> QED BY <1>1, <1>3, <1>4, <2>1
          DEF RInv, Decided, Carried, LeadAccepts, ByTheLead
<1> QED BY <1>5, <1>6, <1>7

LEMMA ImplementingInv == RInv /\ Implementing => RInv'
<1> SUFFICES ASSUME RInv, Implementing PROVE RInv'
  OBVIOUS
<1>0. TypeOK'
  BY ImplementingTyped DEF RInv
<1>1. ASSUME NEW w \in Implementer, NEW n, worker[w].state # "completed",
             worker' = [worker EXCEPT ![w] = n], n.verified = worker[w].verified,
             UNCHANGED <<commitment, finding>>
      PROVE  RInv'
  <2>1. w \in Worker
    BY DEF Worker
  <2> QED BY <1>0, <1>1, <2>1, QuietWorker, Quiet DEF RInv, LeadAccepts, ByTheLead
<1>2. ASSUME NEW w \in Implementer, DelegateEffectful(w) PROVE RInv'
  <2>1. worker' = [worker EXCEPT ![w] = [worker[w] EXCEPT !.state = "running", !.repairs = Repairs]]
    BY <1>2 DEF DelegateEffectful, RInv, TypeOK, Worker
  <2>2. [worker[w] EXCEPT !.state = "running", !.repairs = Repairs].verified = worker[w].verified
    BY DEF RInv, TypeOK, Worker, Workers
  <2> QED BY <1>1, <1>2, <2>1, <2>2 DEF DelegateEffectful
<1>3. ASSUME NEW w \in Implementer, ImplementerEnds(w) PROVE RInv'
  <2>1. PICK o \in {"completed", "failed"} : worker' = [worker EXCEPT ![w].state = o]
    BY <1>3 DEF ImplementerEnds
  <2>2. worker' = [worker EXCEPT ![w] = [worker[w] EXCEPT !.state = o]]
    BY <2>1 DEF RInv, TypeOK, Worker
  <2>3. [worker[w] EXCEPT !.state = o].verified = worker[w].verified
    BY DEF RInv, TypeOK, Worker, Workers
  <2> QED BY <1>1, <1>3, <2>2, <2>3 DEF ImplementerEnds
<1>4. ASSUME NEW w \in Implementer, VerifyWorker(w) PROVE RInv'
  BY <1>0, <1>4, VerifiedInv, NobodyIsNone DEF VerifyWorker
<1>5. ASSUME ExecuteOperation PROVE RInv'
  BY <1>0, <1>5, VerifiedInv DEF ExecuteOperation
<1> QED BY <1>2, <1>3, <1>4, <1>5 DEF Implementing

LEMMA AttendingInv == RInv /\ Attending => RInv'
<1> SUFFICES ASSUME RInv, Attending PROVE RInv'
  OBVIOUS
<1>0. TypeOK'
  BY AttendingTyped DEF RInv
<1>1. finding' = finding /\ worker' = worker
  BY DEF Attending, Resume, Cancel, OwnerVerdict, Restart
<1>2. /\ commitment'.review = commitment.review
      /\ commitment'.implementation = commitment.implementation
      /\ commitment'.verification = commitment.verification
      /\ ByTheLead' => ByTheLead
  BY DEF RInv, TypeOK, Commitments, ByTheLead,
         Attending, Resume, Cancel, OwnerVerdict, Restart, Restarted
<1>3. LeadAccepts'
  BY <1>2 DEF RInv, LeadAccepts
<1> QED BY <1>0, <1>1, <1>2, <1>3, Quiet

\* A Review that starts, or a reviewer that ends, with no word on the findings.
LEMMA Restarting ==
    ASSUME TypeOK
    PROVE  /\ Restarted.review = commitment.review
           /\ Restarted.implementation = commitment.implementation
           /\ Restarted.verification = commitment.verification
           /\ Restarted.state = commitment.state
           /\ Restarted.authority = commitment.authority
BY DEF Restarted, TypeOK, Commitments

LEMMA ReviewerIsQuiet ==
    ASSUME RInv, NEW r \in Reviewer, worker[r].state # "completed",
           \/ \E o \in {"completed", "failed"} : worker' = [worker EXCEPT ![r].state = o]
           \/ \E w \in Implementer : Reviews(r, w)
    PROVE  \A v \in Worker : /\ worker[v].state = "completed" => worker'[v] = worker[v]
                             /\ worker'[v].verified = worker[v].verified
BY DEF Reviews, RInv, TypeOK, Worker, Workers


\* The report of the reviewer of the pending Review.
LEMMA SettleInv ==
    ASSUME RInv, TypeOK', NEW r \in Reviewer,
           NEW F \in SUBSET (Finding \ Found), NEW raised \in [F -> Raised], Settle(r, raised),
           worker[r].state = "running", worker' = [worker EXCEPT ![r].state = "completed"]
    PROVE  RInv'
<1> USE DOMAIN raised = F
<1>1. \A w \in Worker : /\ worker[w].state = "completed" => worker'[w] = worker[w]
                        /\ worker'[w].verified = worker[w].verified
  BY ReviewerIsQuiet
<1>2. VerifiedIsOver'
  BY <1>1 DEF RInv, VerifiedIsOver
<1>3. \A f \in Finding : /\ finding'[f].decided = finding[f].decided
                         /\ f \notin F => finding'[f] = finding[f]
                         /\ f \in F => finding[f].raised = "none" /\ finding'[f].raised = raised[f]
                         /\ f \in F => raised[f] # "none"
  BY DEF Settle, RInv, TypeOK, Findings, Found, Raised
<1>4. RaisedFirst'
  BY <1>3 DEF RInv, RaisedFirst
<1>5. Upheld' = Upheld
  BY <1>3 DEF RInv, RaisedFirst, Upheld, MustFix, Found
<1>6. /\ commitment.review = "pending"
      /\ commitment'.implementation = commitment.implementation
      /\ commitment'.verification = commitment.verification
      /\ commitment'.review # "changes-requested"
      /\ commitment'.review # "awaiting-adjudication" => F = {}
      /\ commitment'.state = "accepted" =>
             commitment'.verification = "passed" /\ commitment'.review = "passed"
  BY DEF Settle, Attributed, RInv, TypeOK, Commitments
<1>7. Carried'
  <2>1. ASSUME commitment.implementation # None, worker[commitment.implementation].verified
        PROVE  worker'[commitment.implementation] = worker[commitment.implementation]
    BY <1>1, <2>1 DEF RInv, TypeOK, Commitments, VerifiedIsOver, Worker
  <2> QED BY <1>5, <1>6, <2>1 DEF RInv, Carried, Repaired
<1>8. F = {} => Undecided' = Undecided
  BY <1>3 DEF Undecided, Found
<1>9. Decided'
  BY <1>6, <1>8 DEF RInv, Decided
<1> QED BY <1>2, <1>4, <1>6, <1>7, <1>9 DEF RInv, LeadAccepts, ByTheLead

\* The Lead's decision over every finding that waits for one.
LEMMA AdjudicateInv == RInv /\ TypeOK' /\ AdjudicateReview => RInv'
<1> SUFFICES ASSUME RInv, TypeOK', AdjudicateReview PROVE RInv'
  OBVIOUS
<1>1. PICK d \in [Undecided -> Decision] :
          /\ finding' = [f \in Finding |-> IF f \in Undecided
                            THEN [finding[f] EXCEPT !.decided = d[f]] ELSE finding[f]]
          /\ commitment' = Adjudicated(d)
  BY DEF AdjudicateReview
<1>2. worker' = worker /\ commitment.review = "awaiting-adjudication"
  BY DEF AdjudicateReview
<1>3. \A f \in Finding : /\ finding'[f].raised = finding[f].raised
                         /\ f \notin Undecided => finding'[f] = finding[f]
                         /\ f \in Undecided => finding'[f].decided = d[f] /\ d[f] # "none"
  BY <1>1 DEF RInv, TypeOK, Findings, Decision
<1>4. VerifiedIsOver' /\ RaisedFirst'
  BY <1>2, <1>3 DEF RInv, VerifiedIsOver, RaisedFirst, Undecided, Found
<1>5. Undecided' = {}
  BY <1>3 DEF Undecided, Found
<1>6. commitment'.implementation = commitment.implementation
  BY <1>1 DEF Adjudicated, RInv, TypeOK, Commitments
<1>7. LeadAccepts'
  BY <1>1 DEF Adjudicated, RInv, TypeOK, Commitments, LeadAccepts, ByTheLead
<1>8. Carried'
  <2>1. ASSUME \E f \in DOMAIN d : d[f] = "must-fix" PROVE Carried'
    BY <1>1, <2>1 DEF Adjudicated, RInv, TypeOK, Commitments, Carried
  <2>2. ASSUME ~\E f \in DOMAIN d : d[f] = "must-fix" PROVE Carried'
    <3>1. \A f \in Undecided : d[f] # "must-fix"
      BY <2>2, DOMAIN d = Undecided
    <3>2. Upheld' = Upheld
      BY <1>3, <3>1 DEF Upheld, MustFix, Found, Undecided
    <3> QED BY <1>2, <1>6, <3>2 DEF RInv, Carried, Repaired
  <2> QED BY <2>1, <2>2
<1> QED BY <1>4, <1>5, <1>7, <1>8 DEF RInv, Decided

LEMMA ReviewingInv == RInv /\ Reviewing => RInv'
<1> SUFFICES ASSUME RInv, Reviewing PROVE RInv'
  OBVIOUS
<1>0. TypeOK /\ TypeOK'
  BY ReviewingTyped DEF RInv
<1>1. ASSUME NEW r \in Reviewer, worker[r].state # "completed", finding' = finding,
             \/ \E o \in {"completed", "failed"} : worker' = [worker EXCEPT ![r].state = o]
             \/ \E w \in Implementer : Reviews(r, w),
             commitment' \in {commitment, Restarted}
      PROVE  RInv'
  BY <1>0, <1>1, ReviewerIsQuiet, Restarting, Quiet DEF RInv, LeadAccepts, ByTheLead
<1>2. ASSUME NEW r \in Reviewer, NEW w \in Implementer, DelegateReview(r, w) PROVE RInv'
  <2>1. \A v \in Worker : /\ worker[v].state = "completed" => worker'[v] = worker[v]
                          /\ worker'[v].verified = worker[v].verified
    BY <1>2, ReviewerIsQuiet DEF DelegateReview
  <2>2. /\ finding' = finding /\ commitment.review = "pending"
        /\ commitment.implementation \in {None, w}
        /\ commitment'.review = commitment.review /\ commitment'.implementation = w
        /\ commitment'.verification = commitment.verification
        /\ commitment'.state = commitment.state /\ commitment'.authority = commitment.authority
    BY <1>0, <1>2 DEF DelegateReview, Reviewable, TypeOK, Commitments
  <2>3. Found' = Found /\ MustFix' = MustFix /\ Upheld' = Upheld /\ Undecided' = Undecided
    BY <2>2 DEF Found, MustFix, Upheld, Undecided
  <2>4. VerifiedIsOver' /\ RaisedFirst' /\ Decided' /\ LeadAccepts'
    BY <2>1, <2>2, <2>3 DEF RInv, VerifiedIsOver, RaisedFirst, Decided, LeadAccepts, ByTheLead
  <2>5. worker[w].verified => worker'[w] = worker[w]
    BY <2>1 DEF RInv, VerifiedIsOver, Worker
  <2>6. Carried'
    BY <2>2, <2>3, <2>5 DEF RInv, Carried, Repaired
  <2> QED BY <1>0, <2>4, <2>6 DEF RInv
<1>3. ASSUME NEW r \in Reviewer, NEW w \in Implementer, DelegateReviewCrash(r, w) PROVE RInv'
  BY <1>1, <1>3 DEF DelegateReviewCrash
<1>4. ASSUME NEW r \in Reviewer, ReviewerReports(r) PROVE RInv'
  <2>1. PICK F \in SUBSET (Finding \ Found) : \E raised \in [F -> Raised] :
            IF Attributed(r) THEN Settle(r, raised) ELSE UNCHANGED <<commitment, finding>>
    BY <1>4 DEF ReviewerReports
  <2>2. PICK raised \in [F -> Raised] :
            IF Attributed(r) THEN Settle(r, raised) ELSE UNCHANGED <<commitment, finding>>
    BY <2>1
  <2>3. CASE Attributed(r)
    BY <1>0, <1>4, <2>2, <2>3, SettleInv DEF ReviewerReports
  <2>4. CASE ~Attributed(r)
    BY <1>1, <1>4, <2>2, <2>4 DEF ReviewerReports
  <2> QED BY <2>3, <2>4
<1>5. ASSUME NEW r \in Reviewer, ReviewerReportsCrash(r) PROVE RInv'
  BY <1>1, <1>5 DEF ReviewerReportsCrash
<1>6. ASSUME NEW r \in Reviewer, ReviewerFails(r) PROVE RInv'
  BY <1>1, <1>6 DEF ReviewerFails
<1> QED BY <1>0, <1>2, <1>3, <1>4, <1>5, <1>6, AdjudicateInv DEF Reviewing

LEMMA NextInv == RInv /\ [Next]_vars => RInv'
<1>1. RInv /\ UNCHANGED vars => RInv'
  BY Quiet DEF vars, RInv, TypeOK, VerifiedIsOver, RaisedFirst, Decided, Carried, LeadAccepts,
               ByTheLead, Undecided, Upheld, MustFix, Found, Repaired
<1> QED BY <1>1, Parts, ImplementingInv, ReviewingInv, AttendingInv

LEMMA Invariant == Spec => []RInv
BY InitInv, NextInv, PTL DEF Spec

(* Whatever the order of Verification, Review, adjudication, repair and      *)
(* restart, the Lead accepts on both and with every finding decided.         *)
THEOREM Reviewed == Spec => []AcceptedIsReviewed
<1>1. RInv => AcceptedIsReviewed
  BY DEF RInv, LeadAccepts, Decided, AcceptedIsReviewed
<1> QED BY <1>1, Invariant, PTL

(* An upheld must-fix finding is repaired before the Lead accepts.           *)
THEOREM RepairIsCarried == Spec => []MustFixIsRepaired
<1>1. RInv => MustFixIsRepaired
  BY DEF RInv, LeadAccepts, Carried, MustFixIsRepaired
<1> QED BY <1>1, Invariant, PTL

-----------------------------------------------------------------------------
(* What the Lead has accepted.                                               *)

\* Nothing is asked of a Commitment that the Lead has accepted, and no Review of
\* it is pending or waits for a decision.
LeadIsDone == [][ByTheLead => UNCHANGED <<commitment, finding>>]_vars

LEMMA Rested ==
    ASSUME RInv, ByTheLead
    PROVE  /\ ~Open /\ Terminal /\ Restarted = commitment
           /\ commitment.review \notin {"pending", "awaiting-adjudication"}
BY DEF RInv, LeadAccepts, ByTheLead, Open, Terminal, Restarted

LEMMA StepRests == RInv /\ ByTheLead /\ Next => UNCHANGED <<commitment, finding>>
<1> SUFFICES ASSUME RInv, ByTheLead, Next PROVE UNCHANGED <<commitment, finding>>
  OBVIOUS
<1>1. CASE Implementing
  BY <1>1, Rested DEF Implementing, DelegateEffectful, ImplementerEnds, VerifyWorker,
     ExecuteOperation
<1>2. CASE Attending
  BY <1>2, Rested DEF Attending, Resume, Cancel, OwnerVerdict, Restart
<1>3. ASSUME NEW r \in Reviewer, ReviewerReports(r) PROVE UNCHANGED <<commitment, finding>>
  <2>1. ~Attributed(r)
    BY Rested DEF Attributed
  <2> QED BY <1>3, <2>1 DEF ReviewerReports
<1>4. CASE Reviewing
  BY <1>3, <1>4, Rested DEF Reviewing, DelegateReview, DelegateReviewCrash, Reviewable,
     ReviewerReportsCrash, ReviewerFails, AdjudicateReview
<1> QED BY <1>1, <1>2, <1>4, Parts

(* No later Verification, reviewer, decision, Owner's command or restart     *)
(* touches a Commitment that the Lead has accepted, nor its findings: every  *)
(* one of these operations asks for a state that the acceptance rules out,   *)
(* settleIndependentReview included, which asks for the Review only.  An     *)
(* Owner's verdict does not stand so (OwnerVerdictStands).                   *)
THEOREM AcceptanceIsFinal == Spec => LeadIsDone
<1>1. RInv /\ [Next]_vars => (ByTheLead => UNCHANGED <<commitment, finding>>) \/ UNCHANGED vars
  BY StepRests
<1> QED BY <1>1, Invariant, PTL DEF Spec, LeadIsDone
=============================================================================
