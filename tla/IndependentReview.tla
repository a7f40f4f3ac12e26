-------------------------- MODULE IndependentReview --------------------------
(* One Commitment that requires an independent Review: implementing Workers  *)
(* and their Verification, reviewing Workers, the adjudication of what they  *)
(* find, repair and re-review, and the Owner, who may cancel or accept the   *)
(* Commitment at any time (orchestration-core).  Each operation is one       *)
(* synchronous call; the Lead, the Owner and the Workers choose their order. *)
EXTENDS Naturals, FiniteSets

CONSTANTS
    Implementer,   \* effectful Workers of the Commitment
    Reviewer,      \* reviewing Workers
    Finding,
    MaxCrashes,    \* bound
    None

ASSUME NobodyIsNone == None \notin Implementer \cup Reviewer
ASSUME WorkersDiffer == Implementer \cap Reviewer = {}
ASSUME CrashesAreBounded == MaxCrashes \in Nat

VARIABLES
    commitment,    \* the current snapshot
    finding,       \* Finding -> what the Review says of it, and what the Lead does
    worker,        \* Worker -> its session
    crashes        \* bound

vars == <<commitment, finding, worker, crashes>>

Worker   == Implementer \cup Reviewer
Raised   == {"must-fix", "follow-up"}
Decision == {"must-fix", "follow-up", "documented-exception"}

Commitments ==
    [state : {"active", "verifying", "accepted", "cancelled"},
     condition : {"none", "blocked", "reconciling"},
     review : {"pending", "awaiting-adjudication", "changes-requested", "passed"},
     reviewer : Reviewer \cup {None}, implementation : Implementer \cup {None},
     verification : {"none", "passed", "failed"},
     authority : {"none", "lead-agent", "owner"}]

Findings == [raised : Raised \cup {"none"}, decided : Decision \cup {"none"}]

\* of is the implementation that a reviewer reviews, repairs what a repair is
\* asked to repair.
Workers == [state : {"none", "running", "completed", "failed"},
            of : Implementer \cup {None}, repairs : SUBSET Finding, verified : BOOLEAN]

Init ==
    /\ commitment = [state |-> "active", condition |-> "none", review |-> "pending",
                     reviewer |-> None, implementation |-> None, verification |-> "none",
                     authority |-> "none"]
    /\ finding = [f \in Finding |-> [raised |-> "none", decided |-> "none"]]
    /\ worker = [w \in Worker |-> [state |-> "none", of |-> None, repairs |-> {},
                                   verified |-> FALSE]]
    /\ crashes = 0

Terminal == commitment.state \in {"accepted", "cancelled"}
Open     == commitment.state = "active" /\ commitment.condition = "none"
Found    == {f \in Finding : finding[f].raised # "none"}
MustFix  == {f \in Found : finding[f].raised = "must-fix"}
Undecided == {f \in Found : finding[f].decided = "none"}

\* A restart: a Commitment that no Verification waits for must be resumed.
AwaitsVerification ==
    \E w \in Implementer : worker[w].state = "completed" /\ ~worker[w].verified

Restarted == IF Open /\ ~AwaitsVerification
             THEN [commitment EXCEPT !.condition = "reconciling"] ELSE commitment

-----------------------------------------------------------------------------
(* Implementation and Verification.                                          *)

\* What a new implementing Worker is asked to repair.
Repairs == IF commitment.review = "changes-requested" THEN MustFix ELSE {}

DelegateEffectful(w) ==
    /\ worker[w].state = "none" /\ Open
    /\ worker' = [worker EXCEPT ![w].state = "running", ![w].repairs = Repairs]
    /\ UNCHANGED <<commitment, finding, crashes>>

ImplementerEnds(w) ==
    /\ worker[w].state = "running"
    /\ \E outcome \in {"completed", "failed"} :
         worker' = [worker EXCEPT ![w].state = outcome]
    /\ UNCHANGED <<commitment, finding, crashes>>

\* The result of a Target Project operation is the Commitment's Verification.
\* A must-fix Review takes a passed one only of a Worker that has repaired every
\* must-fix finding, and is then pending again, for that Worker.

\* Mutant of RepairedBy: any attributed Worker will do.
RepairedByAny(w) == w # None

RepairedBy(w) == w # None /\ MustFix \subseteq worker[w].repairs

\* Mutant of Verified: the repairing Worker is left as the reviewer.
VerifiedByItself(w, c) ==
    IF c.review = "changes-requested"
    THEN [c EXCEPT !.review = "pending", !.reviewer = w, !.implementation = w] ELSE c

Verified(w, c) ==
    IF c.review = "changes-requested"
    THEN [c EXCEPT !.review = "pending", !.reviewer = None, !.implementation = w] ELSE c

Passed(w) ==
    /\ commitment.review = "changes-requested" => RepairedBy(w)
    /\ LET c == [Verified(w, commitment) EXCEPT !.verification = "passed"] IN
       commitment' = IF c.review = "passed"
                     THEN [c EXCEPT !.state = "accepted", !.authority = "lead-agent"]
                     ELSE [c EXCEPT !.state = "verifying"]

NotPassed ==
    commitment' = [commitment EXCEPT !.verification = "failed", !.condition = "blocked"]

\* The Verification of an implementing Worker, once, whenever the Commitment
\* takes it.
VerifyWorker(w) ==
    /\ worker[w].state = "completed" /\ ~worker[w].verified /\ Open
    /\ Passed(w) \/ NotPassed
    /\ worker' = [worker EXCEPT ![w].verified = TRUE]
    /\ UNCHANGED <<finding, crashes>>

\* The Lead has the declared operation executed, for no Worker.
ExecuteOperation ==
    /\ Open
    /\ Passed(None) \/ NotPassed
    /\ UNCHANGED <<finding, worker, crashes>>

-----------------------------------------------------------------------------
(* Review.                                                                   *)

\* A completed implementation is given to a reviewer, if it is the one that the
\* Review is bound to.  The Worker is durable before the Commitment says so.
Reviewable(w) ==
    /\ worker[w].state = "completed"
    /\ commitment.review = "pending" /\ commitment.implementation \in {None, w}

Reviews(r, w) ==
    worker' = [worker EXCEPT ![r].state = "running", ![r].of = w]

DelegateReview(r, w) ==
    /\ worker[r].state = "none" /\ Reviewable(w)
    /\ Reviews(r, w)
    /\ commitment' = [commitment EXCEPT !.reviewer = r, !.implementation = w]
    /\ UNCHANGED <<finding, crashes>>

DelegateReviewCrash(r, w) ==
    /\ crashes < MaxCrashes
    /\ worker[r].state = "none" /\ Reviewable(w)
    /\ Reviews(r, w)
    /\ crashes' = crashes + 1
    /\ commitment' = Restarted
    /\ UNCHANGED finding

\* settleIndependentReview: the report of the reviewer of the pending Review.
\* No other state of the Commitment is asked for.
Attributed(r) == commitment.review = "pending" /\ commitment.reviewer = r

Settle(r, raised) ==
    /\ Attributed(r)
    /\ finding' = [f \in Finding |->
                     IF f \in DOMAIN raised THEN [finding[f] EXCEPT !.raised = raised[f]]
                     ELSE finding[f]]
    /\ commitment' =
         IF DOMAIN raised # {}
         THEN [commitment EXCEPT !.state = "active", !.condition = "blocked",
                                 !.review = "awaiting-adjudication"]
         ELSE IF commitment.verification = "passed"
         THEN [commitment EXCEPT !.state = "accepted", !.review = "passed",
                                 !.authority = "lead-agent"]
         ELSE [commitment EXCEPT !.state = "active", !.review = "passed"]

\* The terminal of a reviewer that reports valid findings, or none.  The Worker
\* is settled first; a report that is not attributed is thrown away.
ReviewerReports(r) ==
    /\ worker[r].state = "running"
    /\ \E F \in SUBSET (Finding \ Found) : \E raised \in [F -> Raised] :
         IF Attributed(r) THEN Settle(r, raised) ELSE UNCHANGED <<commitment, finding>>
    /\ worker' = [worker EXCEPT ![r].state = "completed"]
    /\ UNCHANGED crashes

\* ... and is lost with the host between the two writes.
ReviewerReportsCrash(r) ==
    /\ crashes < MaxCrashes
    /\ worker[r].state = "running"
    /\ worker' = [worker EXCEPT ![r].state = "completed"]
    /\ crashes' = crashes + 1
    /\ commitment' = Restarted
    /\ UNCHANGED finding

\* No valid report, a blocked or a cancelled one.
ReviewerFails(r) ==
    /\ worker[r].state = "running"
    /\ worker' = [worker EXCEPT ![r].state = "failed"]
    /\ UNCHANGED <<commitment, finding, crashes>>

\* adjudicateReview: the Lead decides every finding that is not decided yet.

\* Mutant of Adjudicated: the Verification is not asked for.
AdjudicatedUnverified(decisions) ==
    IF \E f \in DOMAIN decisions : decisions[f] = "must-fix"
    THEN [commitment EXCEPT !.state = "active", !.condition = "blocked",
                            !.review = "changes-requested"]
    ELSE [commitment EXCEPT !.condition = "none", !.review = "passed",
                            !.state = "accepted", !.authority = "lead-agent"]

Adjudicated(decisions) ==
    IF \E f \in DOMAIN decisions : decisions[f] = "must-fix"
    THEN [commitment EXCEPT !.state = "active", !.condition = "blocked",
                            !.review = "changes-requested"]
    ELSE [commitment EXCEPT !.condition = "none", !.review = "passed",
                            !.state = IF commitment.verification = "passed"
                                      THEN "accepted" ELSE "active",
                            !.authority = IF commitment.verification = "passed"
                                          THEN "lead-agent" ELSE @]

AdjudicateReview ==
    /\ commitment.review = "awaiting-adjudication"
    /\ \E decisions \in [Undecided -> Decision] :
         /\ finding' = [f \in Finding |->
                          IF f \in Undecided THEN [finding[f] EXCEPT !.decided = decisions[f]]
                          ELSE finding[f]]
         /\ commitment' = Adjudicated(decisions)
    /\ UNCHANGED <<worker, crashes>>

-----------------------------------------------------------------------------
(* The Owner and the host.                                                   *)

Resume ==
    /\ ~Terminal /\ commitment.condition # "none"
    /\ commitment' = [commitment EXCEPT
                        !.condition = "none",
                        !.reviewer = IF commitment.review = "changes-requested" THEN None ELSE @]
    /\ UNCHANGED <<finding, worker, crashes>>

Cancel ==
    /\ ~Terminal
    /\ commitment' = [commitment EXCEPT !.state = "cancelled", !.condition = "none"]
    /\ UNCHANGED <<finding, worker, crashes>>

OwnerVerdict ==
    /\ ~Terminal
    /\ commitment' = [commitment EXCEPT !.state = "accepted", !.condition = "none",
                                        !.authority = "owner"]
    /\ UNCHANGED <<finding, worker, crashes>>

Restart ==
    /\ crashes < MaxCrashes
    /\ crashes' = crashes + 1
    /\ commitment' = Restarted
    /\ UNCHANGED <<finding, worker>>

-----------------------------------------------------------------------------
Next ==
    \/ \E w \in Implementer : DelegateEffectful(w) \/ ImplementerEnds(w) \/ VerifyWorker(w)
    \/ ExecuteOperation
    \/ \E r \in Reviewer, w \in Implementer : DelegateReview(r, w) \/ DelegateReviewCrash(r, w)
    \/ \E r \in Reviewer : ReviewerReports(r) \/ ReviewerReportsCrash(r) \/ ReviewerFails(r)
    \/ AdjudicateReview
    \/ Resume \/ Cancel \/ OwnerVerdict \/ Restart

Spec == Init /\ [][Next]_vars

-----------------------------------------------------------------------------
\* The Lead's acceptance, on objective criteria.
ByTheLead == commitment.state = "accepted" /\ commitment.authority = "lead-agent"

\* What the Lead has decided must be fixed, of what the reviewers said must be.
Upheld == {f \in MustFix : finding[f].decided = "must-fix"}

\* The implementation that the Review is bound to has repaired all of F.
Repaired(F) ==
    LET w == commitment.implementation IN
    w # None /\ F \subseteq worker[w].repairs /\ worker[w].verified

(* Every variable keeps its type: a Review is of an implementing Worker and  *)
(* by a reviewing one.                                                       *)
TypeOK ==
    /\ commitment \in Commitments
    /\ finding \in [Finding -> Findings]
    /\ worker \in [Worker -> Workers]
    /\ crashes \in 0 .. MaxCrashes

(* The Lead accepts on a passed Verification and a passed Review, whichever  *)
(* of the two came last, and with no finding left undecided: not even one    *)
(* that a late, a lost or a second reviewer has raised.                      *)
AcceptedIsReviewed ==
    ByTheLead => /\ commitment.verification = "passed" /\ commitment.review = "passed"
                 /\ Undecided = {}

(* A must-fix finding that the Lead has upheld outlives its Review: the      *)
(* Commitment is accepted on a verified implementation that was asked to     *)
(* repair it, through every later round, resumption and restart.             *)
MustFixIsRepaired ==
    ByTheLead /\ Upheld # {} => Repaired(Upheld)

-----------------------------------------------------------------------------
ByTheOwner == commitment.state = "accepted" /\ commitment.authority = "owner"

(* CONTEXT.md, Owner Verdict: "While that commit remains the head, the       *)
(* verdict stands and the Lead Agent does not re-verify the outcome."  A     *)
(* Review reads and changes nothing, so its end leaves the verdict alone.    *)
OwnerVerdictStands == [][ByTheOwner => commitment'.state = "accepted"]_vars
=============================================================================
