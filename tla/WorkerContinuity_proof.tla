------------------------ MODULE WorkerContinuity_proof ------------------------
(* The safety of WorkerContinuity, for any number of generations and deaths  *)
(* of the host, and for any supervisors of other harnesses.                   *)
EXTENDS WorkerContinuity, TLAPS

-----------------------------------------------------------------------------
(* The inductive invariant.                                                   *)

\* The start in flight is that of the current generation; a connection or a
\* promise is of a generation that was started by this host.
Shape ==
    /\ gen = 0 => work = "none"
    /\ startup # "none" => gen # 0 /\ gen \notin live
    /\ startup = "launch" => work = "starting"
    /\ \A g \in live : g <= gen
    /\ \A p \in pending : p.gen \in live /\ (p.kind = "complete" => p.status # "none")
    /\ execution # 0 => execution = gen /\ gen \in live

\* What a host that has not begun to recover remembers.
HostStates ==
    /\ host = "down" => live = {} /\ startup = "none"
    /\ host # "recovering" => sups = <<>> /\ visit = NoVisit
    /\ visit # NoVisit => sups # <<>> /\ gen # 0

OwnToCome == \E i \in 1..Len(sups) : sups[i] = "own"

\* Until the supervisor of the Worker has recovered, nothing of the Worker moves.
OwnRecovers ==
    /\ \A i, j \in 1..Len(sups) : sups[i] = "own" /\ sups[j] = "own" => i = j
    /\ OwnToCome => live = {} /\ startup = "none"
    /\ OwnToCome /\ visit # NoVisit => visit.gen = gen

\* Every generation before the current one is gone, or nobody can tell.
Predecessors ==
    /\ \A g \in Gen : g > gen => process[g] = "none"
    /\ \A g \in Gen : g < gen /\ process[g] = "alive" => g \in survived \/ g \notin recorded

Given(q) == question[q] \in {"answered", "delivered"}

\* What the start in flight will tell the generation it starts.
Carrying ==
    /\ startup \in {"spawned", "starting"} =>
           \A q \in Gen \ late : Given(q) => q \in retained \/ carried[q] = gen
    /\ AnswersAreCarried

IInv == TypeOK /\ Shape /\ HostStates /\ OwnRecovers /\ Predecessors /\ Carrying

-----------------------------------------------------------------------------
(* Type correctness.                                                         *)

LEMMA Constants ==
    /\ Generations \in Nat /\ Generations > 0
    /\ Orders \subseteq Seq({"own", "other"})
    /\ \A order \in Orders : \A i, j \in 1..Len(order) :
           order[i] = "own" /\ order[j] = "own" => i = j
BY ContinuityAssumption

LEMMA CrashBound == MaxCrashes \in Nat
BY ContinuityAssumption

LEMMA GenFacts == \A g \in Gen : g \in 1..Generations /\ g \in Nat /\ g # 0
BY Constants DEF Gen

LEMMA GenType == TypeOK => gen \in Nat /\ (gen # 0 => gen \in Gen) /\ gen <= Generations
BY Constants DEF TypeOK, Gen

\* What recoverWorker may do, whoever calls it.
LEMMA Recovered ==
    ASSUME TypeOK, gen # 0, NEW proven \in BOOLEAN,
           NEW from \in Origins, RecoverWorker(proven, from)
    PROVE  /\ \/ gen' = gen /\ startup' = "none" /\ work' # "starting"
              \/ gen' = gen + 1 /\ startup' = "launch" /\ work' = "starting"
           /\ work' \in {"cancelled", "cancellation-requested", "blocked", "starting"}
           /\ work' \in WorkStates
           /\ gen' \in 0..Generations
           /\ attempt' \in [Gen -> AttemptStates]
           /\ question' \in [Gen -> QuestionStates]
           /\ origin' \in Origins
           /\ retained' = {} /\ UNCHANGED <<recorded, carried>>
           /\ \A q \in Gen : question'[q] \in {question[q], "cancelled"}
<1>0. /\ {"cancelled", "continuity-lost", "blocked", "launch-intent-recorded"} \subseteq AttemptStates
      /\ "cancelled" \in QuestionStates /\ "none" \in Origins
      /\ {"cancelled", "cancellation-requested", "blocked", "starting"} \subseteq WorkStates
  BY DEF AttemptStates, WorkStates, Terminal, QuestionStates, Origins
<1>1. gen \in Nat /\ gen \in Gen /\ Generations \in Nat
  BY Constants, GenType
<1>2. CASE AfterLoss = "cancellation-requested" /\ proven
  BY <1>1, <1>2, <1>0 DEF RecoverWorker, SettleRows, AfterLoss, TypeOK
<1>3. CASE AfterLoss = "cancellation-requested" /\ ~proven
  BY <1>1, <1>3, <1>0 DEF RecoverWorker, AfterLoss, TypeOK
<1>4. CASE AfterLoss = "reconciling" /\ Exhausted
  BY <1>1, <1>4, <1>0 DEF RecoverWorker, TypeOK
<1>5. CASE AfterLoss = "reconciling" /\ ~Exhausted
  <2>1. gen + 1 \in 0..Generations
    BY <1>1, <1>5 DEF Exhausted
  <2> QED BY <1>1, <1>5, <2>1, <1>0 DEF RecoverWorker, TypeOK
<1> QED BY <1>2, <1>3, <1>4, <1>5 DEF AfterLoss, RecoverWorker

LEMMA EndedTyped ==
    ASSUME TypeOK, NEW g \in Gen, NEW proven \in BOOLEAN, Ended(g, proven)
    PROVE  /\ process' \in [Gen -> {"none", "alive", "gone"}] /\ survived' \subseteq Gen
           /\ \A h \in Gen : process'[h] = process[h] \/ (process'[h] = "gone" /\ process[h] = "alive" /\ h = g)
           /\ survived \subseteq survived'
           /\ process'[g] = "alive" => g \in survived'
BY DEF Ended, TypeOK

LEMMA Settled ==
    ASSUME TypeOK, NEW g \in Gen, NEW result \in Terminal, SettleRows(g, result)
    PROVE  /\ attempt' \in [Gen -> AttemptStates]
           /\ question' \in [Gen -> QuestionStates]
           /\ work' = result /\ work' \in WorkStates
           /\ \A q \in Gen : question'[q] \in {question[q], "cancelled"}
BY DEF SettleRows, TypeOK, WorkStates, AttemptStates, QuestionStates

LEMMA OutcomeTyped ==
    ASSUME NEW status \in {"completed", "failed", "interrupted"} PROVE Outcome(status) \in Terminal
BY DEF Outcome, Terminal

LEMMA DiesTyped ==
    ASSUME TypeOK, HostDies
    PROVE  /\ startup' = "none" /\ origin' = "none" /\ retained' = {}
           /\ execution' = 0 /\ live' = {} /\ reported' = {} /\ terminating' = {} /\ pending' = {}
           /\ host' = "down" /\ sups' = <<>> /\ visit' = NoVisit
           /\ sups' \in Seq({"own", "other"}) /\ available' \in BOOLEAN
           /\ execution' \in 0..Generations
           /\ visit' \in Visits /\ origin' \in Origins
BY Constants DEF HostDies, NoVisit, Visits, Origins, TypeOK

LEMMA PromiseTyped ==
    TypeOK => \A p \in pending :
        /\ p.kind \in {"complete", "fail", "deliver", "interrupt", "cut"}
        /\ p.gen \in Gen /\ p.status \in {"none", "completed", "failed", "interrupted"}
BY DEF TypeOK, Promises

LEMMA AwaitTyped ==
    \A g \in Gen : \A kind \in {"complete", "fail", "deliver", "interrupt", "cut"} :
        /\ Await(kind, g) \in Promises
        /\ Await(kind, g).gen = g
BY DEF Await, Promises

LEMMA ReportTyped ==
    \A g \in Gen : \A status \in {"completed", "interrupted"} :
        /\ Report("complete", g, status) \in
                              Promises
        /\ Report("complete", g, status).gen = g
BY DEF Report, Promises

LEMMA InitTyped == Init => TypeOK
<1> SUFFICES ASSUME Init PROVE TypeOK
  OBVIOUS
<1>1. crashes \in 0..MaxCrashes
  BY CrashBound DEF Init
<1>2. gen \in 0..Generations /\ execution \in 0..Generations
      /\ visit \in Visits
      /\ carried \in [Gen -> 0..Generations]
  BY Constants DEF Init, NoVisit, Visits
<1>3. sups \in Seq({"own", "other"})
  BY DEF Init
<1>4. pending = {} /\ survived = {} /\ late = {} /\ live = {} /\ retained = {}
      /\ reported = {} /\ terminating = {} /\ recorded = {}
  BY DEF Init
<1>5. work \in WorkStates /\ attempt \in [Gen -> AttemptStates]
      /\ question \in [Gen -> QuestionStates] /\ origin \in Origins
  BY DEF Init, WorkStates, AttemptStates, QuestionStates, Origins
<1> QED BY <1>1, <1>2, <1>3, <1>4, <1>5 DEF Init, TypeOK

LEMMA StartupTyped == ASSUME TypeOK, Shape, Startup PROVE TypeOK'
<1>1. ASSUME Launch PROVE TypeOK'
  <2>1. attempt' \in [Gen -> AttemptStates]
    BY <1>1 DEF Launch, TypeOK, AttemptStates
  <2>2. process' \in [Gen -> {"none", "alive", "gone"}]
    BY <1>1 DEF Launch, TypeOK
  <2>3. retained' \subseteq Gen /\ late' \subseteq Gen
    BY <1>1 DEF Launch, Retained
  <2> QED BY <1>1, <2>1, <2>2, <2>3 DEF Launch, TypeOK, native, service
<1>2. ASSUME RecordProcess PROVE TypeOK'
  <2>1. recorded' \subseteq Gen
    BY <1>2, GenType DEF RecordProcess, Shape, TypeOK
  <2>2. attempt' \in [Gen -> AttemptStates]
    BY <1>2 DEF RecordProcess, TypeOK, AttemptStates
  <2> QED BY <1>2, <2>1, <2>2 DEF RecordProcess, TypeOK, native, service, world
<1>3. ASSUME StartAttempt PROVE TypeOK'
  <2>1. gen \in Gen
    BY <1>3, GenType DEF StartAttempt, Shape
  <2>2. attempt' \in [Gen -> AttemptStates]
    BY <1>3 DEF StartAttempt, TypeOK, AttemptStates
  <2>3. /\ question' \in [Gen -> QuestionStates]
        /\ carried' \in [Gen -> 0..Generations]
    BY <1>3, <2>1 DEF StartAttempt, TypeOK, QuestionStates
  <2>4. execution' \in 0..Generations /\ live' \subseteq Gen
    BY <1>3, <2>1 DEF StartAttempt, TypeOK
  <2>5. work' \in WorkStates /\ origin' \in Origins
    BY <1>3 DEF StartAttempt, WorkStates, Origins
  <2> QED BY <1>3, <2>2, <2>3, <2>4, <2>5 DEF StartAttempt, TypeOK, service, world
<1>4. ASSUME FailStart PROVE TypeOK'
  BY <1>4 DEF FailStart, TypeOK, rows, native, service, world
<1>5. ASSUME NEW proven \in BOOLEAN, Abandoned(proven) PROVE TypeOK'
  <2>1. gen \in Gen /\ gen # 0
    BY <1>5, GenType DEF Abandoned, Shape
  <2>2. RecoverWorker(proven, origin) /\ Ended(gen, proven)
        /\ UNCHANGED <<native, service, late>>
    BY <1>5 DEF Abandoned
  <2>3. origin \in Origins
    BY DEF TypeOK
  <2> QED BY <2>1, <2>2, <2>3, Recovered, EndedTyped DEF TypeOK, native, service
<1>6. ASSUME FailLaunch PROVE TypeOK'
  <2>1. gen \in Gen
    BY <1>6, GenType DEF FailLaunch, Shape
  <2>2. "failed" \in Terminal /\ "none" \in Origins
    BY DEF Terminal, Origins
  <2>3. SettleRows(gen, "failed") /\ UNCHANGED <<gen, recorded, carried, world, crashes>>
    BY <1>6 DEF FailLaunch, service
  <2>4. CASE origin = "delegate"
    BY <1>6, <2>1, <2>2, <2>3, <2>4, Settled DEF FailLaunch, TypeOK, native, service, world
  <2>5. CASE origin # "delegate"
    <3>1. HostDies
      BY <1>6, <2>5 DEF FailLaunch
    <3> QED BY <2>1, <2>2, <2>3, <3>1, Settled, DiesTyped DEF TypeOK, world
  <2> QED BY <2>4, <2>5
<1> QED BY <1>1, <1>2, <1>3, <1>4, <1>5, <1>6 DEF Startup

LEMMA NativeTyped == ASSUME TypeOK, Native PROVE TypeOK'
<1>1. ASSUME NEW g \in Gen, ProcessExits(g) PROVE TypeOK'
  BY <1>1 DEF ProcessExits, TypeOK, rows, starting, native, service
<1>2. ASSUME NEW g \in Gen, LoseConnection(g) PROVE TypeOK'
  <2>1. Await("fail", g) \in Promises
    BY AwaitTyped
  <2> QED BY <1>2, <2>1 DEF LoseConnection, TypeOK, rows, starting, service, world
<1>3. ASSUME NEW g \in Gen, Ask(g) PROVE TypeOK'
  BY <1>3 DEF Ask, TypeOK, WorkStates, QuestionStates, starting, native, service, world
<1>4. ASSUME NEW g \in Gen, NEW status \in {"completed", "interrupted"}, EndTurn(g, status) PROVE TypeOK'
  <2>1. Report("complete", g, status) \in
                             Promises
    BY ReportTyped
  <2> QED BY <1>4, <2>1 DEF EndTurn, TypeOK, rows, starting, service, world
<1> QED BY <1>1, <1>2, <1>3, <1>4 DEF Native

LEMMA OwnerTyped == ASSUME TypeOK, Shape, Owner PROVE TypeOK'
<1>1. ASSUME Delegate PROVE TypeOK'
  <2>1. gen' \in 0..Generations
    BY <1>1, Constants DEF Delegate
  <2>2. work' \in WorkStates /\ attempt' \in [Gen -> AttemptStates] /\ origin' \in Origins
    BY <1>1 DEF Delegate, WorkStates, AttemptStates, Origins, TypeOK
  <2> QED BY <1>1, <2>1, <2>2 DEF Delegate, TypeOK, native, service, world
<1>2. ASSUME Cancel PROVE TypeOK'
  <2>1. execution # 0 => execution \in Gen
    BY Constants DEF TypeOK, Gen
  <2>2. pending' \subseteq Promises
    BY <1>2, <2>1, AwaitTyped DEF Cancel, TypeOK
  <2>3. work' \in WorkStates
    BY <1>2 DEF Cancel, WorkStates
  <2> QED BY <1>2, <2>2, <2>3 DEF Cancel, TypeOK, starting, service, world
<1>3. ASSUME NEW q \in Gen, Answer(q) PROVE TypeOK'
  <2>2. pending' \subseteq Promises
    BY <1>3, AwaitTyped DEF Answer, TypeOK
  <2>3. question' \in [Gen -> QuestionStates] /\ late' \subseteq Gen
    BY <1>3 DEF Answer, QuestionStates, TypeOK
  <2> QED BY <1>3, <2>2, <2>3 DEF Answer, TypeOK, starting, service
<1> QED BY <1>1, <1>2, <1>3 DEF Owner

LEMMA PromiseKept ==
    ASSUME TypeOK, Shape, NEW p \in pending, Promise(p) PROVE TypeOK'
<1>0. p.gen \in Gen /\ p.gen \in live /\ p.gen # 0 /\ gen # 0 /\ gen \in Gen
  <2>1. p.gen \in Gen /\ p.gen \in live /\ p.gen <= gen
    BY PromiseTyped DEF Shape
  <2> QED BY <2>1, GenFacts, GenType
<1>00. pending \subseteq Promises
  BY DEF TypeOK
<1>1. ASSUME NEW proven \in BOOLEAN, CompletedEnds(p, proven) PROVE TypeOK'
  <2>1. Ended(p.gen, proven) /\ UNCHANGED <<starting, live, reported, terminating, service, late>>
    BY <1>1 DEF CompletedEnds
  <2>2. CASE Refused(p, proven)
    <3>1. pending' \subseteq Promises
      BY <1>0, <1>00, <1>1, <2>2, AwaitTyped DEF CompletedEnds
    <3> QED BY ZenonT(60), <1>0, <1>1, <2>1, <2>2, <3>1, EndedTyped
            DEF CompletedEnds, TypeOK, rows, starting, service
  <2>3. CASE ~Refused(p, proven)
    <3>1. pending' \subseteq Promises /\ execution' \in 0..Generations
      BY <1>00, <1>1, <2>3, Constants DEF CompletedEnds, TypeOK
    <3>2. CASE Stale(p.gen)
      BY ZenonT(60), <1>0, <1>1, <2>1, <2>3, <3>1, <3>2, EndedTyped
      DEF CompletedEnds, TypeOK, rows, starting, service
    <3>3. CASE ~Stale(p.gen)
      <4>1. SettleRows(p.gen, Outcome(p.status)) /\ UNCHANGED <<gen, recorded, carried>>
        BY <1>1, <2>3, <3>3 DEF CompletedEnds
      <4>2. p.status \in {"completed", "failed", "interrupted"}
        BY <1>1, PromiseTyped DEF CompletedEnds, Shape
      <4>3. Outcome(p.status) \in Terminal
        BY <4>2, OutcomeTyped
      <4> QED BY <1>0, <2>1, <3>1, <4>1, <4>3, EndedTyped, Settled
              DEF TypeOK, starting, service
    <3> QED BY <3>2, <3>3
  <2> QED BY <2>2, <2>3
<1>2. ASSUME NEW proven \in BOOLEAN, FailedEnds(p, proven) PROVE TypeOK'
  <2>1. Ended(p.gen, proven) /\ UNCHANGED late
    BY <1>2 DEF FailedEnds
  <2>2. CASE p.gen = gen
    <3>1. RecoverWorker(proven, "failed") /\ "failed" \in Origins
          /\ UNCHANGED <<live, reported, terminating, service>>
      BY <1>2, <2>2 DEF FailedEnds, Origins
    <3>2. pending' \subseteq Promises /\ execution' \in 0..Generations
      BY <1>00, <1>2, <2>2, Constants DEF FailedEnds, TypeOK
    <3> QED BY <1>0, <2>1, <3>1, <3>2, EndedTyped, Recovered DEF TypeOK, service
  <2>3. CASE p.gen # gen
    <3>1. HostDies /\ UNCHANGED <<rows, crashes>>
      BY <1>2, <2>3 DEF FailedEnds
    <3> QED BY <1>0, <2>1, <3>1, EndedTyped, DiesTyped DEF TypeOK, rows
  <2> QED BY <2>2, <2>3
<1>3. ASSUME NEW proven \in BOOLEAN, CutEnds(p, proven) PROVE TypeOK'
  <2>1. Ended(p.gen, proven) /\ UNCHANGED <<starting, live, reported, terminating, service, late>>
    BY <1>3 DEF CutEnds
  <2>2. pending' \subseteq Promises /\ execution' \in 0..Generations
    BY <1>00, <1>3, Constants DEF CutEnds, TypeOK, rows
  <2>3. CASE proven
    <3>1. SettleRows(gen, Outcome("interrupted")) /\ UNCHANGED <<gen, recorded, carried>>
      BY <1>3, <2>3 DEF CutEnds
    <3>2. Outcome("interrupted") \in Terminal
      BY OutcomeTyped
    <3> QED BY <1>0, <2>1, <2>2, <3>1, <3>2, EndedTyped, Settled DEF TypeOK, starting, service
  <2>4. CASE ~proven
    BY ZenonT(60), <1>0, <1>3, <2>1, <2>2, <2>4, EndedTyped DEF CutEnds, TypeOK, rows, starting, service
  <2> QED BY <2>3, <2>4
<1>4. ASSUME Interrupted(p) PROVE TypeOK'
  BY <1>4 DEF Interrupted, TypeOK, rows, starting, service, world
<1>5. ASSUME InterruptFails(p) PROVE TypeOK'
  <2>1. pending' \subseteq Promises
    BY <1>0, <1>00, <1>5, AwaitTyped DEF InterruptFails
  <2>2. terminating' \subseteq live
    BY <1>0, <1>5 DEF InterruptFails, TypeOK
  <2> QED BY <1>5, <2>1, <2>2 DEF InterruptFails, TypeOK, rows, starting, service, world
<1>6. ASSUME NEW confirmed \in BOOLEAN, Deliver(p, confirmed) PROVE TypeOK'
  <2>1. pending' \subseteq Promises
    BY <1>00, <1>6 DEF Deliver
  <2>2. carried' \in [Gen -> 0..Generations]
    <3>1. p.gen \in 0..Generations
      BY <1>0, Constants DEF Gen
    <3> QED BY <1>6, <3>1 DEF Deliver, TypeOK
  <2>3. question' \in [Gen -> QuestionStates]
    BY <1>6 DEF Deliver, TypeOK, QuestionStates
  <2>4. work' \in WorkStates
    BY <1>6 DEF Deliver, TypeOK, WorkStates
  <2> QED BY <1>6, <2>1, <2>2, <2>3, <2>4 DEF Deliver, TypeOK, starting, service, world
<1> QED BY <1>1, <1>2, <1>3, <1>4, <1>5, <1>6 DEF Promise, Settles

LEMMA RecoveryTyped == ASSUME TypeOK, HostStates, Recovery PROVE TypeOK'
<1>1. ASSUME Restart PROVE TypeOK'
  <2>1. sups' \in Seq({"own", "other"}) /\ available' \in BOOLEAN
    BY <1>1, Constants DEF Restart
  <2>2. attempt' \in [Gen -> AttemptStates] /\ work' \in WorkStates
    BY <1>1 DEF Restart, TypeOK, AttemptStates, WorkStates
  <2>3. host' \in {"up", "down", "recovering"}
        /\ UNCHANGED <<gen, recorded, question, carried, starting, native, crashes, visit, world>>
    BY <1>1 DEF Restart
  <2> QED BY <2>1, <2>2, <2>3 DEF TypeOK, starting, native, world
<1>2. ASSUME Visit PROVE TypeOK'
  <2>1. visit' \in Visits
    BY <1>2 DEF Visit, Visits, TypeOK
  <2> QED BY <1>2, <2>1 DEF Visit, TypeOK, rows, starting, native, world
<1>3. ASSUME Pass PROVE TypeOK'
  <2>1. sups' \in Seq({"own", "other"})
    BY <1>3 DEF Pass, TypeOK
  <2> QED BY <1>3, <2>1 DEF Pass, TypeOK, rows, starting, native, world
<1>4. ASSUME Serve PROVE TypeOK'
  BY <1>4 DEF Serve, TypeOK, rows, starting, native, world
<1>5. ASSUME NEW proven \in BOOLEAN, VisitEnds(proven) PROVE TypeOK'
  <2>1. sups # <<>> /\ UNCHANGED <<crashes, late>> /\ Abandons(visit.gen, proven)
    BY <1>5 DEF VisitEnds, HostStates
  <2>2. process' \in [Gen -> {"none", "alive", "gone"}] /\ survived' \subseteq Gen
    BY <2>1, EndedTyped DEF Abandons, TypeOK
  <2>3. CASE HostDies /\ UNCHANGED rows
    BY <2>1, <2>2, <2>3, DiesTyped DEF TypeOK, rows
  <2>4. CASE ~(HostDies /\ UNCHANGED rows)
    <3>1. /\ sups' = Tail(sups) /\ visit' = NoVisit /\ UNCHANGED <<native, host, available>>
          /\ \/ LeaveToOther
             \/ UNCHANGED <<rows, starting>>
             \/ RecoverWorker(proven, "recover")
      BY <1>5, <2>4 DEF VisitEnds
    <3>2. sups' \in Seq({"own", "other"}) /\ visit' \in Visits
      BY <2>1, <3>1, Constants DEF NoVisit, Visits, TypeOK
    <3>3. CASE LeaveToOther
      <4>1. attempt' \in [Gen -> AttemptStates] /\ work' \in WorkStates
        BY <3>3 DEF LeaveToOther, AfterLoss, TypeOK, AttemptStates, WorkStates, rows
      <4>2. UNCHANGED <<gen, recorded, question, carried, starting>>
        BY <3>3 DEF LeaveToOther, rows
      <4> QED BY <2>1, <2>2, <3>1, <3>2, <4>1, <4>2 DEF TypeOK, starting, native
    <3>4. CASE UNCHANGED <<rows, starting>>
      BY <2>1, <2>2, <3>1, <3>2, <3>4 DEF TypeOK, rows, starting, native
    <3>5. CASE RecoverWorker(proven, "recover")
      <4>1. gen # 0
        BY <1>5 DEF VisitEnds, HostStates
      <4>2. "recover" \in Origins
        BY DEF Origins
      <4> QED BY <2>1, <2>2, <3>1, <3>2, <3>5, <4>1, <4>2, Recovered DEF TypeOK, native
    <3> QED BY <3>1, <3>3, <3>4, <3>5
  <2> QED BY <2>3, <2>4
<1> QED BY <1>1, <1>2, <1>3, <1>4, <1>5 DEF Recovery

LEMMA StepTyped == ASSUME TypeOK, Shape, HostStates, OwnRecovers, [Next]_vars PROVE TypeOK'
<1>1. ASSUME Crash PROVE TypeOK'
  <2>1. crashes' \in 0..MaxCrashes
    BY <1>1, CrashBound DEF Crash, TypeOK
  <2>2. HostDies /\ UNCHANGED <<rows, world>>
    BY <1>1 DEF Crash
  <2> QED BY <2>1, <2>2, DiesTyped DEF TypeOK, rows, world
<1>2. ASSUME UNCHANGED vars PROVE TypeOK'
  BY <1>2 DEF vars, TypeOK
<1> QED BY <1>1, <1>2, OwnerTyped, StartupTyped, NativeTyped, RecoveryTyped, PromiseKept DEF Next

-----------------------------------------------------------------------------
(* The start in flight, the connections and the promises.                    *)

LEMMA AwaitFacts == \A kind, g : Await(kind, g).gen = g /\ Await(kind, g).kind = kind
BY DEF Await

LEMMA ReportFacts == \A kind, g, status : /\ Report(kind, g, status).gen = g
                                          /\ Report(kind, g, status).status = status
BY DEF Report

LEMMA SameShape ==
    ASSUME TypeOK, Shape, UNCHANGED <<gen, live, execution>>,
           gen = 0 => work' = "none",
           startup' = "none" \/ (startup' = startup /\ work' = work)
           \/ (startup' # "launch" /\ gen # 0 /\ gen \notin live),
           \A p \in pending' : p \in pending
                               \/ (p.gen \in live /\ (p.kind = "complete" => p.status # "none"))
    PROVE  Shape'
BY DEF Shape

LEMMA DiesShape == ASSUME HostDies, gen' = 0 => work' = "none" PROVE Shape'
BY DEF HostDies, Shape

LEMMA RecoveredShape ==
    ASSUME TypeOK, Shape, NEW proven \in BOOLEAN, NEW from \in Origins, gen # 0,
           RecoverWorker(proven, from), live' = live, execution' = 0, pending' \subseteq pending
    PROVE  Shape'
<1>1. gen \in Nat
  BY GenType
<1>2. \/ gen' = gen /\ startup' = "none"
      \/ gen' = gen + 1 /\ startup' = "launch" /\ work' = "starting"
  BY Recovered
<1>3. \A g \in live : g <= gen /\ g \in Nat
  BY GenFacts DEF Shape, TypeOK
<1> QED BY <1>1, <1>2, <1>3 DEF Shape

LEMMA Settling == ASSUME TypeOK, Shape, startup # "none" PROVE execution = 0
BY DEF Shape

LEMMA StepShape == ASSUME TypeOK, Shape, HostStates, OwnRecovers, [Next]_vars PROVE Shape'
<1>1. ASSUME Delegate PROVE Shape'
  <2>1. live = {} /\ pending = {} /\ execution = 0 /\ gen' = 1
    <3>1. gen = 0 /\ gen' = 1
      BY <1>1 DEF Delegate
    <3>2. \A g \in live : g \in Nat /\ g # 0 /\ g <= 0
      BY <3>1, GenFacts DEF Shape, TypeOK
    <3>3. live = {}
      BY <3>2
    <3> QED BY <3>1, <3>3 DEF Shape
  <2> QED BY <1>1, <2>1 DEF Delegate, Shape, native
<1>2. ASSUME Cancel PROVE Shape'
  <2>1. gen # 0 /\ startup # "launch" /\ UNCHANGED <<gen, live, execution, startup>>
    BY <1>2 DEF Cancel, Running, Shape, starting
  <2>2. \A p \in pending' : p \in pending
                            \/ (p.gen \in live /\ (p.kind = "complete" => p.status # "none"))
    BY <1>2, AwaitFacts DEF Cancel, Shape
  <2> QED BY <2>1, <2>2 DEF Shape
<1>3. ASSUME NEW q \in Gen, Answer(q) PROVE Shape'
  <2>1. \A p \in pending' : p \in pending
                            \/ (p.gen \in live /\ (p.kind = "complete" => p.status # "none"))
    BY <1>3, AwaitFacts DEF Answer, Shape
  <2> QED BY <1>3, <2>1 DEF Answer, Shape, starting
<1>4. ASSUME Launch \/ RecordProcess \/ FailStart PROVE Shape'
  BY <1>4, SameShape DEF Launch, RecordProcess, FailStart, Shape, native, rows
<1>5. ASSUME StartAttempt PROVE Shape'
  <2>1. gen \in Nat /\ gen # 0
    BY <1>5, GenType DEF StartAttempt, Shape
  <2> QED BY <1>5, <2>1 DEF StartAttempt, Shape
<1>6. ASSUME NEW proven \in BOOLEAN, Abandoned(proven) PROVE Shape'
  <2>1. gen # 0 /\ execution = 0
    BY <1>6 DEF Abandoned, Shape
  <2> QED BY <1>6, <2>1, RecoveredShape DEF Abandoned, native, TypeOK
<1>7. ASSUME FailLaunch PROVE Shape'
  <2>1. gen # 0 /\ gen' = gen
    BY <1>7 DEF FailLaunch, Shape
  <2>2. CASE HostDies
    BY <2>1, <2>2, DiesShape
  <2>3. CASE startup' = "none" /\ UNCHANGED native
    BY <2>1, <2>3 DEF native, Shape
  <2> QED BY <1>7, <2>2, <2>3 DEF FailLaunch
<1>8. ASSUME NEW g \in Gen, ProcessExits(g) \/ LoseConnection(g) \/ Ask(g) PROVE Shape'
  <2>1. \A p \in pending' : p \in pending
                            \/ (p.gen \in live /\ (p.kind = "complete" => p.status # "none"))
    BY <1>8, AwaitFacts DEF ProcessExits, LoseConnection, Ask, native
  <2>2. UNCHANGED <<gen, live, execution, startup>>
    BY <1>8 DEF ProcessExits, LoseConnection, Ask, native, starting, rows
  <2>3. work' = work \/ (work' = "waiting-question" /\ startup # "launch" /\ work = "running")
    BY <1>8 DEF ProcessExits, LoseConnection, Ask, Running, rows
  <2> QED BY <2>1, <2>2, <2>3 DEF Shape
<1>9. ASSUME NEW g \in Gen, NEW status \in {"completed", "interrupted"}, EndTurn(g, status)
      PROVE  Shape'
  <2>1. \A p \in pending' : p \in pending
                            \/ (p.gen \in live /\ (p.kind = "complete" => p.status # "none"))
    BY <1>9, ReportFacts DEF EndTurn
  <2> QED BY <1>9, <2>1 DEF EndTurn, Shape, rows, starting
<1>10. ASSUME NEW p \in pending, Promise(p) PROVE Shape'
  <2>0. p.gen \in live /\ gen # 0 /\ startup # "launch"
    <3>1. p.gen \in live /\ p.gen <= gen /\ p.gen \in Nat /\ p.gen # 0
      BY PromiseTyped, GenFacts DEF Shape
    <3> QED BY <1>10, <3>1, GenType
            DEF Promise, Settles, CompletedEnds, FailedEnds, CutEnds, Interrupted,
                InterruptFails, Deliver, Running
  <2>1. ASSUME NEW proven \in BOOLEAN, FailedEnds(p, proven) PROVE Shape'
    <3>1. CASE p.gen = gen
      <4>1. execution' = 0
        BY <2>1, <3>1 DEF FailedEnds, Shape
      <4> QED BY <2>0, <2>1, <3>1, <4>1, RecoveredShape DEF FailedEnds, Origins
    <3>2. CASE p.gen # gen
      BY <2>0, <2>1, <3>2, DiesShape DEF FailedEnds, rows
    <3> QED BY <3>1, <3>2
  <2>2. ASSUME ~(\E proven \in BOOLEAN : FailedEnds(p, proven)) PROVE Shape'
    <3>1. UNCHANGED <<gen, live, starting>>
      BY <1>10, <2>2 DEF Promise, Settles, CompletedEnds, CutEnds, Interrupted,
         InterruptFails, Deliver, rows
    <3>2. execution' \in {0, execution}
      BY <1>10, <2>2 DEF Promise, Settles, CompletedEnds, CutEnds, Interrupted,
         InterruptFails, Deliver
    <3>3. \A r \in pending' : r \in pending
                              \/ (r.gen \in live /\ (r.kind = "complete" => r.status # "none"))
      BY <1>10, <2>0, <2>2, AwaitFacts DEF Promise, Settles, CompletedEnds, CutEnds, Interrupted,
         InterruptFails, Deliver
    <3> QED BY <2>0, <3>1, <3>2, <3>3 DEF Shape, starting
  <2> QED BY <2>1, <2>2
<1>11. ASSUME Crash PROVE Shape'
  BY <1>11, DiesShape DEF Crash, rows, Shape
<1>12. ASSUME Restart PROVE Shape'
  <2>1. gen = 0 => work' = "none"
    BY <1>12 DEF Restart, Shape
  <2>2. startup = "none"
    BY <1>12 DEF Restart, HostStates
  <2>3. UNCHANGED <<gen, live, execution, startup, pending>>
    BY <1>12 DEF Restart, starting, native
  <2> QED BY <2>1, <2>2, <2>3 DEF Shape
<1>13. ASSUME Visit \/ Pass \/ Serve \/ UNCHANGED vars PROVE Shape'
  BY <1>13, SameShape DEF Visit, Pass, Serve, rows, starting, native, vars, Shape
<1>14. ASSUME NEW proven \in BOOLEAN, VisitEnds(proven) PROVE Shape'
  <2>0. gen # 0 /\ sups # <<>> /\ sups \in Seq({"own", "other"})
    BY <1>14 DEF VisitEnds, HostStates, TypeOK
  <2>1. CASE HostDies /\ UNCHANGED rows
    BY <2>0, <2>1, DiesShape DEF rows
  <2>2. CASE Head(sups) = "own" /\ RecoverWorker(proven, "recover") /\ UNCHANGED native
    <3>1. OwnToCome
      <4>1. 1 \in 1..Len(sups) /\ sups[1] = Head(sups)
        BY <2>0
      <4> QED BY <2>2, <4>1 DEF OwnToCome
    <3>2. execution = 0
      BY <3>1 DEF OwnRecovers, Shape
    <3> QED BY <2>0, <2>2, <3>2, RecoveredShape DEF native, Origins
  <2>3. CASE (LeaveToOther \/ UNCHANGED <<rows, starting>>) /\ UNCHANGED native
    <3>1. startup # "launch" /\ UNCHANGED <<gen, startup>>
      BY <1>14, <2>3 DEF VisitEnds, InRecovery, Running, LeaveToOther, rows, starting
    <3> QED BY <2>0, <2>3, <3>1 DEF Shape, native
  <2> QED BY <1>14, <2>1, <2>2, <2>3 DEF VisitEnds
<1> QED BY <1>1, <1>2, <1>3, <1>4, <1>5, <1>6, <1>7, <1>8, <1>9, <1>10, <1>11, <1>12, <1>13,
           <1>14 DEF Next, Owner, Startup, Native, Recovery

-----------------------------------------------------------------------------
(* The host and its recovery.                                                *)

LEMMA SameHost ==
    ASSUME HostStates, UNCHANGED <<host, sups, visit>>, host # "down", gen' = gen \/ gen' # 0
    PROVE  HostStates'
BY DEF HostStates

LEMMA DiesHost == ASSUME HostDies PROVE HostStates'
BY DEF HostDies, HostStates

LEMMA StepHost == ASSUME TypeOK, Shape, HostStates, [Next]_vars PROVE HostStates'
<1>1. ASSUME Owner PROVE HostStates'
  BY <1>1, SameHost DEF Owner, Delegate, Cancel, Answer, service, Running
<1>2. ASSUME Startup PROVE HostStates'
  <2>1. CASE HostDies
    BY <2>1, DiesHost
  <2>2. CASE ~HostDies
    <3>1. UNCHANGED <<host, sups, visit>> /\ host # "down"
      BY <1>2, <2>2 DEF Startup, Launch, RecordProcess, StartAttempt, FailStart, Abandoned,
         FailLaunch, service, Running
    <3>2. gen' = gen \/ gen' = gen + 1
      BY <1>2, <2>2 DEF Startup, Launch, RecordProcess, StartAttempt, FailStart, Abandoned,
         FailLaunch, rows, RecoverWorker
    <3> QED BY <3>1, <3>2, SameHost, GenType
  <2> QED BY <2>1, <2>2
<1>3. ASSUME Native PROVE HostStates'
  <2>1. host # "down" /\ UNCHANGED <<gen, host, sups, visit>>
    <3>1. \A g \in live : host # "down"
      BY DEF HostStates
    <3>2. startup # "none" => host # "down"
      BY DEF HostStates
    <3> QED BY <1>3, <3>1, <3>2
            DEF Native, ProcessExits, LoseConnection, Ask, EndTurn, Running, service, rows
  <2> QED BY <2>1, SameHost
<1>4. ASSUME NEW p \in pending, Promise(p) PROVE HostStates'
  <2>1. CASE HostDies
    BY <2>1, DiesHost
  <2>2. CASE ~HostDies
    <3>1. UNCHANGED <<host, sups, visit>> /\ host # "down"
      BY <1>4, <2>2 DEF Promise, Settles, CompletedEnds, FailedEnds, CutEnds, Interrupted,
         InterruptFails, Deliver, service, Running
    <3>2. gen' = gen \/ gen' = gen + 1
      BY <1>4, <2>2 DEF Promise, Settles, CompletedEnds, FailedEnds, CutEnds, Interrupted,
         InterruptFails, Deliver, rows, RecoverWorker
    <3> QED BY <3>1, <3>2, SameHost, GenType
  <2> QED BY <2>1, <2>2
<1>5. ASSUME Crash PROVE HostStates'
  BY <1>5, DiesHost DEF Crash
<1>6. ASSUME Restart PROVE HostStates'
  BY <1>6 DEF Restart, HostStates
<1>7. ASSUME Visit PROVE HostStates'
  <2>1. gen # 0
    BY <1>7 DEF Visit, Shape
  <2> QED BY <1>7, <2>1 DEF Visit, InRecovery, HostStates, rows
<1>8. ASSUME Pass PROVE HostStates'
  BY <1>8 DEF Pass, InRecovery, HostStates, rows
<1>9. ASSUME Serve PROVE HostStates'
  BY <1>9 DEF Serve, InRecovery, HostStates, rows
<1>10. ASSUME NEW proven \in BOOLEAN, VisitEnds(proven) PROVE HostStates'
  <2>1. CASE HostDies
    BY <2>1, DiesHost
  <2>2. CASE ~HostDies
    BY <1>10, <2>2 DEF VisitEnds, InRecovery, HostStates
  <2> QED BY <2>1, <2>2
<1>11. ASSUME UNCHANGED vars PROVE HostStates'
  BY <1>11 DEF vars, HostStates
<1> QED BY <1>1, <1>2, <1>3, <1>4, <1>5, <1>6, <1>7, <1>8, <1>9, <1>10, <1>11
        DEF Next, Recovery

LEMMA NobodyComes == ASSUME sups' = <<>> PROVE OwnRecovers'
BY DEF OwnRecovers, OwnToCome

LEMMA SameOwn ==
    ASSUME OwnRecovers, UNCHANGED <<sups, visit>>,
           OwnToCome => UNCHANGED <<live, startup, gen>>
    PROVE  OwnRecovers'
BY DEF OwnRecovers, OwnToCome

LEMMA TailFacts ==
    ASSUME NEW q \in Seq({"own", "other"}), q # <<>>
    PROVE  /\ Len(Tail(q)) = Len(q) - 1 /\ Len(q) \in Nat \ {0}
           /\ \A k \in 1..Len(q) - 1 : Tail(q)[k] = q[k + 1]
           /\ Head(q) = q[1] /\ 1 \in 1..Len(q)
OBVIOUS

\* One supervisor less: the Worker's own may be the one that has recovered.
LEMMA NextOwn ==
    ASSUME TypeOK, OwnRecovers, sups # <<>>, sups' = Tail(sups), visit' = NoVisit,
           Head(sups) # "own" => UNCHANGED <<live, startup>>
    PROVE  OwnRecovers'
<1>1. \A k \in 1..Len(sups') : k + 1 \in 1..Len(sups) /\ sups'[k] = sups[k + 1] /\ k + 1 # 1
  BY TailFacts DEF TypeOK
<1>2. Head(sups) = sups[1] /\ 1 \in 1..Len(sups)
  BY TailFacts DEF TypeOK
<1>3. \A i, j \in 1..Len(sups') : sups'[i] = "own" /\ sups'[j] = "own" => i = j
  <2>1. SUFFICES ASSUME NEW i \in 1..Len(sups'), NEW j \in 1..Len(sups'),
                        sups'[i] = "own", sups'[j] = "own"
                 PROVE  i = j
    OBVIOUS
  <2>2. i + 1 = j + 1
    BY <1>1, <2>1 DEF OwnRecovers
  <2> QED BY <2>2
<1>4. OwnToCome' => OwnToCome /\ Head(sups) # "own"
  BY <1>1, <1>2 DEF OwnToCome, OwnRecovers
<1> QED BY <1>3, <1>4 DEF OwnRecovers

LEMMA StepOwn == ASSUME TypeOK, Shape, HostStates, OwnRecovers, [Next]_vars PROVE OwnRecovers'
<1>0. OwnToCome => sups # <<>> /\ host = "recovering"
  <2>1. sups = <<>> => ~OwnToCome
    BY DEF OwnToCome
  <2> QED BY <2>1 DEF HostStates
<1>1. ASSUME HostDies PROVE OwnRecovers'
  BY <1>1, NobodyComes DEF HostDies
<1>2. ASSUME Owner PROVE OwnRecovers'
  BY <1>0, <1>2, SameOwn DEF Owner, Delegate, Cancel, Answer, service, Running, OwnRecovers
<1>3. ASSUME Startup, ~HostDies PROVE OwnRecovers'
  <2>1. startup # "none" /\ UNCHANGED <<sups, visit>>
    BY <1>3 DEF Startup, Launch, RecordProcess, StartAttempt, FailStart, Abandoned,
       FailLaunch, service
  <2> QED BY <2>1, SameOwn DEF OwnRecovers
<1>4. ASSUME Native PROVE OwnRecovers'
  <2>1. UNCHANGED <<gen, live, startup, sups, visit>>
    BY <1>4 DEF Native, ProcessExits, LoseConnection, Ask, EndTurn, service, rows, starting, native
  <2> QED BY <2>1, SameOwn
<1>5. ASSUME NEW p \in pending, Promise(p), ~HostDies PROVE OwnRecovers'
  <2>1. ~OwnToCome
    BY DEF Shape, OwnRecovers
  <2>2. UNCHANGED <<sups, visit>>
    BY <1>5 DEF Promise, Settles, CompletedEnds, FailedEnds, CutEnds, Interrupted,
         InterruptFails, Deliver, service
  <2> QED BY <2>1, <2>2, SameOwn
<1>6. ASSUME Restart PROVE OwnRecovers'
  <2>1. live' = {} /\ startup' = "none" /\ visit' = NoVisit /\ sups' \in Orders
    BY <1>6 DEF Restart, HostStates, native, starting
  <2>2. \A i, j \in 1..Len(sups') : sups'[i] = "own" /\ sups'[j] = "own" => i = j
    BY <2>1, Constants
  <2> QED BY <2>1, <2>2 DEF OwnRecovers
<1>7. ASSUME Visit PROVE OwnRecovers'
  <2>1. visit'.gen = gen /\ UNCHANGED <<gen, sups, live, startup>>
    BY <1>7 DEF Visit, rows, native, starting
  <2> QED BY <2>1 DEF OwnRecovers, OwnToCome
<1>8. ASSUME Pass PROVE OwnRecovers'
  BY <1>8, NextOwn DEF Pass, native, starting
<1>9. ASSUME Serve \/ UNCHANGED vars PROVE OwnRecovers'
  BY <1>9, SameOwn DEF Serve, rows, native, starting, vars
<1>10. ASSUME NEW proven \in BOOLEAN, VisitEnds(proven), ~HostDies PROVE OwnRecovers'
  <2>1. sups # <<>> /\ sups' = Tail(sups) /\ visit' = NoVisit
    BY <1>10 DEF VisitEnds, HostStates
  <2>2. Head(sups) # "own" => UNCHANGED <<live, startup>>
    BY <1>10 DEF VisitEnds, LeaveToOther, native, starting
  <2> QED BY <2>1, <2>2, NextOwn
<1>11. ASSUME Crash PROVE HostDies
  BY <1>11 DEF Crash
<1> QED BY <1>1, <1>2, <1>3, <1>4, <1>5, <1>6, <1>7, <1>8, <1>9, <1>10, <1>11
        DEF Next, Recovery

-----------------------------------------------------------------------------
(* The processes of the generations.                                         *)

\* Where no generation begins, processes only end and records only vanish.
LEMMA SameProcesses ==
    ASSUME TypeOK, Predecessors, gen' = gen, survived \subseteq survived',
           \A g \in Gen : process'[g] = process[g] \/ (process'[g] = "gone" /\ process[g] = "alive"),
           \A g \in Gen : g # gen => (g \in recorded' => g \in recorded)
    PROVE  Predecessors'
BY GenType, GenFacts DEF Predecessors

\* The current generation is replaced.
LEMMA NextGeneration ==
    ASSUME TypeOK, Predecessors, gen' = gen + 1, survived \subseteq survived', recorded' = recorded,
           \A g \in Gen : process'[g] = process[g] \/ (process'[g] = "gone" /\ process[g] = "alive"),
           gen \in Gen,
           process'[gen] = "alive" => gen \in survived' \/ gen \notin recorded
    PROVE  Predecessors'
<1>1. gen \in Nat
  BY GenType
<1>2. \A g \in Gen : g \in Nat
  BY GenFacts
<1>3. \A g \in Gen : g > gen + 1 => process'[g] = "none"
  BY <1>1, <1>2 DEF Predecessors
<1>4. \A g \in Gen : g < gen + 1 => g < gen \/ g = gen
  BY <1>1, <1>2
<1> QED BY <1>3, <1>4 DEF Predecessors

LEMMA StepProcesses ==
    ASSUME TypeOK, Shape, HostStates, OwnRecovers, Predecessors, [Next]_vars PROVE Predecessors'
<1>0. ASSUME UNCHANGED <<gen, process, survived, recorded>> PROVE Predecessors'
  BY <1>0, SameProcesses
<1>1. ASSUME Delegate PROVE Predecessors'
  <2>1. gen = 0 /\ gen' = 1 /\ UNCHANGED <<process, survived, recorded>>
    BY <1>1 DEF Delegate, world
  <2>2. \A g \in Gen : g \in Nat /\ g # 0
    BY GenFacts
  <2>3. \A g \in Gen : (g > 1 => g > 0) /\ ~(g < 1)
    BY <2>2
  <2> QED BY <2>1, <2>3 DEF Predecessors
<1>2. ASSUME Cancel \/ FailStart \/ Restart \/ Visit \/ Pass \/ Serve \/ UNCHANGED vars \/ Crash
             \/ \E q \in Gen : Answer(q)
      PROVE  Predecessors'
  BY <1>0, <1>2 DEF Cancel, FailStart, Restart, Visit, Pass, Serve, vars, Crash, Answer, rows, world
<1>3. ASSUME Launch PROVE Predecessors'
  <2>1. \A g \in Gen : g # gen => process'[g] = process[g]
    BY <1>3 DEF Launch, TypeOK
  <2>2. UNCHANGED <<gen, survived, recorded>>
    BY <1>3 DEF Launch
  <2>3. gen \in Nat /\ \A g \in Gen : g \in Nat
    BY GenType, GenFacts
  <2> QED BY <2>1, <2>2, <2>3 DEF Predecessors
<1>4. ASSUME RecordProcess \/ StartAttempt PROVE Predecessors'
  BY <1>4, SameProcesses DEF RecordProcess, StartAttempt, world
<1>5. ASSUME NEW proven \in BOOLEAN, NEW from \in Origins, RecoverWorker(proven, from),
             gen \in Gen, survived \subseteq survived',
             \A g \in Gen : process'[g] = process[g] \/ (process'[g] = "gone" /\ process[g] = "alive"),
             process'[gen] = "alive" => gen \in survived' \/ gen \notin recorded
      PROVE  Predecessors'
  <2>1. recorded' = recorded /\ (gen' = gen \/ gen' = gen + 1)
    BY <1>5 DEF RecoverWorker
  <2> QED BY <1>5, <2>1, SameProcesses, NextGeneration
<1>6. ASSUME NEW proven \in BOOLEAN, Abandoned(proven) PROVE Predecessors'
  <2>1. gen \in Gen /\ Ended(gen, proven) /\ RecoverWorker(proven, origin) /\ origin \in Origins
    BY <1>6, GenType DEF Abandoned, Shape, TypeOK
  <2> QED BY <2>1, <1>5, EndedTyped
<1>7. ASSUME FailLaunch PROVE Predecessors'
  BY <1>0, <1>7 DEF FailLaunch, world
<1>8. ASSUME Native PROVE Predecessors'
  <2>1. ASSUME NEW g \in Gen, ProcessExits(g) PROVE Predecessors'
    <3>1. \A h \in Gen : process'[h] = process[h] \/ (process'[h] = "gone" /\ process[h] = "alive")
      BY <2>1 DEF ProcessExits, TypeOK
    <3> QED BY <2>1, <3>1, SameProcesses DEF ProcessExits, rows
  <2>2. ASSUME NEW g \in Gen, \/ LoseConnection(g) \/ Ask(g)
                              \/ \E status \in {"completed", "interrupted"} : EndTurn(g, status)
        PROVE  Predecessors'
    BY <1>0, <2>2 DEF LoseConnection, Ask, EndTurn, rows, world
  <2> QED BY <1>8, <2>1, <2>2 DEF Native
<1>9. ASSUME NEW p \in pending, Promise(p) PROVE Predecessors'
  <2>0. p.gen \in Gen
    BY PromiseTyped
  <2>1. ASSUME NEW proven \in BOOLEAN, Ended(p.gen, proven), UNCHANGED <<gen, recorded>>
        PROVE  Predecessors'
    BY <2>0, <2>1, EndedTyped, SameProcesses
  <2>2. ASSUME NEW proven \in BOOLEAN, CompletedEnds(p, proven) \/ CutEnds(p, proven)
        PROVE  Predecessors'
    <3>1. Ended(p.gen, proven) /\ UNCHANGED <<gen, recorded>>
      BY <2>2 DEF CompletedEnds, CutEnds, rows
    <3> QED BY <2>1, <3>1
  <2>3. ASSUME NEW proven \in BOOLEAN, FailedEnds(p, proven) PROVE Predecessors'
    <3>1. Ended(p.gen, proven)
      BY <2>3 DEF FailedEnds
    <3>2. CASE p.gen = gen
      <4>1. RecoverWorker(proven, "failed") /\ "failed" \in Origins
        BY <2>3, <3>2 DEF FailedEnds, Origins
      <4> QED BY <1>5, <2>0, <3>1, <3>2, <4>1, EndedTyped
    <3>3. CASE p.gen # gen
      BY <2>1, <2>3, <3>1, <3>3 DEF FailedEnds, rows
    <3> QED BY <3>2, <3>3
  <2>4. ASSUME \/ Interrupted(p) \/ InterruptFails(p)
               \/ \E confirmed \in BOOLEAN : Deliver(p, confirmed)
        PROVE  Predecessors'
    BY <1>0, <2>4 DEF Interrupted, InterruptFails, Deliver, rows, world
  <2> QED BY <1>9, <2>2, <2>3, <2>4 DEF Promise, Settles
<1>10. ASSUME NEW proven \in BOOLEAN, VisitEnds(proven) PROVE Predecessors'
  <2>0. gen \in Gen /\ sups # <<>>
    BY <1>10, GenType DEF VisitEnds, HostStates
  <2>1. Abandons(visit.gen, proven)
    BY <1>10 DEF VisitEnds
  <2>2. /\ survived \subseteq survived'
        /\ \A g \in Gen : process'[g] = process[g]
                          \/ (process'[g] = "gone" /\ process[g] = "alive")
        /\ visit.gen \in recorded => (process'[visit.gen] = "alive" => visit.gen \in survived')
    BY <2>1, EndedTyped DEF Abandons, TypeOK
  <2>3. CASE UNCHANGED <<gen, recorded>>
    BY <2>2, <2>3, SameProcesses
  <2>4. CASE Head(sups) = "own" /\ RecoverWorker(proven, "recover")
    <3>1. visit.gen = gen
      <4>1. Head(sups) = sups[1] /\ 1 \in 1..Len(sups)
        BY <2>0, TailFacts DEF TypeOK
      <4> QED BY <1>10, <2>4, <4>1 DEF VisitEnds, OwnRecovers, OwnToCome
    <3>2. "recover" \in Origins
      BY DEF Origins
    <3> QED BY <1>5, <2>0, <2>2, <2>4, <3>1, <3>2
  <2> QED BY <1>10, <2>3, <2>4 DEF VisitEnds, LeaveToOther, rows
<1> QED BY <1>1, <1>2, <1>3, <1>4, <1>6, <1>7, <1>8, <1>9, <1>10
        DEF Next, Owner, Startup, Recovery

-----------------------------------------------------------------------------
(* The answers a generation is told.                                         *)

Telling == work \in {"running", "waiting-question"}

\* Nothing is answered and no generation begins; answers may be withdrawn.
LEMMA SameAnswers ==
    ASSUME TypeOK, Carrying, UNCHANGED <<gen, carried, late>>,
           startup' = "none" \/ UNCHANGED <<startup, retained>> \/ startup' = "abandoning",
           \A q \in Gen : question'[q] \in {question[q], "cancelled"},
           Telling' => Telling
    PROVE  Carrying'
BY DEF Carrying, AnswersAreCarried, Given, Telling

\* A generation is over, or one is about to begin: nobody is told anything.
LEMMA NobodyTold ==
    ASSUME ~Telling', startup' \in {"none", "launch", "abandoning"} PROVE Carrying'
BY DEF Carrying, AnswersAreCarried, Telling

LEMMA StepCarrying == ASSUME TypeOK, Shape, HostStates, Carrying, [Next]_vars PROVE Carrying'
<1>0. ASSUME UNCHANGED <<work, gen, question, carried, late>>,
             startup' = "none" \/ UNCHANGED <<startup, retained>> \/ startup' = "abandoning"
      PROVE  Carrying'
  BY <1>0, SameAnswers DEF Telling
<1>1. ASSUME Cancel \/ Delegate PROVE Carrying'
  <2>1. ~Telling' /\ (startup' = "launch" \/ UNCHANGED <<gen, question, carried, late, startup, retained>>)
    BY <1>1 DEF Cancel, Delegate, Telling, starting, world
  <2> QED BY <2>1, NobodyTold, SameAnswers
<1>2. ASSUME FailStart \/ Visit \/ Pass \/ Serve \/ UNCHANGED vars \/ Crash PROVE Carrying'
  BY <1>0, <1>2 DEF FailStart, Visit, Pass, Serve, vars, Crash, HostDies, rows, starting, world
<1>3. ASSUME NEW q \in Gen, Answer(q) PROVE Carrying'
  <2>1. /\ late' = late \cup {q} /\ UNCHANGED <<gen, carried, work, startup, retained>>
        /\ \A r \in Gen \ {q} : question'[r] = question[r]
    BY <1>3 DEF Answer, starting, TypeOK
  <2> QED BY <2>1 DEF Carrying, AnswersAreCarried, Given
<1>4. ASSUME Launch PROVE Carrying'
  <2>1. ~Telling' /\ startup' = "spawned" /\ retained' = Retained /\ UNCHANGED <<gen, question, carried>>
    BY <1>4 DEF Launch, Shape, Telling
  <2> QED BY <2>1 DEF Carrying, AnswersAreCarried, Telling, Given, Retained
<1>5. ASSUME RecordProcess PROVE Carrying'
  BY <1>5 DEF RecordProcess, Carrying, AnswersAreCarried, Given, world
<1>6. ASSUME StartAttempt PROVE Carrying'
  <2>1. /\ startup' = "none" /\ UNCHANGED <<gen, late>>
        /\ \A q \in Gen : IF q \in retained THEN carried'[q] = gen
                          ELSE carried'[q] = carried[q] /\ question'[q] = question[q]
    BY <1>6 DEF StartAttempt, world
  <2>2. \A q \in Gen \ late : Given(q) => q \in retained \/ carried[q] = gen
    BY <1>6 DEF StartAttempt, Carrying
  <2>3. \A q \in Gen \ late : Given(q)' => carried'[q] = gen
    BY <2>1, <2>2 DEF Given
  <2> QED BY <2>1, <2>3 DEF Carrying, AnswersAreCarried, Given
<1>7. ASSUME NEW proven \in BOOLEAN, NEW from \in Origins, RecoverWorker(proven, from), gen # 0
      PROVE  Carrying'
  <2>1. work' \in {"cancelled", "cancellation-requested", "blocked", "starting"}
        /\ startup' \in {"none", "launch"}
    BY <1>7, Recovered
  <2> QED BY <2>1, NobodyTold DEF Telling
<1>8. ASSUME NEW g \in Gen, NEW result \in Terminal, SettleRows(g, result), UNCHANGED <<gen, carried, late>>,
             startup' = "none" \/ UNCHANGED <<startup, retained>>
      PROVE  Carrying'
  <2>1. ~Telling'
    BY <1>8 DEF SettleRows, Terminal, Telling
  <2> QED BY <1>8, <2>1, Settled, SameAnswers
<1>9. ASSUME FailLaunch PROVE Carrying'
  <2>1. gen \in Gen /\ "failed" \in Terminal
    BY <1>9, GenType DEF FailLaunch, Shape, Terminal
  <2>2. startup' = "none" /\ SettleRows(gen, "failed") /\ UNCHANGED <<gen, carried, late>>
    BY <1>9 DEF FailLaunch, HostDies, world
  <2> QED BY <1>8, <2>1, <2>2
<1>10. ASSUME NEW proven \in BOOLEAN, Abandoned(proven) PROVE Carrying'
  BY <1>7, <1>10 DEF Abandoned, Shape, TypeOK
<1>11. ASSUME Native PROVE Carrying'
  <2>1. ASSUME NEW g \in Gen, Ask(g) PROVE Carrying'
    <3>1. /\ Telling /\ UNCHANGED <<gen, carried, late, startup, retained>> /\ question'[g] = "open"
          /\ \A q \in Gen \ {g} : question'[q] = question[q]
      BY <2>1 DEF Ask, Telling, starting, world, TypeOK
    <3> QED BY <3>1 DEF Carrying, AnswersAreCarried, Given, Telling
  <2>2. ASSUME NEW g \in Gen, \/ ProcessExits(g) \/ LoseConnection(g)
                              \/ \E status \in {"completed", "interrupted"} : EndTurn(g, status)
        PROVE  Carrying'
    BY <1>0, <2>2 DEF ProcessExits, LoseConnection, EndTurn, rows, starting, world
  <2> QED BY <1>11, <2>1, <2>2 DEF Native
<1>12. ASSUME NEW p \in pending, Promise(p) PROVE Carrying'
  <2>0. p.gen \in Gen /\ gen \in Gen /\ gen # 0
    <3>1. p.gen \in Gen /\ p.gen <= gen
      BY PromiseTyped DEF Shape
    <3> QED BY <3>1, GenFacts, GenType
  <2>1. ASSUME NEW proven \in BOOLEAN, CompletedEnds(p, proven) PROVE Carrying'
    <3>1. UNCHANGED <<startup, retained, late>>
      BY <2>1 DEF CompletedEnds, starting
    <3>2. CASE UNCHANGED rows
      BY <1>0, <3>1, <3>2 DEF rows
    <3>3. CASE ~UNCHANGED rows
      <4>1. SettleRows(p.gen, Outcome(p.status)) /\ UNCHANGED <<gen, carried>>
        BY <2>1, <3>3 DEF CompletedEnds
      <4>2. Outcome(p.status) \in Terminal
        BY <2>1, PromiseTyped, OutcomeTyped DEF CompletedEnds, Shape
      <4> QED BY <1>8, <2>0, <3>1, <4>1, <4>2
    <3> QED BY <3>2, <3>3
  <2>2. ASSUME NEW proven \in BOOLEAN, CutEnds(p, proven) PROVE Carrying'
    <3>1. UNCHANGED <<startup, retained, late>>
      BY <2>2 DEF CutEnds, starting
    <3>2. CASE UNCHANGED rows
      BY <1>0, <3>1, <3>2 DEF rows
    <3>3. CASE ~UNCHANGED rows
      <4>1. SettleRows(gen, Outcome("interrupted")) /\ UNCHANGED <<gen, carried>>
        BY <2>2, <3>3 DEF CutEnds
      <4> QED BY <1>8, <2>0, <3>1, <4>1, OutcomeTyped
    <3> QED BY <3>2, <3>3
  <2>3. ASSUME NEW proven \in BOOLEAN, FailedEnds(p, proven) PROVE Carrying'
    <3>1. CASE p.gen = gen
      BY <1>7, <2>0, <2>3, <3>1 DEF FailedEnds, Origins
    <3>2. CASE p.gen # gen
      BY <1>0, <2>3, <3>2 DEF FailedEnds, HostDies, rows
    <3> QED BY <3>1, <3>2
  <2>4. ASSUME Interrupted(p) \/ InterruptFails(p) PROVE Carrying'
    BY <1>0, <2>4 DEF Interrupted, InterruptFails, rows, starting, world
  <2>5. ASSUME NEW confirmed \in BOOLEAN, Deliver(p, confirmed) PROVE Carrying'
    <3>1. UNCHANGED <<gen, late, startup, retained>> /\ startup # "launch"
      BY <2>5 DEF Deliver, starting, world, Running
    <3>2. CASE UNCHANGED <<question, carried, work>>
      BY <1>0, <3>1, <3>2
    <3>3. CASE ~UNCHANGED <<question, carried, work>>
      <4>1. /\ p.gen = gen /\ question[gen] = "answered"
            /\ question' = [question EXCEPT ![gen] = "delivered"]
            /\ carried' = [carried EXCEPT ![gen] = gen]
            /\ work' = IF work = "waiting-question" THEN "running" ELSE work
        BY <2>5, <3>3 DEF Deliver
      <4>2. carried'[gen] = gen /\ \A q \in Gen \ {gen} : UNCHANGED <<carried[q], question[q]>>
        BY <2>0, <4>1 DEF TypeOK
      <4>3. \A q \in Gen : Given(q)' => Given(q) \/ q = gen
        BY <4>2 DEF Given
      <4> QED BY <3>1, <4>1, <4>2, <4>3 DEF Carrying, AnswersAreCarried, Given
    <3> QED BY <3>2, <3>3
  <2> QED BY <1>12, <2>1, <2>2, <2>3, <2>4, <2>5 DEF Promise, Settles
<1>13. ASSUME Restart PROVE Carrying'
  <2>1. UNCHANGED <<gen, question, carried, late, startup, retained>> /\ (Telling' => Telling)
    BY <1>13 DEF Restart, starting, world, Telling
  <2> QED BY <2>1, SameAnswers
<1>14. ASSUME NEW proven \in BOOLEAN, VisitEnds(proven) PROVE Carrying'
  <2>0. gen # 0 /\ late' = late /\ "recover" \in Origins
    BY <1>14 DEF VisitEnds, HostStates, Origins
  <2>1. CASE UNCHANGED rows /\ (UNCHANGED starting \/ HostDies)
    BY <1>0, <2>0, <2>1 DEF rows, starting, HostDies
  <2>2. CASE LeaveToOther
    <3>1. UNCHANGED <<gen, question, carried, startup, retained>> /\ (Telling' => Telling)
      BY <2>2 DEF LeaveToOther, AfterLoss, rows, starting, Telling
    <3> QED BY <2>0, <3>1, SameAnswers
  <2>3. CASE RecoverWorker(proven, "recover")
    BY <1>7, <2>0, <2>3
  <2> QED BY <1>14, <2>1, <2>2, <2>3 DEF VisitEnds, rows
<1> QED BY <1>1, <1>2, <1>3, <1>4, <1>5, <1>6, <1>9, <1>10, <1>11, <1>12, <1>13, <1>14
        DEF Next, Owner, Startup, Recovery

-----------------------------------------------------------------------------
(* The theorems.                                                             *)

LEMMA InitHolds == Init => IInv
<1> SUFFICES ASSUME Init PROVE IInv
  OBVIOUS
<1>1. Shape /\ HostStates
  BY DEF Init, Shape, HostStates
<1>2. OwnRecovers
  BY DEF Init, OwnRecovers, OwnToCome
<1>3. Predecessors
  BY DEF Init, Predecessors
<1>4. Carrying
  BY DEF Init, Carrying, AnswersAreCarried
<1> QED BY <1>1, <1>2, <1>3, <1>4, InitTyped DEF IInv

LEMMA StepKeeps == IInv /\ [Next]_vars => IInv'
<1> SUFFICES ASSUME IInv, [Next]_vars PROVE IInv'
  OBVIOUS
<1>1. TypeOK' /\ Shape' /\ HostStates'
  BY StepTyped, StepShape, StepHost DEF IInv
<1>2. OwnRecovers' /\ Predecessors' /\ Carrying'
  BY StepOwn, StepProcesses, StepCarrying DEF IInv
<1> QED BY <1>1, <1>2 DEF IInv

(* Every reachable state is well typed and fits the start in flight, the    *)
(* recovery under way, the processes that are left and the answers that are *)
(* to be told (worker-supervisor startExecution, failed, recover).          *)
THEOREM Inductive == Spec => []IInv
BY InitHolds, StepKeeps, PTL DEF Spec

(* The rows, the supervisor's memory and the world are well typed, however  *)
(* often a generation or the host dies.                                     *)
THEOREM TypeCorrect == Spec => []TypeOK
<1>1. IInv => TypeOK
  BY DEF IInv
<1> QED BY <1>1, Inductive, PTL

(* recoverWorker starts the next generation only after the process of this  *)
(* one: two run together only if the end of the earlier could not be proven *)
(* or it was never recorded.                                                *)
THEOREM Alone == Spec => []RunsAlone
<1>1. ASSUME IInv PROVE RunsAlone
  <2>1. SUFFICES ASSUME NEW g \in Gen, NEW h \in Gen,
                        process[g] = "alive", process[h] = "alive", g < h
                 PROVE  g \in survived \/ g \notin recorded
    BY DEF RunsAlone
  <2>2. gen \in Nat /\ g \in Nat /\ h \in Nat
    BY <1>1, GenType, GenFacts DEF IInv
  <2>3. ~(h > gen)
    BY <1>1, <2>1 DEF IInv, Predecessors
  <2>4. g < gen
    BY <2>1, <2>2, <2>3
  <2> QED BY <1>1, <2>1, <2>4 DEF IInv, Predecessors
<1> QED BY <1>1, Inductive, PTL

(* retainedAnswers and observeWorkerAnswersReplayed tell every generation   *)
(* what was answered before its launch.                                     *)
THEOREM Told == Spec => []AnswersAreCarried
<1>1. IInv => AnswersAreCarried
  BY DEF IInv, Carrying
<1> QED BY <1>1, Inductive, PTL

-----------------------------------------------------------------------------
(* What is settled stays so.  A further invariant: the start in flight is    *)
(* the first of its generation and tells what was answered, and nothing was  *)
(* told to a generation to come.                                             *)

Beginning ==
    /\ startup = "launch" => process[gen] = "none"
    /\ startup \in {"spawned", "starting"} /\ work = "starting" => \A q \in retained : Given(q)
    /\ \A q \in Gen : carried[q] <= gen

\* observeWorkerAnswerDelivered, observeWorkerAnswersReplayed and
\* observeWorkerTerminal: an answer that was delivered stays so, and so does a
\* question that was withdrawn.
AnswersStand ==
    /\ \A q \in Gen : question[q] \in {"delivered", "cancelled"} => question'[q] = question[q]
    /\ \A q \in Gen : carried'[q] = carried[q] \/ (carried'[q] = gen /\ carried[q] <= gen)

\* A generation that was replaced is not written any more, by whatever promise
\* of it that is late, and no generation has a second process.
GenerationsStand ==
    /\ gen' \in {gen, gen + 1}
    /\ \A g \in Gen : g < gen => attempt'[g] = attempt[g]
    /\ \A g \in Gen : \/ process'[g] = process[g]
                      \/ process[g] = "alive" /\ process'[g] = "gone"
                      \/ process[g] = "none" /\ process'[g] = "alive" /\ g = gen

GenerationsMoveOn == GenerationsStand /\ AnswersStand

\* A question is withdrawn with its Worker.
Withdrawn == \A q \in Gen :
    question'[q] = question[q] \/ (question[q] \in {"open", "answered"} /\ question'[q] = "cancelled")

Ends == \A g \in Gen : process'[g] = process[g] \/ (process'[g] = "gone" /\ process[g] = "alive")

LEMMA SteadyMoves ==
    ASSUME TypeOK, Shape, Beginning, UNCHANGED <<gen, carried>>, Ends, Withdrawn,
           \A g \in Gen : g # gen => attempt'[g] = attempt[g],
           startup' \in {"none", "abandoning"} \/ UNCHANGED <<startup, retained>>,
           work' = "starting" => work = "starting" /\ UNCHANGED question
    PROVE  Beginning' /\ GenerationsMoveOn
<1>1. gen \in Nat /\ \A g \in Gen : g \in Nat
  BY GenType, GenFacts
<1>2. \A q \in Gen : carried[q] <= gen
  BY DEF Beginning
<1>3. Beginning'
  <2>1. startup' = "launch" => process'[gen] = "none"
    <3>1. SUFFICES ASSUME startup' = "launch" PROVE process'[gen] = "none"
      OBVIOUS
    <3>2. startup = "launch" /\ process[gen] = "none"
      BY <3>1 DEF Beginning
    <3>3. gen \in Gen
      BY <3>2, GenType DEF Shape
    <3> QED BY <3>2, <3>3 DEF Ends
  <2>2. startup' \in {"spawned", "starting"} /\ work' = "starting" => \A q \in retained' : Given(q)'
    BY DEF Beginning, Given
  <2> QED BY <1>2, <2>1, <2>2 DEF Beginning
<1>4. AnswersStand
  BY DEF AnswersStand, Withdrawn
<1>5. GenerationsStand
  BY <1>1 DEF GenerationsStand, Ends
<1> QED BY <1>3, <1>4, <1>5 DEF GenerationsMoveOn

\* Where nothing is settled.
LEMMA SameMoves ==
    ASSUME TypeOK, Shape, Beginning, UNCHANGED <<gen, carried, question, attempt>>, Ends,
           startup' \in {"none", "abandoning"} \/ UNCHANGED <<startup, retained>>,
           work' = "starting" => work = "starting"
    PROVE  Beginning' /\ GenerationsMoveOn
BY SteadyMoves DEF Withdrawn

LEMMA SettledMoves ==
    ASSUME TypeOK, Shape, Beginning, gen \in Gen, NEW result \in Terminal, SettleRows(gen, result),
           UNCHANGED <<gen, carried>>, Ends, startup' = "none" \/ UNCHANGED <<startup, retained>>
    PROVE  Beginning' /\ GenerationsMoveOn
<1>1. Withdrawn /\ \A g \in Gen : g # gen => attempt'[g] = attempt[g]
  BY DEF SettleRows, Withdrawn, TypeOK
<1>2. work' # "starting"
  BY DEF SettleRows, Terminal
<1> QED BY <1>1, <1>2, SteadyMoves

\* recoverWorker settles this generation and begins the next one.
LEMMA RecoveredMoves ==
    ASSUME TypeOK, Shape, Beginning, Predecessors, gen \in Gen, NEW proven \in BOOLEAN,
           NEW from \in Origins, RecoverWorker(proven, from), Ends
    PROVE  Beginning' /\ GenerationsMoveOn
<1>0. /\ gen \in Nat /\ gen # 0 /\ (\A g \in Gen : g \in Nat) /\ retained' = {} /\ UNCHANGED carried
      /\ \A q \in Gen : carried[q] \in Nat
  BY GenType, GenFacts, Constants DEF RecoverWorker, TypeOK
<1>1. CASE startup' = "none"
  <2>1. gen' = gen /\ work' # "starting"
    BY <1>0, <1>1, Recovered
  <2>2. Withdrawn /\ \A g \in Gen : g # gen => attempt'[g] = attempt[g]
    BY <1>1 DEF RecoverWorker, SettleRows, Withdrawn, TypeOK
  <2> QED BY <1>0, <1>1, <2>1, <2>2, SteadyMoves
<1>2. CASE startup' # "none"
  <2>1. /\ startup' = "launch" /\ gen' = gen + 1 /\ UNCHANGED question
        /\ attempt' = [attempt EXCEPT ![gen] = "continuity-lost",
                                      ![gen + 1] = "launch-intent-recorded"]
    BY <1>2 DEF RecoverWorker
  <2>2. gen + 1 \in Gen
    <3>1. gen + 1 \in 0..Generations
      BY <1>0, <2>1, Recovered
    <3> QED BY <1>0, <3>1, Constants DEF Gen
  <2>3. process'[gen + 1] = "none"
    BY <1>0, <2>2 DEF Predecessors, Ends
  <2>4. \A q \in Gen : carried[q] <= gen + 1
    <3>1. \A q \in Gen : carried[q] <= gen
      BY DEF Beginning
    <3> QED BY <1>0, <3>1
  <2>5. \A g \in Gen : g < gen => attempt'[g] = attempt[g]
    <3>1. \A g \in Gen : g < gen => g # gen /\ g # gen + 1
      BY <1>0
    <3> QED BY <2>1, <3>1 DEF TypeOK
  <2>6. Beginning'
    BY <1>0, <2>1, <2>3, <2>4 DEF Beginning
  <2>7. GenerationsStand
    BY <2>1, <2>5 DEF GenerationsStand, Ends
  <2> QED BY <1>0, <2>1, <2>6, <2>7 DEF GenerationsMoveOn, AnswersStand
<1> QED BY <1>1, <1>2

LEMMA EndedEnds ==
    ASSUME TypeOK, NEW g \in Gen, NEW proven \in BOOLEAN, Ended(g, proven) PROVE Ends
BY EndedTyped DEF Ends

LEMMA SameEnds == ASSUME UNCHANGED process PROVE Ends
BY DEF Ends

LEMMA StartupMoves ==
    ASSUME TypeOK, Shape, Beginning, Predecessors, Startup
    PROVE  Beginning' /\ GenerationsMoveOn
<1>0. gen \in Gen /\ gen \in Nat /\ \A g \in Gen : g \in Nat
  BY GenType, GenFacts
  DEF Startup, Launch, RecordProcess, StartAttempt, FailStart, FailLaunch, Abandoned, Shape
<1>1. ASSUME Launch PROVE Beginning' /\ GenerationsMoveOn
  <2>1. /\ UNCHANGED <<gen, question, carried>> /\ startup' = "spawned" /\ startup = "launch"
        /\ retained' = Retained
        /\ \A g \in Gen : g # gen => attempt'[g] = attempt[g] /\ process'[g] = process[g]
        /\ process'[gen] \in {"none", "alive"}
    BY <1>0, <1>1 DEF Launch, TypeOK
  <2>2. process[gen] = "none"
    BY <2>1 DEF Beginning
  <2>3. GenerationsStand
    <3>1. \A g \in Gen : g < gen => attempt'[g] = attempt[g]
      BY <1>0, <2>1
    <3>2. ASSUME NEW g \in Gen
          PROVE  process'[g] = process[g] \/ (process[g] = "none" /\ process'[g] = "alive" /\ g = gen)
      BY <2>1, <2>2
    <3> QED BY <2>1, <3>1, <3>2 DEF GenerationsStand
  <2>4. \A q \in retained' : Given(q)'
    BY <2>1 DEF Retained, Given
  <2>5. Beginning'
    BY <2>1, <2>4 DEF Beginning
  <2> QED BY <2>1, <2>3, <2>5 DEF GenerationsMoveOn, AnswersStand
<1>2. ASSUME RecordProcess PROVE Beginning' /\ GenerationsMoveOn
  <2>1. /\ UNCHANGED <<work, gen, question, carried, process, retained>>
        /\ startup' = "starting" /\ startup = "spawned"
        /\ \A g \in Gen : g # gen => attempt'[g] = attempt[g]
    BY <1>0, <1>2 DEF RecordProcess, world, TypeOK
  <2>2. GenerationsStand
    BY <1>0, <2>1 DEF GenerationsStand
  <2>3. Beginning'
    BY <2>1 DEF Beginning, Given
  <2> QED BY <2>1, <2>2, <2>3 DEF GenerationsMoveOn, AnswersStand
<1>3. ASSUME StartAttempt PROVE Beginning' /\ GenerationsMoveOn
  <2>1. /\ UNCHANGED <<gen, process>> /\ startup' = "none"
        /\ startup = "starting" /\ work = "starting"
        /\ \A g \in Gen : g # gen => attempt'[g] = attempt[g]
        /\ \A q \in Gen : IF q \in retained THEN question'[q] = "delivered" /\ carried'[q] = gen
                          ELSE question'[q] = question[q] /\ carried'[q] = carried[q]
    BY <1>0, <1>3 DEF StartAttempt, world, TypeOK
  <2>2. \A q \in retained : question[q] \in {"answered", "delivered"}
    BY <2>1 DEF Beginning, Given
  <2>3. \A q \in Gen : carried[q] <= gen
    BY DEF Beginning
  <2>4. GenerationsStand
    BY <1>0, <2>1 DEF GenerationsStand
  <2>5. AnswersStand
    BY <2>1, <2>2, <2>3 DEF AnswersStand
  <2>6. \A q \in Gen : carried'[q] <= gen'
    BY <1>0, <2>1, <2>3
  <2>7. Beginning'
    BY <2>1, <2>6 DEF Beginning
  <2> QED BY <2>4, <2>5, <2>7 DEF GenerationsMoveOn
<1>4. ASSUME FailStart PROVE Beginning' /\ GenerationsMoveOn
  BY <1>4, SameMoves, SameEnds DEF FailStart, rows, world
<1>5. ASSUME FailLaunch PROVE Beginning' /\ GenerationsMoveOn
  <2>1. /\ SettleRows(gen, "failed") /\ UNCHANGED <<gen, carried, process>> /\ startup' = "none"
        /\ "failed" \in Terminal
    BY <1>5 DEF FailLaunch, HostDies, world, Terminal
  <2> QED BY <1>0, <2>1, SettledMoves, SameEnds
<1>6. ASSUME NEW proven \in BOOLEAN, Abandoned(proven) PROVE Beginning' /\ GenerationsMoveOn
  <2>1. Ended(gen, proven) /\ RecoverWorker(proven, origin) /\ origin \in Origins
    BY <1>6 DEF Abandoned, TypeOK
  <2> QED BY <1>0, <2>1, EndedEnds, RecoveredMoves
<1> QED BY <1>1, <1>2, <1>3, <1>4, <1>5, <1>6 DEF Startup

LEMMA PromiseMoves ==
    ASSUME TypeOK, Shape, Beginning, Predecessors, NEW p \in pending, Promise(p)
    PROVE  Beginning' /\ GenerationsMoveOn
<1>0. p.gen \in Gen /\ gen \in Gen /\ gen # 0 /\ gen \in Nat
  <2>1. p.gen \in Gen /\ p.gen <= gen
    BY PromiseTyped DEF Shape
  <2> QED BY <2>1, GenFacts, GenType
<1>1. ASSUME NEW proven \in BOOLEAN, CompletedEnds(p, proven) PROVE Beginning' /\ GenerationsMoveOn
  <2>1. UNCHANGED <<startup, retained>> /\ Ends
    BY <1>0, <1>1, EndedEnds DEF CompletedEnds, starting
  <2>2. CASE UNCHANGED rows
    BY <2>1, <2>2, SameMoves DEF rows
  <2>3. CASE ~UNCHANGED rows
    <3>1. SettleRows(p.gen, Outcome(p.status)) /\ UNCHANGED <<gen, carried>> /\ p.gen = gen
      BY <1>1, <2>3 DEF CompletedEnds, Stale
    <3>2. Outcome(p.status) \in Terminal
      BY <1>1, PromiseTyped, OutcomeTyped DEF CompletedEnds, Shape
    <3> QED BY <1>0, <2>1, <3>1, <3>2, SettledMoves
  <2> QED BY <2>2, <2>3
<1>2. ASSUME NEW proven \in BOOLEAN, CutEnds(p, proven) PROVE Beginning' /\ GenerationsMoveOn
  <2>1. UNCHANGED <<startup, retained>> /\ Ends
    BY <1>0, <1>2, EndedEnds DEF CutEnds, starting
  <2>2. CASE UNCHANGED rows
    BY <2>1, <2>2, SameMoves DEF rows
  <2>3. CASE ~UNCHANGED rows
    <3>1. SettleRows(gen, Outcome("interrupted")) /\ UNCHANGED <<gen, carried>>
      BY <1>2, <2>3 DEF CutEnds
    <3> QED BY <1>0, <2>1, <3>1, OutcomeTyped, SettledMoves
  <2> QED BY <2>2, <2>3
<1>3. ASSUME NEW proven \in BOOLEAN, FailedEnds(p, proven) PROVE Beginning' /\ GenerationsMoveOn
  <2>1. Ends
    BY <1>0, <1>3, EndedEnds DEF FailedEnds
  <2>2. CASE p.gen = gen
    BY <1>0, <1>3, <2>1, <2>2, RecoveredMoves DEF FailedEnds, Origins
  <2>3. CASE p.gen # gen
    BY <1>3, <2>1, <2>3, SameMoves DEF FailedEnds, HostDies, rows
  <2> QED BY <2>2, <2>3
<1>4. ASSUME Interrupted(p) \/ InterruptFails(p) PROVE Beginning' /\ GenerationsMoveOn
  BY <1>4, SameMoves, SameEnds DEF Interrupted, InterruptFails, rows, starting, world
<1>5. ASSUME NEW confirmed \in BOOLEAN, Deliver(p, confirmed) PROVE Beginning' /\ GenerationsMoveOn
  <2>1. UNCHANGED <<gen, attempt, startup, retained, process>>
    BY <1>5 DEF Deliver, starting, world
  <2>2. CASE UNCHANGED <<question, carried, work>>
    BY <2>1, <2>2, SameMoves, SameEnds
  <2>3. CASE ~UNCHANGED <<question, carried, work>>
    <3>1. /\ p.gen = gen /\ question[gen] = "answered"
          /\ question' = [question EXCEPT ![gen] = "delivered"]
          /\ carried' = [carried EXCEPT ![gen] = gen]
          /\ work' = IF work = "waiting-question" THEN "running" ELSE work
      BY <1>5, <2>3 DEF Deliver
    <3>2. /\ carried'[gen] = gen /\ question'[gen] = "delivered"
          /\ \A q \in Gen \ {gen} : carried'[q] = carried[q] /\ question'[q] = question[q]
      BY <1>0, <3>1 DEF TypeOK
    <3>3. \A q \in Gen : carried[q] <= gen
      BY DEF Beginning
    <3>4. AnswersStand
      BY <3>1, <3>2, <3>3 DEF AnswersStand
    <3>5. \A q \in Gen : carried'[q] <= gen
      BY <1>0, <3>2, <3>3
    <3>6. \A q \in Gen : Given(q) => Given(q)'
      BY <3>1, <3>2 DEF Given
    <3>7. startup' \in {"spawned", "starting"} /\ work' = "starting" => \A q \in retained' : Given(q)'
      BY <2>1, <3>1, <3>6 DEF Beginning, TypeOK
    <3>8. Beginning'
      BY <2>1, <3>5, <3>7 DEF Beginning
    <3>9. GenerationsStand
      BY <2>1 DEF GenerationsStand
    <3> QED BY <3>4, <3>8, <3>9 DEF GenerationsMoveOn
  <2> QED BY <2>2, <2>3
<1> QED BY <1>1, <1>2, <1>3, <1>4, <1>5 DEF Promise, Settles

LEMMA OwnerMoves ==
    ASSUME TypeOK, Shape, Beginning, Predecessors, Owner \/ Native
    PROVE  Beginning' /\ GenerationsMoveOn
<1>1. ASSUME Delegate PROVE Beginning' /\ GenerationsMoveOn
  <2>1. /\ gen = 0 /\ gen' = gen + 1 /\ UNCHANGED <<process, question, carried, retained>>
        /\ startup' = "launch"
    BY <1>1 DEF Delegate, world
  <2>2. 1 \in Gen /\ \A g \in Gen : g \in Nat /\ g # 0
    BY Constants, GenFacts DEF Gen
  <2>3. process[1] = "none"
    BY <2>1, <2>2 DEF Predecessors
  <2>4. \A q \in Gen : carried[q] <= 1
    <3>1. \A q \in Gen : carried[q] \in Nat /\ carried[q] <= 0
      BY <2>1, Constants DEF Beginning, TypeOK
    <3> QED BY <3>1
  <2>5. Beginning'
    BY <2>1, <2>3, <2>4 DEF Beginning
  <2>6. \A g \in Gen : ~(g < gen)
    BY <2>1, <2>2
  <2> QED BY <2>1, <2>5, <2>6 DEF GenerationsMoveOn, GenerationsStand, AnswersStand
<1>2. ASSUME Cancel PROVE Beginning' /\ GenerationsMoveOn
  BY <1>2, SameMoves, SameEnds DEF Cancel, starting, world
<1>3. ASSUME NEW q \in Gen, Answer(q) PROVE Beginning' /\ GenerationsMoveOn
  <2>1. /\ question[q] = "open" /\ question'[q] = "answered"
        /\ \A r \in Gen \ {q} : question'[r] = question[r]
        /\ UNCHANGED <<work, gen, attempt, carried, process, startup, retained>>
    BY <1>3 DEF Answer, starting, TypeOK
  <2>2. \A r \in Gen : Given(r) => Given(r)'
    BY <2>1 DEF Given
  <2>3. Beginning'
    BY <2>1, <2>2 DEF Beginning, TypeOK
  <2> QED BY <2>1, <2>3 DEF GenerationsMoveOn, GenerationsStand, AnswersStand
<1>4. ASSUME NEW g \in Gen, Ask(g) PROVE Beginning' /\ GenerationsMoveOn
  <2>1. /\ question[g] = "none" /\ question'[g] = "open"
        /\ \A r \in Gen \ {g} : question'[r] = question[r]
        /\ UNCHANGED <<gen, attempt, carried, process, startup, retained>>
        /\ work' = "waiting-question"
    BY <1>4 DEF Ask, starting, world, TypeOK
  <2>2. Beginning'
    BY <2>1 DEF Beginning
  <2> QED BY <2>1, <2>2 DEF GenerationsMoveOn, GenerationsStand, AnswersStand
<1>5. ASSUME NEW g \in Gen, ProcessExits(g) PROVE Beginning' /\ GenerationsMoveOn
  <2>1. Ends
    BY <1>5 DEF ProcessExits, Ends, TypeOK
  <2> QED BY <1>5, <2>1, SameMoves DEF ProcessExits, rows, starting
<1>6. ASSUME NEW g \in Gen, \/ LoseConnection(g)
                            \/ \E status \in {"completed", "interrupted"} : EndTurn(g, status)
      PROVE  Beginning' /\ GenerationsMoveOn
  BY <1>6, SameMoves, SameEnds DEF LoseConnection, EndTurn, rows, starting, world
<1> QED BY <1>1, <1>2, <1>3, <1>4, <1>5, <1>6 DEF Owner, Native

LEMMA RecoveryMoves ==
    ASSUME TypeOK, Shape, HostStates, OwnRecovers, Beginning, Predecessors, Recovery
    PROVE  Beginning' /\ GenerationsMoveOn
<1>1. ASSUME Visit \/ Pass \/ Serve PROVE Beginning' /\ GenerationsMoveOn
  BY <1>1, SameMoves, SameEnds DEF Visit, Pass, Serve, rows, starting, world
<1>2. ASSUME Restart PROVE Beginning' /\ GenerationsMoveOn
  <2>1. /\ UNCHANGED <<gen, question, carried, process, startup, retained>>
        /\ work' = "starting" => work = "starting"
        /\ \A g \in Gen : g # gen => attempt'[g] = attempt[g]
    BY <1>2 DEF Restart, starting, world, TypeOK
  <2> QED BY <2>1, SteadyMoves, SameEnds DEF Withdrawn
<1>3. ASSUME NEW proven \in BOOLEAN, VisitEnds(proven) PROVE Beginning' /\ GenerationsMoveOn
  <2>0. gen \in Gen /\ "recover" \in Origins
    BY <1>3, GenType DEF VisitEnds, HostStates, Origins
  <2>1. Ends
    <3>1. Abandons(visit.gen, proven)
      BY <1>3 DEF VisitEnds
    <3>2. visit.gen \in recorded => visit.gen \in Gen
      BY DEF TypeOK
    <3> QED BY <3>1, <3>2, EndedEnds, SameEnds DEF Abandons
  <2>2. CASE UNCHANGED rows /\ (UNCHANGED starting \/ HostDies)
    BY <2>1, <2>2, SameMoves DEF rows, starting, HostDies
  <2>3. CASE LeaveToOther
    <3>1. /\ UNCHANGED <<gen, question, carried, startup, retained>>
          /\ work' = "starting" => work = "starting"
          /\ \A g \in Gen : g # gen => attempt'[g] = attempt[g]
      BY <2>3 DEF LeaveToOther, AfterLoss, rows, starting, TypeOK
    <3> QED BY <2>1, <3>1, SteadyMoves DEF Withdrawn
  <2>4. CASE RecoverWorker(proven, "recover")
    BY <2>0, <2>1, <2>4, RecoveredMoves
  <2> QED BY <1>3, <2>2, <2>3, <2>4 DEF VisitEnds, rows
<1> QED BY <1>1, <1>2, <1>3 DEF Recovery

LEMMA StepMoves == IInv /\ Beginning /\ [Next]_vars => Beginning' /\ GenerationsMoveOn
<1> SUFFICES ASSUME IInv, Beginning, [Next]_vars PROVE Beginning' /\ GenerationsMoveOn
  OBVIOUS
<1>1. TypeOK /\ Shape /\ HostStates /\ OwnRecovers /\ Predecessors
  BY DEF IInv
<1>2. ASSUME Crash \/ UNCHANGED vars PROVE Beginning' /\ GenerationsMoveOn
  BY <1>1, <1>2, SameMoves, SameEnds DEF Crash, HostDies, rows, world, vars
<1> QED BY <1>1, <1>2, OwnerMoves, StartupMoves, PromiseMoves, RecoveryMoves DEF Next

LEMMA InitBeginning == Init => Beginning
BY DEF Init, Beginning

THEOREM AlwaysBeginning == Spec => []Beginning
BY InitBeginning, StepMoves, Inductive, PTL DEF Spec

(* Generations only follow one another: whatever promise of a replaced       *)
(* generation is late (completed, failed, the catch of an interruption), its *)
(* attempt is not written again (observeWorkerTerminal, stale), its process  *)
(* is not started again, an answer that was delivered is never taken back    *)
(* and is told to later generations only.                                    *)
THEOREM MovesOn == Spec => [][GenerationsMoveOn]_vars
<1>1. IInv /\ Beginning /\ [Next]_vars => [GenerationsMoveOn]_vars
  BY StepMoves
<1> QED BY <1>1, Inductive, AlwaysBeginning, PTL DEF Spec
===============================================================================
