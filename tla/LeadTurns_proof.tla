--------------------------- MODULE LeadTurns_proof ---------------------------
(* The safety of LeadTurns, for any inputs, observations and models, and for  *)
(* any number of deaths of the host.                                          *)
EXTENDS LeadTurns, TLAPS

-----------------------------------------------------------------------------
(* The inductive invariant.                                                   *)

\* There is one drain loop: it selects, has left, or waits for its turn.  The
\* draining flag tells that it is there; a host that does not serve has none.
OneLoop ==
    /\ top + exiting <= 1
    /\ \A t \in Turn : Busy(t) => top + exiting = 0
    /\ ~draining => top + exiting = 0 /\ \A t \in Turn : ~Busy(t)
    /\ host # "up" => ~draining
    /\ OneTurnAtATime

\* A closed scheduler has been closed in this life of the host.
ClosedOnce == /\ closed /\ host = "up" => lives < MaxLives
              /\ host = "recovering" => ~closed

\* A queued input waits once, and has not begun.
Waiting ==
    /\ \A k \in 1..Len(queue) : step[queue[k]] = "queued"
    /\ \A j, k \in 1..Len(queue) : j # k => queue[j] # queue[k]

\* How far a turn has come says whether it has been answered.
Answered ==
    /\ \A t \in Turn : /\ step[t] \in {"recorded", "inferring", "failing"} => t \notin response
                       /\ step[t] \in {"responded", "answered"} => t \in response
                       /\ step[t] = "inferring" => attempt[t] = "started"
    /\ \A i \in Input : step[i] \in {"idle", "queued"} => i \notin response
    /\ \A e \in Event : receipt[e] = "none" => e \notin response
    /\ ReceiptIsTruthful

IInv == TypeOK /\ OneLoop /\ ClosedOnce /\ Waiting /\ Answered

-----------------------------------------------------------------------------
(* Type correctness.                                                         *)

LEMMA Constants ==
    Candidates \in Nat /\ Candidates > 0 /\ MaxLives \in Nat
    /\ (\A i \in Input : i \notin Event)
BY TurnAssumption

LEMMA WokenTyped ==
    ASSUME TypeOK, Woken PROVE draining' \in BOOLEAN /\ wake' \in BOOLEAN /\ top' \in Nat
BY DEF TypeOK, Woken

LEMMA QueueTyped ==
    ASSUME TypeOK
    PROVE  /\ queue # <<>> => Head(queue) \in Input /\ Tail(queue) \in Seq(Input)
           /\ \A i \in Input : Append(queue, i) \in Seq(Input)
BY DEF TypeOK

LEMMA InitTyped == Init => TypeOK
<1> SUFFICES ASSUME Init PROVE TypeOK
  OBVIOUS
<1>1. lives \in 0..MaxLives + 1 /\ tries \in [Turn -> 0..Candidates]
  BY Constants DEF Init
<1>2. step \in [Turn -> Steps] /\ queue \in Seq(Input)
  BY DEF Init, Steps
<1>3. top \in Nat /\ exiting \in Nat
  BY DEF Init
<1> QED BY <1>1, <1>2, <1>3 DEF Init, TypeOK

LEMMA LoopTyped ==
    ASSUME TypeOK, Loop PROVE TypeOK'
<1>1. ASSUME SelectOwner PROVE TypeOK'
  <2>1. Head(queue) \in Turn /\ queue' \in Seq(Input)
    BY <1>1, QueueTyped DEF SelectOwner, Turn
  <2>2. step' \in [Turn -> Steps]
    BY <1>1, <2>1 DEF SelectOwner, MessageRecorded, TypeOK, Steps
  <2>3. top' \in Nat
    BY <1>1 DEF SelectOwner, MaySelect, TypeOK
  <2> QED BY <1>1, <2>1, <2>2, <2>3 DEF SelectOwner, TypeOK
<1>2. ASSUME NEW e \in Event, SelectContinuation(e) PROVE TypeOK'
  <2>1. e \in Turn
    BY DEF Turn
  <2>2. step' \in [Turn -> Steps] /\ tries' \in [Turn -> 0..Candidates]
    BY <1>2, <2>1, Constants DEF SelectContinuation, TypeOK, Steps
  <2>3. top' \in Nat
    BY <1>2 DEF SelectContinuation, MaySelect, TypeOK
  <2> QED BY <1>2, <2>2, <2>3 DEF SelectContinuation, TypeOK
<1>3. ASSUME Leave PROVE TypeOK'
  BY <1>3 DEF Leave, TypeOK, rows
<1>4. ASSUME Finally PROVE TypeOK'
  <2>1. top' \in Nat /\ exiting' \in Nat
    BY <1>4 DEF Finally, TypeOK
  <2>2. draining' \in BOOLEAN /\ wake' \in BOOLEAN
    BY <1>4 DEF Finally, TypeOK
  <2> QED BY <1>4, <2>1, <2>2 DEF Finally, TypeOK, rows
<1> QED BY <1>1, <1>2, <1>3, <1>4 DEF Loop

LEMMA WorkTyped ==
    ASSUME TypeOK, NEW t \in Turn, Work(t) PROVE TypeOK'
<1>1. ASSUME Infer(t) PROVE TypeOK'
  <2>1. tries' \in [Turn -> 0..Candidates]
    BY <1>1, Constants DEF Infer, TypeOK
  <2>2. step' \in [Turn -> Steps]
    BY <1>1 DEF Infer, TypeOK, Steps
  <2> QED BY <1>1, <2>1, <2>2 DEF Infer, AttemptBecomes, TypeOK
<1>2. ASSUME SkipCandidate(t) PROVE TypeOK'
  <2>1. tries' \in [Turn -> 0..Candidates]
    BY <1>2, Constants DEF SkipCandidate, TypeOK
  <2> QED BY <1>2, <2>1 DEF SkipCandidate, TypeOK, rows
<1>3. ASSUME Exhaust(t) PROVE TypeOK'
  BY <1>3 DEF Exhaust, TypeOK, rows, Steps
<1>4. ASSUME Respond(t) PROVE TypeOK'
  BY <1>4 DEF Respond, TypeOK, Steps
<1>5. ASSUME Settle(t) PROVE TypeOK'
  BY <1>5 DEF Settle, AttemptBecomes, TypeOK, Steps
<1>6. ASSUME NEW fallback \in BOOLEAN, FailAttempt(t, fallback) PROVE TypeOK'
  BY <1>6 DEF FailAttempt, AttemptBecomes, TypeOK, Steps
<1>7. ASSUME EndTurn(t) PROVE TypeOK'
  <2>1. receipt' \in [Event -> {"none", "started", "completed", "failed"}]
    BY <1>7 DEF EndTurn, Settled, TypeOK
  <2> QED BY <1>7, <2>1 DEF EndTurn, Over, TypeOK, Steps
<1> QED BY <1>1, <1>2, <1>3, <1>4, <1>5, <1>6, <1>7 DEF Work

LEMMA RecoveryTyped ==
    ASSUME TypeOK, Recovery PROVE TypeOK'
<1>1. ASSUME Restart PROVE TypeOK'
  BY <1>1 DEF Restart, TypeOK, rows
<1>4. ASSUME Serve PROVE TypeOK'
  <2>1. top' \in Nat
    BY <1>4 DEF Serve
  <2> QED BY <1>4, <2>1 DEF Serve, TypeOK, rows
<1>2. ASSUME NEW t \in Turn, RecoverAttempt(t) PROVE TypeOK'
  BY <1>2 DEF RecoverAttempt, AttemptBecomes, TypeOK, scheduler
<1>3. ASSUME NEW e \in Event, RecoverReceipt(e) PROVE TypeOK'
  BY <1>3 DEF RecoverReceipt, Recovered, TypeOK, scheduler
<1> QED BY <1>1, <1>2, <1>3, <1>4 DEF Recovery

LEMMA StepTyped ==
    ASSUME TypeOK, ClosedOnce, [Next]_vars PROVE TypeOK'
<1>1. ASSUME NEW i \in Input, Submit(i) PROVE TypeOK'
  <2>1. i \in Turn
    BY DEF Turn
  <2>2. step' \in [Turn -> Steps]
    <3>1. step' \in {[step EXCEPT ![i] = "rejected"], [step EXCEPT ![i] = "queued"]}
      BY <1>1 DEF Submit
    <3> QED BY <2>1, <3>1 DEF TypeOK, Steps
  <2>3. queue' \in Seq(Input)
    BY <1>1, QueueTyped DEF Submit, TypeOK
  <2>4. aborted' \subseteq Turn
    BY <1>1 DEF Submit, Yield, TypeOK, Turn
  <2>5. draining' \in BOOLEAN /\ wake' \in BOOLEAN /\ top' \in Nat
    BY <1>1, WokenTyped DEF Submit, TypeOK
  <2> QED BY <1>1, <2>2, <2>3, <2>4, <2>5 DEF Submit, TypeOK, rows
<1>2. ASSUME NEW t \in Turn, Interrupt(t) PROVE TypeOK'
  BY <1>2 DEF Interrupt, TypeOK, rows
<1>3. ASSUME NEW e \in Event, Withdraw(e) \/ Resume(e) PROVE TypeOK'
  BY <1>3 DEF Withdraw, Resume, TypeOK, scheduler
<1>4. ASSUME NEW e \in Event, NEW told \in BOOLEAN, Observe(e, told) PROVE TypeOK'
  <2>1. draining' \in BOOLEAN /\ wake' \in BOOLEAN /\ top' \in Nat
    BY <1>4, WokenTyped DEF Observe, TypeOK
  <2> QED BY <1>4, <2>1 DEF Observe, TypeOK
<1>5. ASSUME Close PROVE TypeOK'
  <2>1. step' \in [Turn -> Steps] /\ aborted' \subseteq Turn
    BY <1>5 DEF Close, TypeOK, Steps
  <2> QED BY <1>5, <2>1 DEF Close, TypeOK, rows
<1>6. ASSUME Stop \/ Crash PROVE TypeOK'
  <2>1. Die /\ lives < MaxLives
    BY <1>6 DEF Stop, Crash, ClosedOnce
  <2>2. lives' \in 0..MaxLives + 1
    BY <2>1, Constants DEF Die, TypeOK
  <2>3. step' \in [Turn -> Steps]
    BY <2>1 DEF Die, Forget, Steps
  <2>4. /\ queue' \in Seq(Input) /\ aborted' \subseteq Turn
        /\ top' \in Nat /\ exiting' \in Nat
    BY <2>1 DEF Die, Forget
  <2>5. UNCHANGED <<row, receipt, attempt, response, tries, closed>>
        /\ draining' = FALSE /\ wake' = FALSE /\ host' = "down"
    BY <2>1 DEF Die, Forget, rows
  <2> QED BY <2>2, <2>3, <2>4, <2>5 DEF TypeOK
<1>7. ASSUME UNCHANGED vars PROVE TypeOK'
  BY <1>7 DEF vars, TypeOK
<1> QED BY <1>1, <1>2, <1>3, <1>4, <1>5, <1>6, <1>7, LoopTyped, WorkTyped, RecoveryTyped DEF Next

-----------------------------------------------------------------------------
(* One loop, one turn.                                                       *)

\* A step that leaves every turn that is not at work idle, and the loop alone.
LEMMA SameLoop ==
    ASSUME TypeOK, OneLoop, \A t \in Turn : Busy(t)' => Busy(t),
           UNCHANGED <<top, exiting, draining, host>>
    PROVE  OneLoop'
BY DEF OneLoop, OneTurnAtATime

LEMMA WokenLoop ==
    ASSUME TypeOK, OneLoop, host = "up", \A t \in Turn : Busy(t)' => Busy(t),
           Woken, UNCHANGED <<exiting, host>>
    PROVE  OneLoop'
BY DEF OneLoop, OneTurnAtATime, Woken, TypeOK

\* The loop gives way to a turn.
LEMMA SelectedLoop ==
    ASSUME TypeOK, OneLoop, MaySelect, NEW u \in Turn, \A t \in Turn : Busy(t)' => Busy(t) \/ t = u,
           top' = top - 1, UNCHANGED <<exiting, draining, host>>
    PROVE  OneLoop'
<1>1. top = 1 /\ exiting = 0 /\ draining /\ \A t \in Turn : ~Busy(t)
  BY DEF OneLoop, MaySelect, TypeOK
<1> QED BY <1>1 DEF OneLoop, OneTurnAtATime, MaySelect

LEMMA LoopLoop == ASSUME TypeOK, OneLoop, Loop PROVE OneLoop'
<1>1. ASSUME SelectOwner PROVE OneLoop'
  <2>1. Head(queue) \in Turn
    BY <1>1, QueueTyped DEF SelectOwner, Turn
  <2>2. \A t \in Turn : Busy(t)' => Busy(t) \/ t = Head(queue)
    BY <1>1, <2>1 DEF SelectOwner, MessageRecorded, Busy, TypeOK
  <2> QED BY <1>1, <2>1, <2>2, SelectedLoop DEF SelectOwner
<1>2. ASSUME NEW e \in Event, SelectContinuation(e) PROVE OneLoop'
  <2>1. e \in Turn
    BY DEF Turn
  <2>2. \A t \in Turn : Busy(t)' => Busy(t) \/ t = e
    BY <1>2, <2>1 DEF SelectContinuation, Busy, TypeOK
  <2> QED BY <1>2, <2>1, <2>2, SelectedLoop DEF SelectContinuation
<1>3. ASSUME Leave PROVE OneLoop'
  BY <1>3 DEF Leave, OneLoop, OneTurnAtATime, Busy, TypeOK
<1>4. ASSUME Finally PROVE OneLoop'
  BY <1>4 DEF Finally, OneLoop, OneTurnAtATime, Busy, TypeOK
<1> QED BY <1>1, <1>2, <1>3, <1>4 DEF Loop

LEMMA WorkLoop == ASSUME TypeOK, OneLoop, NEW t \in Turn, Work(t) PROVE OneLoop'
<1>1. ASSUME EndTurn(t) PROVE OneLoop'
  <2>1. Busy(t) /\ host = "up"
    BY <1>1 DEF EndTurn, Busy, Working
  <2>2. top = 0 /\ exiting = 0 /\ draining /\ \A s \in Turn : Busy(s) => s = t
    BY <2>1 DEF OneLoop, OneTurnAtATime, TypeOK
  <2>3. \A s \in Turn : ~Busy(s)'
    BY <1>1, <2>2 DEF EndTurn, Over, Busy, Working, TypeOK
  <2> QED BY <1>1, <2>1, <2>2, <2>3 DEF EndTurn, Over, OneLoop, OneTurnAtATime
<1>2. ASSUME ~EndTurn(t) PROVE OneLoop'
  <2>1. UNCHANGED <<top, exiting, draining, host>>
    BY <1>2 DEF Work, Infer, SkipCandidate, Exhaust, Respond, Settle, FailAttempt
  <2>2. Busy(t)
    BY <1>2 DEF Work, Infer, SkipCandidate, Exhaust, Respond, Settle, FailAttempt, Busy, Working
  <2>3. \A s \in Turn : s # t => step'[s] = step[s]
    BY <1>2 DEF Work, Infer, SkipCandidate, Exhaust, Respond, Settle, FailAttempt, TypeOK
  <2>4. \A s \in Turn : Busy(s)' => Busy(s)
    BY <2>2, <2>3 DEF Busy
  <2> QED BY <2>1, <2>4, SameLoop
<1> QED BY <1>1, <1>2

LEMMA StepLoop == ASSUME TypeOK, OneLoop, [Next]_vars PROVE OneLoop'
<1>1. ASSUME NEW i \in Input, Submit(i) PROVE OneLoop'
  <2>1. \A t \in Turn : Busy(t)' => Busy(t)
    BY <1>1 DEF Submit, Busy, Working, TypeOK
  <2> QED BY <1>1, <2>1, SameLoop, WokenLoop DEF Submit
<1>2. ASSUME \/ \E t \in Turn : Interrupt(t)
             \/ \E e \in Event : Withdraw(e) \/ Resume(e)
             \/ \E t \in Turn : RecoverAttempt(t)
             \/ \E e \in Event : RecoverReceipt(e)
             \/ UNCHANGED vars
      PROVE  OneLoop'
  BY <1>2, SameLoop
  DEF Interrupt, Withdraw, Resume, RecoverAttempt, RecoverReceipt, scheduler, vars, Busy
<1>3. ASSUME NEW e \in Event, NEW told \in BOOLEAN, Observe(e, told) PROVE OneLoop'
  <2>1. \A t \in Turn : Busy(t)' => Busy(t)
    BY <1>3 DEF Observe, Busy
  <2> QED BY <1>3, <2>1, SameLoop, WokenLoop DEF Observe
<1>4. ASSUME Close PROVE OneLoop'
  <2>1. \A t \in Turn : Busy(t)' => Busy(t)
    BY <1>4 DEF Close, Busy, Working
  <2> QED BY <1>4, <2>1, SameLoop DEF Close
<1>5. ASSUME Stop \/ Crash PROVE OneLoop'
  <2>1. \A t \in Turn : ~Busy(t)'
    BY <1>5 DEF Stop, Crash, Die, Forget, Busy, Working
  <2> QED BY <1>5, <2>1 DEF Stop, Crash, Die, Forget, OneLoop, OneTurnAtATime
<1>6. ASSUME Restart PROVE OneLoop'
  BY <1>6 DEF Restart, OneLoop, OneTurnAtATime, Busy
<1>7. ASSUME Serve PROVE OneLoop'
  BY <1>7 DEF Serve, OneLoop, OneTurnAtATime, Busy, TypeOK
<1> QED BY <1>1, <1>2, <1>3, <1>4, <1>5, <1>6, <1>7, LoopLoop, WorkLoop DEF Next, Recovery

-----------------------------------------------------------------------------
(* The queue and the answers.                                                *)

LEMMA StepClosed == ASSUME TypeOK, ClosedOnce, [Next]_vars PROVE ClosedOnce'
<1>1. ASSUME Close PROVE ClosedOnce'
  BY <1>1 DEF Close, ClosedOnce
<1>2. ASSUME Stop \/ Crash \/ Restart PROVE ClosedOnce'
  BY <1>2 DEF Stop, Crash, Die, Restart, ClosedOnce
<1>3. ASSUME Serve PROVE ClosedOnce'
  BY <1>3 DEF Serve, ClosedOnce
<1>4. ASSUME UNCHANGED <<closed, host, lives>> PROVE ClosedOnce'
  BY <1>4 DEF ClosedOnce
<1>5. ASSUME NEW i \in Input, Submit(i) PROVE ClosedOnce'
  BY <1>4, <1>5 DEF Submit
<1>6. ASSUME NEW t \in Turn, Interrupt(t) \/ Work(t) \/ RecoverAttempt(t) PROVE ClosedOnce'
  BY <1>4, <1>6 DEF Interrupt, Work, Infer, SkipCandidate, Exhaust, Respond, Settle,
     FailAttempt, EndTurn, RecoverAttempt, scheduler
<1>7. ASSUME NEW e \in Event,
             Withdraw(e) \/ Resume(e) \/ (\E told \in BOOLEAN : Observe(e, told))
             \/ RecoverReceipt(e)
      PROVE  ClosedOnce'
  BY <1>4, <1>7 DEF Withdraw, Resume, Observe, RecoverReceipt, scheduler
<1>8. ASSUME Loop PROVE ClosedOnce'
  BY <1>4, <1>8 DEF Loop, SelectOwner, SelectContinuation, Leave, Finally
<1>9. ASSUME UNCHANGED vars PROVE ClosedOnce'
  BY <1>4, <1>9 DEF vars
<1> QED BY <1>1, <1>2, <1>3, <1>5, <1>6, <1>7, <1>8, <1>9 DEF Next, Recovery

LEMMA QueueElements == TypeOK => \A k \in 1..Len(queue) : queue[k] \in Input /\ queue[k] \in Turn
BY DEF TypeOK, Turn

LEMMA Appended ==
    ASSUME NEW q \in Seq(Input), NEW i \in Input
    PROVE  /\ Len(Append(q, i)) = Len(q) + 1
           /\ \A k \in 1..Len(q) : Append(q, i)[k] = q[k]
           /\ Append(q, i)[Len(q) + 1] = i
OBVIOUS

LEMMA Tailed ==
    ASSUME NEW q \in Seq(Input), q # <<>>
    PROVE  /\ Len(Tail(q)) = Len(q) - 1 /\ Len(q) \in Nat \ {0}
           /\ \A k \in 1..Len(q) - 1 : Tail(q)[k] = q[k + 1]
           /\ Head(q) = q[1]
OBVIOUS

LEMMA SameQueue ==
    ASSUME TypeOK, Waiting, UNCHANGED queue,
           \A t \in Turn : step[t] = "queued" => step'[t] = "queued"
    PROVE  Waiting'
BY QueueElements DEF Waiting

LEMMA EmptyQueue == ASSUME queue' = <<>> PROVE Waiting'
BY DEF Waiting

LEMMA StepWaiting == ASSUME TypeOK, Waiting, [Next]_vars PROVE Waiting'
<1>1. ASSUME NEW i \in Input, Submit(i) PROVE Waiting'
  <2>1. i \in Turn /\ queue \in Seq(Input)
    BY DEF Turn, TypeOK
  <2>2. CASE closed
    BY <1>1, <2>1, <2>2, SameQueue DEF Submit, TypeOK
  <2>3. CASE ~closed
    <3>1. /\ step[i] = "idle" /\ queue' = Append(queue, i)
          /\ step'[i] = "queued" /\ \A t \in Turn \ {i} : step'[t] = step[t]
      BY <1>1, <2>1, <2>3 DEF Submit, TypeOK
    <3>2. \A k \in 1..Len(queue) : queue[k] # i /\ step'[queue[k]] = "queued"
      BY <3>1, QueueElements DEF Waiting
    <3>3. Len(queue) \in Nat
      BY <2>1
    <3>4. \A k \in 1..Len(queue') : k = Len(queue) + 1 \/ k \in 1..Len(queue)
      BY <2>1, <3>1, <3>3, Appended
    <3> QED BY <2>1, <3>1, <3>2, <3>3, <3>4, Appended DEF Waiting
  <2> QED BY <2>2, <2>3
<1>2. ASSUME SelectOwner PROVE Waiting'
  <2>1. queue \in Seq(Input) /\ queue # <<>> /\ queue' = Tail(queue)
    BY <1>2 DEF SelectOwner, TypeOK
  <2>2. \A t \in Turn : t # queue[1] => step'[t] = step[t]
    BY <1>2, <2>1, Tailed DEF SelectOwner, MessageRecorded, TypeOK
  <2>3. \A k \in 1..Len(queue') : /\ k + 1 \in 1..Len(queue) /\ k + 1 # 1
                                  /\ queue'[k] = queue[k + 1]
    BY <2>1, Tailed
  <2>4. 1 \in 1..Len(queue)
    BY <2>1, Tailed
  <2>5. \A k \in 1..Len(queue') : step'[queue'[k]] = "queued"
    BY <2>2, <2>3, <2>4, QueueElements DEF Waiting
  <2>6. \A j, k \in 1..Len(queue') : j # k => queue'[j] # queue'[k]
    <3>1. SUFFICES ASSUME NEW j \in 1..Len(queue'), NEW k \in 1..Len(queue'), j # k
                   PROVE  queue'[j] # queue'[k]
      OBVIOUS
    <3>2. j + 1 # k + 1
      BY <3>1
    <3> QED BY SMTT(30), <2>3, <3>2 DEF Waiting
  <2> QED BY <2>5, <2>6 DEF Waiting
<1>3. ASSUME NEW e \in Event, SelectContinuation(e) PROVE Waiting'
  BY <1>3, EmptyQueue DEF SelectContinuation
<1>4. ASSUME NEW t \in Turn, Work(t) PROVE Waiting'
  <2>1. UNCHANGED queue /\ step[t] # "queued"
    BY <1>4 DEF Work, Infer, SkipCandidate, Exhaust, Respond, Settle, FailAttempt, EndTurn
  <2>2. \A s \in Turn : s # t => step'[s] = step[s]
    BY <1>4 DEF Work, Infer, SkipCandidate, Exhaust, Respond, Settle, FailAttempt, EndTurn,
       Over, TypeOK
  <2> QED BY <2>1, <2>2, SameQueue
<1>5. ASSUME Close \/ Stop \/ Crash PROVE Waiting'
  BY <1>5, EmptyQueue DEF Close, Stop, Crash, Die, Forget
<1>6. ASSUME UNCHANGED <<queue, step>> PROVE Waiting'
  BY <1>6, SameQueue
<1>7. ASSUME \/ \E t \in Turn : Interrupt(t) \/ RecoverAttempt(t)
             \/ \E e \in Event : \/ Withdraw(e) \/ Resume(e) \/ RecoverReceipt(e)
                                 \/ \E told \in BOOLEAN : Observe(e, told)
             \/ Leave \/ Finally \/ Restart \/ Serve \/ UNCHANGED vars
      PROVE  Waiting'
  BY <1>6, <1>7 DEF Interrupt, RecoverAttempt, Withdraw, Resume, RecoverReceipt, Observe,
     Leave, Finally, Restart, Serve, scheduler, vars
<1> QED BY <1>1, <1>2, <1>3, <1>4, <1>5, <1>7 DEF Next, Loop, Recovery

\* What Answered says of one turn.
AnsweredTurn(t) ==
    /\ step[t] \in {"recorded", "inferring", "failing"} => t \notin response
    /\ step[t] \in {"responded", "answered"} => t \in response
    /\ step[t] = "inferring" => attempt[t] = "started"
    /\ t \in Input /\ step[t] \in {"idle", "queued"} => t \notin response
    /\ t \in Event /\ receipt[t] = "none" => t \notin response
    /\ t \in Event /\ receipt[t] = "completed" => t \in response
    /\ t \in Event /\ receipt[t] = "failed" => t \notin response
    /\ attempt[t] = "completed" => t \in response
    /\ attempt[t] = "failed" => t \notin response

LEMMA AnsweredEach == Answered <=> \A t \in Turn : AnsweredTurn(t)
BY DEF Answered, AnsweredTurn, ReceiptIsTruthful, Turn

Alike(t) ==
    /\ attempt'[t] = attempt[t] /\ (t \in response' <=> t \in response)
    /\ t \in Event => receipt'[t] = receipt[t]
    /\ step'[t] \in {step[t], "rejected"}

LEMMA AlikeAnswered == ASSUME NEW t \in Turn, AnsweredTurn(t), Alike(t) PROVE AnsweredTurn(t)'
BY DEF AnsweredTurn, Alike

LEMMA WorkAnswered ==
    ASSUME TypeOK, NEW t \in Turn, AnsweredTurn(t), Work(t)
    PROVE  AnsweredTurn(t)' /\ \A s \in Turn \ {t} : Alike(s)
<1> USE DEF AnsweredTurn, Alike
<1>1. ASSUME Infer(t) PROVE AnsweredTurn(t)' /\ \A s \in Turn \ {t} : Alike(s)
  BY <1>1 DEF Infer, AttemptBecomes, TypeOK
<1>2. ASSUME SkipCandidate(t) PROVE AnsweredTurn(t)' /\ \A s \in Turn \ {t} : Alike(s)
  BY <1>2 DEF SkipCandidate, rows
<1>3. ASSUME Exhaust(t) PROVE AnsweredTurn(t)' /\ \A s \in Turn \ {t} : Alike(s)
  BY <1>3 DEF Exhaust, rows, TypeOK
<1>4. ASSUME Respond(t) PROVE AnsweredTurn(t)' /\ \A s \in Turn \ {t} : Alike(s)
  BY <1>4, Constants DEF Respond, TypeOK
<1>5. ASSUME Settle(t) PROVE AnsweredTurn(t)' /\ \A s \in Turn \ {t} : Alike(s)
  BY <1>5, Constants DEF Settle, AttemptBecomes, TypeOK
<1>6. ASSUME NEW fallback \in BOOLEAN, FailAttempt(t, fallback)
      PROVE  AnsweredTurn(t)' /\ \A s \in Turn \ {t} : Alike(s)
  BY <1>6 DEF FailAttempt, AttemptBecomes, TypeOK
<1>7. ASSUME EndTurn(t) PROVE AnsweredTurn(t)' /\ \A s \in Turn \ {t} : Alike(s)
  <2>1. UNCHANGED <<attempt, response>> /\ step[t] \in {"answered", "failing"}
    BY <1>7 DEF EndTurn
  <2>2. step'[t] = "done" /\ \A s \in Turn \ {t} : step'[s] = step[s]
    BY <1>7 DEF EndTurn, Over, TypeOK
  <2>3. \A s \in Event \ {t} : receipt'[s] = receipt[s]
    BY <1>7 DEF EndTurn, Settled, TypeOK
  <2>4. t \in Event =>
          receipt'[t] = IF step[t] = "answered" THEN "completed" ELSE "failed"
    BY <1>7 DEF EndTurn, Settled, TypeOK
  <2>5. AnsweredTurn(t)'
    BY <2>1, <2>2, <2>4, Constants
  <2> QED BY <2>1, <2>2, <2>3, <2>5
<1> QED BY <1>1, <1>2, <1>3, <1>4, <1>5, <1>6, <1>7 DEF Work

LEMMA StepAnswered == ASSUME TypeOK, OneLoop, Waiting, Answered, [Next]_vars PROVE Answered'
<1> DEFINE Each == \A t \in Turn : AnsweredTurn(t)'
<1>0. \A t \in Turn : AnsweredTurn(t)
  BY AnsweredEach
<1>1. ASSUME NEW t \in Turn, Work(t) PROVE Each
  <2>1. AnsweredTurn(t)' /\ \A s \in Turn \ {t} : Alike(s)
    BY <1>0, <1>1, WorkAnswered
  <2> QED BY <1>0, <2>1, AlikeAnswered
<1>2. ASSUME \A t \in Turn : Alike(t) PROVE Each
  BY <1>0, <1>2, AlikeAnswered
<1>3. ASSUME NEW i \in Input, Submit(i) PROVE Each
  <2>1. i \in Turn
    BY DEF Turn
  <2>2. UNCHANGED rows /\ step[i] = "idle" /\ step'[i] \in {"queued", "rejected"}
        /\ \A t \in Turn \ {i} : step'[t] = step[t]
    BY <1>3, <2>1 DEF Submit, TypeOK
  <2>3. AnsweredTurn(i)'
    BY <1>0, <2>1, <2>2, Constants DEF AnsweredTurn, rows
  <2>4. \A t \in Turn \ {i} : Alike(t)
    BY <2>2 DEF Alike, rows
  <2> QED BY <1>0, <2>3, <2>4, AlikeAnswered
<1>4. ASSUME SelectOwner PROVE Each
  <2>1. queue \in Seq(Input) /\ queue # <<>> /\ UNCHANGED <<receipt, attempt, response>>
    BY <1>4 DEF SelectOwner, TypeOK
  <2>2. PICK i \in Input : i = Head(queue) /\ step[i] = "queued"
    <3>1. 1 \in 1..Len(queue) /\ Head(queue) = queue[1]
      BY <2>1, Tailed
    <3> QED BY <3>1, QueueElements DEF Waiting
  <2>3. i \in Turn
    BY DEF Turn
  <2>4. step'[i] = "recorded" /\ \A t \in Turn \ {i} : step'[t] = step[t]
    BY <1>4, <2>2, <2>3 DEF SelectOwner, MessageRecorded, TypeOK
  <2>5. AnsweredTurn(i)'
    BY <1>0, <2>1, <2>2, <2>3, <2>4, Constants DEF AnsweredTurn
  <2>6. \A t \in Turn \ {i} : Alike(t)
    BY <2>1, <2>4 DEF Alike
  <2> QED BY <1>0, <2>5, <2>6, AlikeAnswered
<1>5. ASSUME NEW e \in Event, SelectContinuation(e) PROVE Each
  <2>1. e \in Turn /\ e \notin Input
    BY Constants DEF Turn
  <2>2. /\ receipt[e] = "none" /\ UNCHANGED <<attempt, response>>
        /\ step'[e] = "recorded" /\ receipt'[e] = "started"
        /\ \A t \in Turn \ {e} : step'[t] = step[t]
        /\ \A t \in Event \ {e} : receipt'[t] = receipt[t]
    BY <1>5, <2>1 DEF SelectContinuation, Pending, TypeOK
  <2>3. AnsweredTurn(e)'
    BY <1>0, <2>1, <2>2 DEF AnsweredTurn
  <2>4. \A t \in Turn \ {e} : Alike(t)
    BY <2>2 DEF Alike
  <2> QED BY <1>0, <2>3, <2>4, AlikeAnswered
<1>6. ASSUME NEW t \in Turn, RecoverAttempt(t) PROVE Each
  <2>1. /\ UNCHANGED <<receipt, response, step>>
        /\ attempt'[t] = (IF t \in response THEN "completed" ELSE "failed")
        /\ attempt[t] = "started"
        /\ \A s \in Turn \ {t} : attempt'[s] = attempt[s]
    BY <1>6 DEF RecoverAttempt, AttemptBecomes, scheduler, TypeOK
  <2>2. \A s \in Turn \ {t} : Alike(s)
    BY <2>1 DEF Alike
  <2>3. step[t] # "inferring"
    BY <1>6 DEF RecoverAttempt, OneLoop, Busy, Working
  <2>4. AnsweredTurn(t)'
    BY <1>0, <2>1, <2>3 DEF AnsweredTurn
  <2> QED BY <1>0, <2>2, <2>4, AlikeAnswered
<1>7. ASSUME NEW e \in Event, RecoverReceipt(e) PROVE Each
  <2>1. e \in Turn /\ e \notin Input
    BY Constants DEF Turn
  <2>2. /\ UNCHANGED <<attempt, response, step>>
        /\ receipt'[e] = (IF e \in response THEN "completed" ELSE "failed")
        /\ \A t \in Event \ {e} : receipt'[t] = receipt[t]
    BY <1>7 DEF RecoverReceipt, Recovered, scheduler, TypeOK
  <2>3. AnsweredTurn(e)'
    BY <1>0, <2>1, <2>2 DEF AnsweredTurn
  <2>4. \A t \in Turn \ {e} : Alike(t)
    BY <2>2 DEF Alike
  <2> QED BY <1>0, <2>3, <2>4, AlikeAnswered
<1>8. ASSUME Close \/ Stop \/ Crash PROVE Each
  <2>1. UNCHANGED <<receipt, attempt, response>>
    BY <1>8 DEF Close, Stop, Crash, Die, rows
  <2>2. \A t \in Turn : step'[t] \in {step[t], "rejected"}
    BY <1>8 DEF Close, Stop, Crash, Die, Forget
  <2> QED BY <1>2, <2>1, <2>2 DEF Alike
<1>9. ASSUME \/ \E t \in Turn : Interrupt(t)
             \/ \E e \in Event : \/ Withdraw(e) \/ Resume(e)
                                 \/ \E told \in BOOLEAN : Observe(e, told)
             \/ Leave \/ Finally \/ Restart \/ Serve \/ UNCHANGED vars
      PROVE  Each
  <2>1. UNCHANGED <<receipt, attempt, response, step>>
    BY <1>9 DEF Interrupt, Withdraw, Resume, Observe, Leave, Finally, Restart, Serve,
       rows, scheduler, vars
  <2> QED BY <1>2, <2>1 DEF Alike
<1>10. Each
  BY <1>1, <1>3, <1>4, <1>5, <1>6, <1>7, <1>8, <1>9 DEF Next, Loop, Recovery
<1> QED BY <1>10 DEF Answered, AnsweredTurn, ReceiptIsTruthful, Turn

-----------------------------------------------------------------------------
(* The theorems.                                                             *)

LEMMA InitHolds == Init => IInv
<1> SUFFICES ASSUME Init PROVE IInv
  OBVIOUS
<1>1. \A t \in Turn : step[t] = "idle" /\ attempt[t] = "none" /\ ~Busy(t)
  BY DEF Init, Busy, Working
<1>2. OneLoop
  BY <1>1 DEF Init, OneLoop, OneTurnAtATime
<1>3. ClosedOnce /\ Waiting
  BY DEF Init, ClosedOnce, Waiting
<1>4. Answered
  BY <1>1 DEF Init, Answered, ReceiptIsTruthful
<1> QED BY <1>2, <1>3, <1>4, InitTyped DEF IInv

LEMMA StepKeeps == IInv /\ [Next]_vars => IInv'
<1> SUFFICES ASSUME IInv, [Next]_vars PROVE IInv'
  OBVIOUS
<1>1. TypeOK' /\ OneLoop' /\ ClosedOnce'
  BY StepTyped, StepLoop, StepClosed DEF IInv
<1>2. Waiting' /\ Answered'
  BY StepWaiting, StepAnswered DEF IInv
<1> QED BY <1>1, <1>2 DEF IInv

(* Every reachable state is well typed, has one drain loop or one turn in   *)
(* it, a queue of inputs that wait, and rows that fit the progress of the   *)
(* turns (lead-turn-scheduler.ts, completeOwnerTurn, completeContinuation). *)
THEOREM Inductive == Spec => []IInv
BY InitHolds, StepKeeps, PTL DEF Spec

(* The state is well typed, a death of the host included.                   *)
THEOREM TypeCorrect == Spec => []TypeOK
<1>1. IInv => TypeOK
  BY DEF IInv
<1> QED BY <1>1, Inductive, PTL

(* The scheduler runs one turn at a time: submitOwner, wake and the finally *)
(* of the drain never start a second loop.                                  *)
THEOREM OneAtATime == Spec => []OneTurnAtATime
<1>1. IInv => OneTurnAtATime
  BY DEF IInv, OneLoop
<1> QED BY <1>1, Inductive, PTL

(* A receipt or an attempt that says completed has its Lead response, one   *)
(* that says failed has none, wherever the host died and recovered between  *)
(* the writes of the turn.                                                  *)
THEOREM Truthful == Spec => []ReceiptIsTruthful
<1>1. IInv => ReceiptIsTruthful
  BY DEF IInv, Answered
<1> QED BY <1>1, Inductive, PTL

-----------------------------------------------------------------------------
(* No work is left asleep.                                                   *)

\* A host that serves drains, or has nothing to do.
Awake ==
    host = "up" =>
        /\ draining => top + exiting = 1 \/ \E t \in Turn : Busy(t)
        /\ ~draining /\ ~closed => queue = <<>> /\ ~wake

\* An input that waits is in the queue, of a scheduler that takes it.
Listed ==
    \A i \in Input : step[i] = "queued" =>
        /\ host = "up" /\ ~closed
        /\ \E k \in 1..Len(queue) : queue[k] = i

\* A continuation works under its receipt.
Claimed == \A e \in Event : Busy(e) => receipt[e] = "started"

\* While an input waits, the continuation at work is told to stop.
Yields == \A i \in Input, e \in Event : step[i] = "queued" /\ Busy(e) => e \in aborted

WInv == Awake /\ Listed /\ Claimed /\ Yields

LEMMA SameAwake ==
    ASSUME Awake, UNCHANGED <<draining, top, exiting, wake, closed, host, queue>>,
           \A t \in Turn : Busy(t) => Busy(t)'
    PROVE  Awake'
BY DEF Awake

LEMMA WokenAwake ==
    ASSUME TypeOK, OneLoop, Awake, Woken, UNCHANGED <<exiting, host>>,
           \A t \in Turn : Busy(t) => Busy(t)'
    PROVE  Awake'
<1>1. CASE draining
  BY <1>1 DEF Awake, Woken
<1>2. CASE ~draining
  <2>1. top = 0 /\ exiting = 0
    BY <1>2 DEF OneLoop, TypeOK
  <2> QED BY <1>2, <2>1 DEF Awake, Woken
<1> QED BY <1>1, <1>2 DEF TypeOK

LEMMA SelectedAwake ==
    ASSUME NEW t \in Turn, Busy(t)', draining, UNCHANGED draining
    PROVE  Awake'
BY DEF Awake

\* Only a loop that is there selects or leaves.
LEMMA LoopDrains == ASSUME TypeOK, OneLoop, top + exiting > 0 PROVE draining
BY DEF TypeOK, OneLoop

LEMMA LoopAwake == ASSUME TypeOK, OneLoop, Awake, Loop PROVE Awake'
<1>0. top \in Nat /\ exiting \in Nat /\ draining \in BOOLEAN /\ wake \in BOOLEAN
  BY DEF TypeOK
<1>1. ASSUME SelectOwner PROVE Awake'
  <2>1. PICK i \in Turn : i = Head(queue)
    BY <1>1, QueueTyped DEF SelectOwner, Turn
  <2>2. draining
    BY <1>0, <1>1, LoopDrains DEF SelectOwner, MaySelect
  <2>3. Busy(i)'
    BY <1>1, <2>1 DEF SelectOwner, MessageRecorded, Busy, Working, TypeOK
  <2> QED BY <1>1, <2>2, <2>3, SelectedAwake DEF SelectOwner
<1>2. ASSUME NEW e \in Event, SelectContinuation(e) PROVE Awake'
  <2>1. e \in Turn /\ draining
    BY <1>0, <1>2, LoopDrains DEF SelectContinuation, MaySelect, Turn
  <2>2. Busy(e)'
    BY <1>2, <2>1 DEF SelectContinuation, Busy, Working, TypeOK
  <2> QED BY <1>2, <2>1, <2>2, SelectedAwake DEF SelectContinuation
<1>3. ASSUME Leave PROVE Awake'
  <2>1. draining /\ draining' = draining /\ top' + exiting' = top + exiting
    BY <1>0, <1>3, LoopDrains DEF Leave
  <2>2. top + exiting = 1
    BY <1>0, <1>3 DEF Leave, OneLoop
  <2> QED BY <2>1, <2>2 DEF Awake
<1>4. ASSUME Finally PROVE Awake'
  <2>1. exiting = 1 /\ top = 0
    BY <1>0, <1>4 DEF Finally, OneLoop
  <2>2. CASE Again
    BY <1>4, <2>1, <2>2 DEF Finally, Awake
  <2>3. CASE ~Again
    BY <1>0, <1>4, <2>3 DEF Finally, Again, Awake
  <2> QED BY <2>2, <2>3
<1> QED BY <1>1, <1>2, <1>3, <1>4 DEF Loop

LEMMA WorkAwake == ASSUME TypeOK, OneLoop, Awake, NEW t \in Turn, Work(t) PROVE Awake'
<1>1. Busy(t)
  BY DEF Work, Infer, SkipCandidate, Exhaust, Respond, Settle, FailAttempt, EndTurn, Busy, Working
<1>2. top = 0 /\ exiting = 0 /\ draining
  BY <1>1 DEF OneLoop, TypeOK
<1>3. ASSUME EndTurn(t) PROVE Awake'
  BY <1>2, <1>3 DEF EndTurn, Over, Awake
<1>4. ASSUME ~EndTurn(t) PROVE Awake'
  <2>1. UNCHANGED draining
    BY <1>4 DEF Work, Infer, SkipCandidate, Exhaust, Respond, Settle, FailAttempt
  <2>2. Busy(t)'
    BY <1>4 DEF Work, Infer, SkipCandidate, Exhaust, Respond, Settle, FailAttempt, Busy, Working,
       TypeOK
  <2> QED BY <1>2, <2>1, <2>2, SelectedAwake
<1> QED BY <1>3, <1>4

LEMMA StepAwake == ASSUME TypeOK, OneLoop, Awake, [Next]_vars PROVE Awake'
<1>1. ASSUME NEW i \in Input, Submit(i) PROVE Awake'
  <2>1. i \in Turn
    BY DEF Turn
  <2>2. \A t \in Turn : Busy(t) => Busy(t)'
    BY <1>1, <2>1 DEF Submit, Busy, Working, TypeOK
  <2>3. CASE closed
    BY <1>1, <2>2, <2>3, SameAwake DEF Submit
  <2>4. CASE ~closed
    BY <1>1, <2>2, <2>4, WokenAwake DEF Submit
  <2> QED BY <2>3, <2>4 DEF TypeOK
<1>2. ASSUME NEW e \in Event, NEW told \in BOOLEAN, Observe(e, told) PROVE Awake'
  <2>1. \A t \in Turn : Busy(t) => Busy(t)'
    BY <1>2 DEF Observe, Busy
  <2> QED BY <1>2, <2>1, WokenAwake, SameAwake DEF Observe
<1>3. ASSUME \/ \E t \in Turn : Interrupt(t)
             \/ \E e \in Event : Withdraw(e) \/ Resume(e)
             \/ \E t \in Turn : RecoverAttempt(t)
             \/ \E e \in Event : RecoverReceipt(e)
             \/ UNCHANGED vars
      PROVE  Awake'
  BY <1>3, SameAwake
  DEF Interrupt, Withdraw, Resume, RecoverAttempt, RecoverReceipt, scheduler, vars, Busy
<1>4. ASSUME Close PROVE Awake'
  <2>1. \A t \in Turn : Busy(t) => Busy(t)'
    BY <1>4 DEF Close, Busy, Working
  <2> QED BY <1>4, <2>1 DEF Close, Awake
<1>5. ASSUME Stop \/ Crash \/ Restart PROVE Awake'
  BY <1>5 DEF Stop, Crash, Die, Restart, Awake
<1>6. ASSUME Serve PROVE Awake'
  <2>1. exiting = 0
    BY <1>6 DEF Serve, OneLoop, TypeOK
  <2> QED BY <1>6, <2>1 DEF Serve, Awake
<1> QED BY <1>1, <1>2, <1>3, <1>4, <1>5, <1>6, LoopAwake, WorkAwake DEF Next, Recovery

LEMMA SameListed ==
    ASSUME Listed, UNCHANGED <<queue, closed, host>>,
           \A i \in Input : step'[i] = "queued" => step[i] = "queued"
    PROVE  Listed'
BY DEF Listed

LEMMA UnlistedAll == ASSUME \A i \in Input : step'[i] # "queued" PROVE Listed'
BY DEF Listed

LEMMA StepListed == ASSUME TypeOK, Listed, [Next]_vars PROVE Listed'
<1>0. \A i \in Input : i \in Turn
  BY DEF Turn
<1>1. ASSUME NEW i \in Input, Submit(i) PROVE Listed'
  <2>1. CASE closed
    BY <1>0, <1>1, <2>1, SameListed DEF Submit, TypeOK
  <2>2. CASE ~closed
    <3>1. /\ queue \in Seq(Input) /\ queue' = Append(queue, i)
          /\ \A j \in Input \ {i} : step'[j] = step[j]
          /\ host' = "up" /\ ~closed'
      BY <1>0, <1>1, <2>2 DEF Submit, TypeOK
    <3>2. Len(queue) + 1 \in 1..Len(queue') /\ queue'[Len(queue) + 1] = i
      BY <3>1, Appended
    <3>3. \A k \in 1..Len(queue) : k \in 1..Len(queue') /\ queue'[k] = queue[k]
      BY <3>1, Appended
    <3>4. ASSUME NEW j \in Input, j # i, step'[j] = "queued"
          PROVE  \E k \in 1..Len(queue') : queue'[k] = j
      BY <3>1, <3>3, <3>4 DEF Listed
    <3> QED BY <3>1, <3>2, <3>4 DEF Listed
  <2> QED BY <2>1, <2>2 DEF TypeOK
<1>2. ASSUME SelectOwner PROVE Listed'
  <2>1. queue \in Seq(Input) /\ queue # <<>> /\ queue' = Tail(queue) /\ UNCHANGED <<closed, host>>
    BY <1>2 DEF SelectOwner, TypeOK
  <2>2. queue[1] \in Turn
    BY <2>1, Tailed, QueueElements
  <2>3. step'[queue[1]] = "recorded" /\ \A t \in Turn : t # queue[1] => step'[t] = step[t]
    BY <1>2, <2>1, <2>2, Tailed DEF SelectOwner, MessageRecorded, TypeOK
  <2>4. ASSUME NEW i \in Input, step'[i] = "queued"
        PROVE  host' = "up" /\ ~closed' /\ \E k \in 1..Len(queue') : queue'[k] = i
    <3>1. step[i] = "queued" /\ i # queue[1]
      BY <1>0, <2>3, <2>4
    <3>2. PICK k \in 1..Len(queue) : queue[k] = i
      BY <3>1 DEF Listed
    <3>3. k # 1
      BY <3>1, <3>2
    <3>4. k - 1 \in 1..Len(queue) - 1 /\ Len(queue') = Len(queue) - 1
      BY <2>1, <3>3, Tailed
    <3>5. queue'[k - 1] = queue[(k - 1) + 1] /\ (k - 1) + 1 = k
      BY <2>1, <3>4, Tailed
    <3> QED BY <2>1, <3>1, <3>2, <3>4, <3>5 DEF Listed
  <2> QED BY <2>4 DEF Listed
<1>3. ASSUME NEW e \in Event, SelectContinuation(e) PROVE Listed'
  BY <1>3, SameListed DEF SelectContinuation, TypeOK, Turn
<1>4. ASSUME NEW t \in Turn, Work(t) PROVE Listed'
  BY <1>0, <1>4, SameListed
  DEF Work, Infer, SkipCandidate, Exhaust, Respond, Settle, FailAttempt, EndTurn, Over, TypeOK
<1>5. ASSUME Close \/ Stop \/ Crash PROVE Listed'
  BY <1>0, <1>5, UnlistedAll DEF Close, Stop, Crash, Die, Forget
<1>6. ASSUME Restart \/ Serve PROVE Listed'
  BY <1>6 DEF Restart, Serve, Listed
<1>7. ASSUME \/ \E t \in Turn : Interrupt(t) \/ RecoverAttempt(t)
             \/ \E e \in Event : \/ Withdraw(e) \/ Resume(e) \/ RecoverReceipt(e)
                                 \/ \E told \in BOOLEAN : Observe(e, told)
             \/ Leave \/ Finally \/ UNCHANGED vars
      PROVE  Listed'
  BY <1>7, SameListed DEF Interrupt, RecoverAttempt, Withdraw, Resume, RecoverReceipt, Observe,
     Leave, Finally, scheduler, vars
<1> QED BY <1>1, <1>2, <1>3, <1>4, <1>5, <1>6, <1>7 DEF Next, Loop, Recovery

LEMMA ClaimedEach ==
    ASSUME Claimed, \A e \in Event : Busy(e)' => Busy(e) /\ receipt'[e] = receipt[e]
    PROVE  Claimed'
BY DEF Claimed

LEMMA StepClaimed == ASSUME TypeOK, OneLoop, Claimed, [Next]_vars PROVE Claimed'
<1>0. \A e \in Event : e \in Turn /\ e \notin Input
  BY Constants DEF Turn
<1>1. ASSUME NEW i \in Input, Submit(i) PROVE Claimed'
  <2>1. \A e \in Event : step'[e] = step[e]
    BY <1>0, <1>1 DEF Submit, TypeOK
  <2> QED BY <1>1, <2>1 DEF Claimed, Busy, Submit, rows
<1>2. ASSUME SelectOwner PROVE Claimed'
  <2>1. \A e \in Event : step'[e] = step[e]
    BY <1>0, <1>2, QueueTyped DEF SelectOwner, MessageRecorded, TypeOK
  <2> QED BY <1>2, <2>1 DEF Claimed, Busy, SelectOwner
<1>3. ASSUME NEW e \in Event, SelectContinuation(e) PROVE Claimed'
  <2>1. receipt'[e] = "started" /\ \A d \in Event \ {e} : receipt'[d] = receipt[d]
    BY <1>3 DEF SelectContinuation, TypeOK
  <2>2. \A d \in Event \ {e} : step'[d] = step[d]
    BY <1>0, <1>3 DEF SelectContinuation, TypeOK
  <2> QED BY <2>1, <2>2 DEF Claimed, Busy
<1>4. ASSUME NEW t \in Turn, EndTurn(t) PROVE Claimed'
  <2>1. step'[t] = "done" /\ \A s \in Turn \ {t} : step'[s] = step[s]
    BY <1>4 DEF EndTurn, Over, TypeOK
  <2>2. \A e \in Event \ {t} : receipt'[e] = receipt[e]
    BY <1>4 DEF EndTurn, Settled, TypeOK
  <2> QED BY <1>0, <2>1, <2>2, ClaimedEach DEF Busy, Working
<1>5. ASSUME NEW t \in Turn, Work(t), ~EndTurn(t) PROVE Claimed'
  <2>1. receipt' = receipt /\ Busy(t)
    BY <1>5 DEF Work, Infer, SkipCandidate, Exhaust, Respond, Settle, FailAttempt, rows, Busy,
       Working
  <2>2. \A s \in Turn \ {t} : step'[s] = step[s]
    BY <1>5 DEF Work, Infer, SkipCandidate, Exhaust, Respond, Settle, FailAttempt, TypeOK
  <2> QED BY <1>0, <2>1, <2>2 DEF Claimed, Busy
<1>6. ASSUME Close \/ Stop \/ Crash PROVE Claimed'
  <2>1. receipt' = receipt
    BY <1>6 DEF Close, Stop, Crash, Die, rows
  <2>2. \A t \in Turn : step'[t] \in {step[t], "idle", "rejected"}
    BY <1>6 DEF Close, Stop, Crash, Die, Forget
  <2> QED BY <1>0, <2>1, <2>2 DEF Claimed, Busy, Working
<1>7. ASSUME NEW e \in Event, RecoverReceipt(e) PROVE Claimed'
  <2>1. \A t \in Turn : ~Busy(t) /\ ~Busy(t)'
    BY <1>7 DEF RecoverReceipt, OneLoop, Busy, scheduler
  <2> QED BY <1>0, <2>1 DEF Claimed
<1>8. ASSUME \/ \E t \in Turn : Interrupt(t) \/ RecoverAttempt(t)
             \/ \E e \in Event : \/ Withdraw(e) \/ Resume(e)
                                 \/ \E told \in BOOLEAN : Observe(e, told)
             \/ Leave \/ Finally \/ Restart \/ Serve \/ UNCHANGED vars
      PROVE  Claimed'
  <2>1. UNCHANGED <<receipt, step>>
    BY <1>8 DEF Interrupt, RecoverAttempt, Withdraw, Resume, Observe, Leave, Finally, Restart,
       Serve, rows, scheduler, vars
  <2> QED BY <2>1 DEF Claimed, Busy
<1> QED BY <1>1, <1>2, <1>3, <1>4, <1>5, <1>6, <1>7, <1>8 DEF Next, Loop, Recovery

LEMMA StepYields == ASSUME TypeOK, Listed, Yields, [Next]_vars PROVE Yields'
<1>0. \A e \in Event : e \in Turn /\ e \notin Input
  BY Constants DEF Turn
<1>i. \A i \in Input : i \in Turn
  BY DEF Turn
<1>1. ASSUME NEW i \in Input, Submit(i) PROVE Yields'
  <2>1. \A e \in Event : step'[e] = step[e]
    BY <1>0, <1>1 DEF Submit, TypeOK
  <2>2. CASE closed
    <3>1. \A j \in Input : step'[j] = "queued" => step[j] = "queued"
      BY <1>i, <1>1, <2>2 DEF Submit, TypeOK
    <3> QED BY <1>1, <2>1, <2>2, <3>1 DEF Submit, Yields, Busy
  <2>3. CASE ~closed
    BY <1>1, <2>1, <2>3 DEF Submit, Yield, Yields, Busy
  <2> QED BY <2>2, <2>3 DEF TypeOK
<1>2. ASSUME NEW e \in Event, SelectContinuation(e) PROVE Yields'
  <2>1. \A i \in Input : step[i] # "queued" /\ step'[i] = step[i]
    BY <1>0, <1>i, <1>2 DEF SelectContinuation, Listed, TypeOK
  <2> QED BY <2>1 DEF Yields
<1>3. ASSUME NEW u \in Turn, UNCHANGED aborted,
             \A t \in Turn \ {u} : step'[t] = step[t],
             step'[u] # "queued", u \in Event => Busy(u)
      PROVE  Yields'
  <2>1. \A i \in Input : step'[i] = "queued" => step[i] = "queued"
    BY <1>i, <1>3
  <2>2. \A e \in Event : Busy(e)' => Busy(e)
    BY <1>0, <1>3 DEF Busy
  <2> QED BY <1>3, <2>1, <2>2 DEF Yields
<1>4. ASSUME SelectOwner PROVE Yields'
  <2>1. PICK i \in Input : i = Head(queue)
    BY <1>4, QueueTyped DEF SelectOwner
  <2>2. step'[i] = "recorded" /\ \A t \in Turn \ {i} : step'[t] = step[t]
    BY <1>i, <1>4, <2>1 DEF SelectOwner, MessageRecorded, TypeOK
  <2> QED BY <1>0, <1>i, <1>3, <1>4, <2>2 DEF SelectOwner
<1>5. ASSUME NEW t \in Turn, Work(t) PROVE Yields'
  <2>1. UNCHANGED aborted /\ Busy(t) /\ \A s \in Turn \ {t} : step'[s] = step[s]
    BY <1>5 DEF Work, Infer, SkipCandidate, Exhaust, Respond, Settle, FailAttempt, EndTurn, Over,
       Busy, Working, TypeOK
  <2>2. step'[t] # "queued"
    BY <1>5 DEF Work, Infer, SkipCandidate, Exhaust, Respond, Settle, FailAttempt, EndTurn, Over,
       TypeOK
  <2> QED BY <1>3, <2>1, <2>2
<1>6. ASSUME Close \/ Stop \/ Crash PROVE Yields'
  <2>1. \A i \in Input : step'[i] # "queued"
    BY <1>i, <1>6 DEF Close, Stop, Crash, Die, Forget
  <2> QED BY <2>1 DEF Yields
<1>7. ASSUME \/ \E t \in Turn : Interrupt(t) \/ RecoverAttempt(t)
             \/ \E e \in Event : \/ Withdraw(e) \/ Resume(e) \/ RecoverReceipt(e)
                                 \/ \E told \in BOOLEAN : Observe(e, told)
             \/ Leave \/ Finally \/ Restart \/ Serve \/ UNCHANGED vars
      PROVE  Yields'
  <2>1. UNCHANGED step /\ aborted \subseteq aborted'
    BY <1>7 DEF Interrupt, RecoverAttempt, Withdraw, Resume, RecoverReceipt, Observe, Leave, Finally,
       Restart, Serve, scheduler, vars
  <2> QED BY <2>1 DEF Yields, Busy
<1> QED BY <1>1, <1>2, <1>4, <1>5, <1>6, <1>7 DEF Next, Loop, Recovery

LEMMA InitWaits == Init => WInv
<1> SUFFICES ASSUME Init PROVE WInv
  OBVIOUS
<1>1. \A t \in Turn : step[t] = "idle"
  BY DEF Init
<1>2. Listed /\ Claimed /\ Yields
  BY <1>1 DEF Listed, Claimed, Yields, Busy, Working, Turn
<1>3. Awake
  BY DEF Init, Awake
<1> QED BY <1>2, <1>3 DEF WInv

LEMMA StepWaits == IInv /\ WInv /\ [Next]_vars => WInv'
BY StepAwake, StepListed, StepClaimed, StepYields DEF IInv, WInv

LEMMA Waits == Spec => []WInv
BY Inductive, InitWaits, StepWaits, PTL DEF Spec

\* A scheduler with work it was told of has a loop that will select, or a turn
\* that ends in one; an input that waits is such work.
WorkIsAwaited ==
    /\ host = "up" /\ ~closed /\ (queue # <<>> \/ wake) =>
           top + exiting = 1 \/ \E t \in Turn : Busy(t)
    /\ \A i \in Input : step[i] = "queued" =>
           host = "up" /\ ~closed /\ \E k \in 1..Len(queue) : queue[k] = i

(* The scheduler is never asleep over an Owner input or an observation it    *)
(* was woken for, however a submission or changed() falls between the last   *)
(* look of the drain loop and its finally: what WakeIsHonoured and           *)
(* OwnerGoesNext need besides fairness.                                      *)
THEOREM NeverAsleep == Spec => []WorkIsAwaited
<1>1. IInv /\ WInv => WorkIsAwaited
  BY DEF IInv, WInv, Awake, Listed, WorkIsAwaited, TypeOK
<1> QED BY <1>1, Inductive, Waits, PTL

\* A settled receipt is not written again, and the response it speaks of does
\* not change; nor is an attempt reopened once it is completed.
RowsStand ==
    /\ \A e \in Event : receipt[e] \in {"completed", "failed"} =>
           receipt'[e] = receipt[e] /\ (e \in response' <=> e \in response)
    /\ \A t \in Turn : attempt[t] = "completed" => attempt'[t] = "completed"

SettledRowsStand == [][RowsStand]_vars

LEMMA StepStands == IInv /\ WInv /\ Next => RowsStand
<1> SUFFICES ASSUME IInv, WInv, Next PROVE RowsStand
  OBVIOUS
<1>0. /\ TypeOK /\ \A e \in Event : e \in Turn
      /\ \A t \in Turn : attempt[t] = "completed" => t \in response
      /\ \A t \in Turn : step[t] = "recorded" => t \notin response
      /\ \A t \in Turn : step[t] = "inferring" => attempt[t] = "started"
      /\ \A t \in Turn : step[t] = "responded" => t \in response
      /\ \A e \in Event : Busy(e) => receipt[e] = "started"
  BY DEF IInv, WInv, Answered, ReceiptIsTruthful, Claimed, Turn
<1>1. ASSUME UNCHANGED <<receipt, attempt, response>> PROVE RowsStand
  BY <1>1 DEF RowsStand
<1>2. ASSUME NEW t \in Turn, Infer(t) \/ Settle(t) \/ (\E f \in BOOLEAN : FailAttempt(t, f))
                             \/ RecoverAttempt(t)
      PROVE  RowsStand
  <2>1. /\ UNCHANGED <<receipt, response>>
        /\ \A s \in Turn \ {t} : attempt'[s] = attempt[s]
    BY <1>0, <1>2 DEF Infer, Settle, FailAttempt, RecoverAttempt, AttemptBecomes, TypeOK
  <2>2. attempt[t] # "completed" \/ attempt'[t] = "completed"
    <3>0. step[t] \in {"recorded", "inferring"} => attempt[t] # "completed"
      BY <1>0
    <3>1. CASE Infer(t)
      BY <3>0, <3>1 DEF Infer
    <3>2. CASE Settle(t)
      BY <1>0, <3>2 DEF Settle, AttemptBecomes, TypeOK
    <3>3. CASE (\E f \in BOOLEAN : FailAttempt(t, f)) \/ RecoverAttempt(t)
      BY <3>0, <3>3 DEF FailAttempt, RecoverAttempt
    <3> QED BY <1>2, <3>1, <3>2, <3>3
  <2> QED BY <2>1, <2>2 DEF RowsStand
<1>3. ASSUME NEW t \in Turn, Respond(t) PROVE RowsStand
  <2>1. t \in Event => receipt[t] = "started"
    BY <1>3 DEF Respond
  <2> QED BY <1>3, <2>1 DEF Respond, RowsStand
<1>4. ASSUME NEW t \in Turn, EndTurn(t) PROVE RowsStand
  <2>1. t \in Event => receipt[t] = "started"
    BY <1>0, <1>4 DEF EndTurn, Busy, Working
  <2>2. UNCHANGED <<attempt, response>> /\ \A e \in Event \ {t} : receipt'[e] = receipt[e]
    BY <1>0, <1>4 DEF EndTurn, Settled, TypeOK
  <2> QED BY <2>1, <2>2 DEF RowsStand
<1>5. ASSUME NEW e \in Event, SelectContinuation(e) \/ RecoverReceipt(e) PROVE RowsStand
  <2>1. receipt[e] \in {"none", "started"} /\ UNCHANGED <<attempt, response>>
    BY <1>5 DEF SelectContinuation, Pending, RecoverReceipt
  <2>2. \A d \in Event \ {e} : receipt'[d] = receipt[d]
    BY <1>0, <1>5 DEF SelectContinuation, RecoverReceipt, Recovered, TypeOK
  <2> QED BY <2>1, <2>2 DEF RowsStand
<1>6. ASSUME \/ \E i \in Input : Submit(i)
             \/ \E t \in Turn : Interrupt(t) \/ SkipCandidate(t) \/ Exhaust(t)
             \/ \E e \in Event : \/ Withdraw(e) \/ Resume(e)
                                 \/ \E told \in BOOLEAN : Observe(e, told)
             \/ SelectOwner \/ Leave \/ Finally \/ Close \/ Stop \/ Crash \/ Restart \/ Serve
      PROVE  RowsStand
  BY <1>1, <1>6 DEF Submit, Interrupt, SkipCandidate, Exhaust, Withdraw, Resume, Observe,
     SelectOwner, Leave, Finally, Close, Stop, Crash, Die, Restart, Serve, rows
<1> QED BY <1>2, <1>3, <1>4, <1>5, <1>6 DEF Next, Work, Loop, Recovery

(* A receipt makes its observation single-use: once settled it is never      *)
(* claimed, settled or answered again, by the scheduler or by the recovery   *)
(* of a later host; and no turn whose attempt is completed is inferred again. *)
THEOREM ReceiptsAreSingleUse == Spec => SettledRowsStand
<1>1. IInv /\ WInv /\ [Next]_vars => RowsStand \/ UNCHANGED vars
  BY StepStands
<1> QED BY <1>1, Inductive, Waits, PTL DEF Spec, SettledRowsStand
-----------------------------------------------------------------------------
(* The Owner first.                                                          *)

NoneBegins == (\E i \in Input : step[i] = "queued") => \A e \in Event : ~Begins(e)

LEMMA StepOwnerFirst == IInv /\ WInv /\ Next => NoneBegins
<1> SUFFICES ASSUME IInv, WInv, Next,
                    NEW i \in Input, step[i] = "queued",
                    NEW e \in Event, Begins(e)
             PROVE  FALSE
  BY DEF NoneBegins
<1>0. TypeOK /\ e \in Turn /\ queue # <<>> /\ (Busy(e) => e \in aborted)
  <2>1. PICK k \in 1..Len(queue) : queue[k] = i
    BY DEF WInv, Listed
  <2> QED BY <2>1 DEF IInv, WInv, Yields, Turn
<1>1. CASE receipt[e] # "started" /\ receipt'[e] = "started"
  <2>1. ASSUME NEW d \in Event, SelectContinuation(d) PROVE FALSE
    BY <1>0, <2>1 DEF SelectContinuation
  <2>2. ASSUME NEW t \in Turn, EndTurn(t) PROVE FALSE
    BY <1>0, <1>1, <2>2 DEF EndTurn, Settled, TypeOK
  <2>3. ASSUME NEW d \in Event, RecoverReceipt(d) PROVE FALSE
    BY <1>0, <1>1, <2>3 DEF RecoverReceipt, Recovered, TypeOK
  <2>4. UNCHANGED receipt => FALSE
    BY <1>1
  <2> QED BY <2>1, <2>2, <2>3, <2>4 DEF Next, Work, Loop, Recovery, Submit, Interrupt, Infer,
       SkipCandidate, Exhaust, Respond, Settle, FailAttempt, Withdraw, Resume, Observe, SelectOwner,
       Leave, Finally, Close, Stop, Crash, Die, Restart, Serve, RecoverAttempt, rows
<1>2. CASE attempt[e] # "started" /\ attempt'[e] = "started"
  <2>1. ASSUME NEW t \in Turn, Infer(t) PROVE FALSE
    <3>1. t # e => attempt'[e] = attempt[e]
      BY <1>0, <2>1 DEF Infer, AttemptBecomes, TypeOK
    <3>2. t = e => e \notin aborted /\ Busy(e)
      BY <2>1 DEF Infer, Busy, Working
    <3> QED BY <1>0, <1>2, <3>1, <3>2
  <2>2. ASSUME NEW t \in Turn, Settle(t) PROVE FALSE
    BY <1>0, <1>2, <2>2 DEF Settle, AttemptBecomes, TypeOK
  <2>3. ASSUME NEW t \in Turn, NEW f \in BOOLEAN, FailAttempt(t, f) PROVE FALSE
    BY <1>0, <1>2, <2>3 DEF FailAttempt, AttemptBecomes, TypeOK
  <2>4. ASSUME NEW t \in Turn, RecoverAttempt(t) PROVE FALSE
    BY <1>0, <1>2, <2>4 DEF RecoverAttempt, AttemptBecomes, TypeOK
  <2>5. UNCHANGED attempt => FALSE
    BY <1>2
  <2> QED BY <2>1, <2>2, <2>3, <2>4, <2>5 DEF Next, Work, Loop, Recovery, Submit, Interrupt,
       SkipCandidate, Exhaust, Respond, EndTurn, Withdraw, Resume, Observe, SelectOwner,
       SelectContinuation, Leave, Finally, Close, Stop, Crash, Die, Restart, Serve, RecoverReceipt,
       rows
<1> QED BY <1>1, <1>2 DEF Begins

(* Owner input takes priority over observations: while any input waits, no   *)
(* observation is claimed and no continuation asks a model, wherever in the  *)
(* drain loop or in the turn of a continuation the submission fell           *)
(* (submitOwner, the drain loop and the signal read by the Lead's runtime).  *)
THEOREM OwnerComesFirst == Spec => OwnerFirst
<1>1. IInv /\ WInv /\ [Next]_vars => NoneBegins \/ UNCHANGED vars
  BY StepOwnerFirst
<1> QED BY <1>1, Inductive, Waits, PTL DEF Spec, OwnerFirst, NoneBegins
=============================================================================
