-------------------------- MODULE Activation_proof --------------------------
(***************************************************************************)
(* Proofs about Activation for every number of invocations, runners,       *)
(* versions, deaths and failures.  The invariant couples where a process   *)
(* stands with the claim it holds, with the files of its restore, with the *)
(* generations that have been read and with what each version has written. *)
(***************************************************************************)
EXTENDS Activation, TLAPS

\* The places of a rollback that has a snapshot to restore.
Restoring == {"prepare", "journal", "displace", "install", "verified", "close", "remove",
              "undo", "abort", "return"}

\* Where a process stands determines what it holds.
StepsAgree ==
    /\ \A p \in Proc :
        /\ pc[p] \in Restoring => at[p].copy.previous # None
        /\ pc[p] \in {"intent", "stopping", "probing"} =>
               kind[p] # "start" /\ (kind[p] = "rollback" => at[p].copy.previous # None)
        /\ pc[p] \in {"stage", "snapshot", "advance", "cutover"} => kind[p] = "upgrade"
        /\ pc[p] = "manifest" => kind[p] = "upgrade" \/ at[p].copy.previous # None
        /\ pc[p] = "verify" => kind[p] = "rollback"
        /\ pc[p] \in {"journal", "displace", "install"} => restore[p].staged # None
    /\ \A r \in Runner : runner[r].pc # "off" => runner[r].left # 0

TInv == TypeOK /\ StepsAgree

USE DEF Place
-----------------------------------------------------------------------------
(* Type correctness.                                                       *)

LEMMA Firsts == NoHold \in Hold /\ FirstRow \in Row /\ First.state \in Database /\ NoRunner \in HostRunner
<1>1. 1 \in Code
  BY CountsAreNatural DEF Code
<1>2. First \in Pair /\ First.state \in Database
  BY <1>1 DEF First, Pair, Database
<1>3. FirstRow \in Row
  BY <1>2 DEF FirstRow, Row
<1> QED BY <1>1, <1>2, <1>3 DEF NoHold, Hold, NoRunner, HostRunner

\* The fields of what one process holds, before and after a write of one.
LEMMA RestoreFields ==
    ASSUME NEW r \in Restore, NEW f \in {"open", "dropped", "closed"},
           NEW d \in Database \cup {None}
    PROVE  /\ r.staged \in Database \cup {None} /\ r.displaced \in Database \cup {None}
           /\ [r EXCEPT !.phase = f] \in Restore
           /\ [r EXCEPT !.staged = d] \in Restore
           /\ [r EXCEPT !.displaced = d] \in Restore
           /\ [r EXCEPT !.phase = f, !.displaced = d] \in Restore
           /\ [r EXCEPT !.staged = d, !.phase = f] \in Restore
           /\ [r EXCEPT !.phase = f].staged = r.staged
           /\ [r EXCEPT !.displaced = d].staged = r.staged
           /\ [r EXCEPT !.staged = d].staged = d
BY DEF Restore

LEMMA HoldFields ==
    ASSUME NEW h \in Hold, NEW d \in Database, NEW w \in Row
    PROVE  /\ h.copy \in Row /\ h.snap \in Database
           /\ [h EXCEPT !.snap = d] \in Hold
           /\ [h EXCEPT !.copy = w] \in Hold
           /\ [h EXCEPT !.snap = d].copy = h.copy
           /\ [h EXCEPT !.copy = w].copy = w
BY DEF Hold

LEMMA RowFields ==
    ASSUME NEW w \in Row, NEW b \in BOOLEAN, NEW o \in Proc \cup {None},
           NEW x \in Pair, NEW y \in Pair \cup {None}
    PROVE  /\ w.active \in Pair /\ w.previous \in Pair \cup {None} /\ w.op \in Proc \cup {None}
           /\ w.active.code \in Code
           /\ [w EXCEPT !.stop = b] \in Row /\ [w EXCEPT !.stop = b].op = w.op
           /\ [w EXCEPT !.op = o] \in Row /\ [w EXCEPT !.op = o].op = o
           /\ [w EXCEPT !.stop = b, !.active = x, !.previous = y] \in Row
           /\ [w EXCEPT !.stop = b, !.active = x, !.previous = y].op = w.op
BY DEF Row, Pair

LEMMA RunnerFields ==
    ASSUME NEW r \in HostRunner, NEW c \in Code, NEW g \in Nat, NEW e \in Nat, NEW l \in Nat
    PROVE  /\ r.left \in Nat /\ r.gen \in Nat /\ r.era \in Nat /\ r.code \in Code
           /\ [r EXCEPT !.pc = "verify", !.code = c] \in HostRunner
           /\ [r EXCEPT !.pc = "verify", !.code = c].left = r.left
           /\ [r EXCEPT !.pc = "launch", !.gen = g, !.era = e] \in HostRunner
           /\ [r EXCEPT !.pc = "launch", !.gen = g, !.era = e].left = r.left
           /\ [r EXCEPT !.pc = "read", !.left = l] \in HostRunner
           /\ [r EXCEPT !.pc = "read", !.left = l].left = l
           /\ [r EXCEPT !.pc = "serving", !.left = l] \in HostRunner
           /\ [r EXCEPT !.pc = "serving", !.left = l].left = l
           /\ [code |-> r.code, gen |-> r.gen, era |-> r.era] \in Lead
BY DEF HostRunner, Lead

LEMMA NewRunner ==
    ASSUME NEW r \in HostRunner
    PROVE  /\ [r EXCEPT !.pc = "read", !.left = Launches] \in HostRunner
           /\ [r EXCEPT !.pc = "read", !.left = Launches].left # 0
BY CountsAreNatural DEF HostRunner

LEMMA DatabaseFields ==
    ASSUME NEW d \in Database, NEW g \in Nat, NEW e \in Nat
    PROVE  /\ d.gen \in Nat /\ d.era \in Nat
           /\ [d EXCEPT !.gen = g, !.era = e] \in Database
           /\ [d EXCEPT !.gen = g, !.era = e].gen = g
           /\ [d EXCEPT !.gen = g, !.era = e].era = e
BY DEF Database

LEMMA NoRunnerIsOff == NoRunner.pc = "off"
BY DEF NoRunner

LEMMA TypeInit == Init => TInv
<1> SUFFICES ASSUME Init PROVE TInv
  OBVIOUS
<1>1. 1 \in Code
  BY CountsAreNatural DEF Code
<1>2. NoRestore \in Restore /\ FirstRow.op = None
  BY DEF NoRestore, Restore, FirstRow
<1>4. TypeOK
  BY <1>1, <1>2, Firsts DEF Init, TypeOK, Kind
<1>5. StepsAgree
  BY NoRunnerIsOff DEF Init, StepsAgree, Restoring
<1> QED BY <1>4, <1>5 DEF TInv

LEMMA RunnerType ==
    ASSUME TInv, NEW r \in Runner, runner[r].pc # "off", Relaunch(r)
    PROVE  /\ runner' \in [Runner -> HostRunner]
           /\ \A x \in Runner : runner'[x].pc # "off" => runner'[x].left # 0
<1>1. runner[r] \in HostRunner /\ runner[r].left \in Nat /\ runner[r].left # 0
  BY ZenonT(60), RunnerFields, CountsAreNatural DEF TInv, TypeOK, StepsAgree, Code
<1>2. runner[r].left # 1 => runner[r].left - 1 \in Nat /\ runner[r].left - 1 # 0
  BY <1>1
<1>3. runner[r].left # 1 =>
         /\ [NoRunner EXCEPT !.pc = "read", !.left = runner[r].left - 1] \in HostRunner
         /\ [NoRunner EXCEPT !.pc = "read", !.left = runner[r].left - 1].left # 0
  BY <1>2, Firsts DEF NoRunner, HostRunner
<1> QED BY <1>1, <1>3, Firsts, NoRunnerIsOff DEF Relaunch, TInv, TypeOK, StepsAgree

LEMMA StagedIsCode == \A p \in Proc : Staged(p) \in Code /\ Staged(p) = p + 1 /\ p \in Nat
BY CountsAreNatural DEF Staged, Code, Proc

LEMMA TypeTakes ==
    ASSUME TInv, NEW p \in Proc, NEW k \in Kind, Takes(p, k), UNCHANGED <<files, host>>,
           eras' \in Nat /\ crashes' \in Nat /\ faults' \in Nat,
           unbidden' \in BOOLEAN /\ undone' \in BOOLEAN /\ misjudged' \in BOOLEAN
    PROVE  TInv'
<1> USE DEF TInv, TypeOK, StepsAgree, files, host, Go, Restoring
<1>0. at[p] \in Hold
  OBVIOUS
<1>1. row' \in Row BY DEF Takes, Row
<1>2. [at[p] EXCEPT !.copy = row'] \in Hold BY <1>0, <1>1 DEF Hold
<1>3. at' \in [Proc -> Hold] BY <1>2 DEF Takes
<1>4. pc'[p] = CASE k = "upgrade" -> "stage" [] k = "rollback" -> "verify"
                 [] k = "stop" -> "intent" [] k = "start" -> "resume"
  BY DEF Takes
<1>5. /\ pc'[p] \in {"stage", "verify", "intent", "resume"}
      /\ pc'[p] = "stage" => k = "upgrade"
      /\ pc'[p] = "verify" => k = "rollback"
      /\ pc'[p] = "intent" => k = "stop"
  BY <1>4 DEF Kind
<1>6. kind' = [kind EXCEPT ![p] = k]
  BY DEF Takes
<1>7. \A q \in Proc : q # p => pc'[q] = pc[q] /\ at'[q] = at[q] /\ kind'[q] = kind[q]
  BY DEF Takes
<1>8. pc' \in [Proc -> Place]
  BY <1>5 DEF Takes
<1>9. TypeOK' BY <1>1, <1>3, <1>6, <1>8
<1>10. StepsAgree' BY <1>5, <1>6, <1>7
<1> QED BY <1>9, <1>10

\* The processes: each action writes the parts of the state it names.
LEMMA TypeOperate ==
    ASSUME TInv, NEW p \in Proc, Operate(p)
    PROVE  TInv'
<1> USE DEF TInv, TypeOK, StepsAgree, files, host, hist, bounds, Go, Restoring
<1>0. /\ at[p] \in Hold /\ at[p].copy \in Row /\ at[p].snap \in Database
      /\ restore[p] \in Restore /\ kind[p] \in Kind
  BY DEF Hold
<1>1. ASSUME NEW k \in Kind, Claim(p, k) PROVE TInv'
  <2>1. UNCHANGED <<files, host, hist, bounds>>
    BY <1>1 DEF Claim
  <2> QED BY <1>1, <2>1, TypeTakes DEF Claim
<1>2. CASE Refuse(p) BY <1>2 DEF Refuse
<1>3. CASE Release(p) BY <1>3, Firsts DEF Release, Forget, Row, Kind
<1>4. CASE Throws(p) BY <1>4 DEF Throws
<1>5. CASE WithdrawIntent(p) BY <1>0, <1>5 DEF WithdrawIntent, Row
<1>6. CASE Spawn(p)
  <2>1. CASE UNCHANGED runner BY <1>6, <2>1 DEF Spawn
  <2>2. ASSUME NEW r \in Runner,
               runner' = [runner EXCEPT ![r].pc = "read", ![r].left = Launches]
        PROVE  TInv'
    <3>1. /\ [runner[r] EXCEPT !.pc = "read", !.left = Launches] \in HostRunner
          /\ [runner[r] EXCEPT !.pc = "read", !.left = Launches].left # 0
      <4>1. runner[r] \in HostRunner
        OBVIOUS
      <4> HIDE DEF TInv, TypeOK, StepsAgree
      <4> QED BY <4>1, NewRunner
    <3>3. runner' = [runner EXCEPT ![r] = [runner[r] EXCEPT !.pc = "read", !.left = Launches]]
      BY <2>2
    <3>4. /\ runner' \in [Runner -> HostRunner]
          /\ \A x \in Runner : runner'[x].pc # "off" => runner'[x].left # 0
      BY <3>1, <3>3
    <3>5. pc' = [pc EXCEPT ![p] = "connect"]
          /\ UNCHANGED <<row, files, kind, at, lead, hist, bounds>>
      BY <1>6 DEF Spawn
    <3> QED BY <3>4, <3>5
  <2> QED BY <1>6, <2>1, <2>2 DEF Spawn
<1>7. CASE Connect(p) BY <1>7 DEF Connect
<1>8. CASE Stage(p) BY <1>8 DEF Stage
<1>9. CASE Verify(p) BY <1>9 DEF Verify
<1>10. CASE RecordIntent(p) BY <1>0, <1>10 DEF RecordIntent, Row
<1>11. CASE StopHost(p) BY <1>11, Firsts, NoRunnerIsOff DEF StopHost
<1>12. CASE AwaitGone(p) BY <1>0, <1>12 DEF AwaitGone, Kind
<1>13. CASE Snapshot(p)
  <2>1. CASE db = None BY <1>13, <2>1 DEF Snapshot
  <2>2. CASE db # None
    <3>1. [at[p] EXCEPT !.snap = db] \in Hold /\ [at[p] EXCEPT !.snap = db].copy = at[p].copy
      BY <1>0, <2>2 DEF Hold
    <3>2. at' = [at EXCEPT ![p] = [at[p] EXCEPT !.snap = db]]
      BY <1>13, <2>2 DEF Snapshot
    <3>3. at' \in [Proc -> Hold] /\ \A q \in Proc : at'[q].copy = at[q].copy
      BY <3>1, <3>2
    <3>4. pc' = [pc EXCEPT ![p] = "advance"] /\ pc[p] = "snapshot"
          /\ UNCHANGED <<row, files, kind, host, hist, bounds>>
      BY <1>13, <2>2 DEF Snapshot
    <3>5. TypeOK' BY <3>3, <3>4
    <3>6. StepsAgree' BY <3>3, <3>4
    <3> QED BY <3>5, <3>6
  <2> QED BY <2>1, <2>2
<1>14. CASE Advance(p)
  <2>1. CASE pc' = [pc EXCEPT ![p] = "release"] /\ UNCHANGED <<db, highWater, eras>>
    BY <1>14, <2>1 DEF Advance
  <2>2. CASE db # None /\ db' = [db EXCEPT !.gen = db.gen + 1, !.era = eras + 1]
    <3>1. db \in Database /\ db.gen \in Nat /\ db.gen + 1 \in Nat /\ eras + 1 \in Nat
      BY <2>2 DEF Database
    <3>2. [db EXCEPT !.gen = db.gen + 1, !.era = eras + 1] \in Database
      <4> HIDE DEF TInv, TypeOK, StepsAgree
      <4> QED BY <3>1, DatabaseFields
    <3>3. highWater' \in Nat /\ eras' \in Nat /\ db' \in Database
      BY <1>14, <2>2, <3>1, <3>2 DEF Advance, Larger
    <3> QED BY <1>14, <3>3 DEF Advance
  <2> QED BY <1>14, <2>1, <2>2 DEF Advance
<1>15. CASE Cutover(p) BY <1>0, <1>15, StagedIsCode DEF Cutover, Row, Pair
<1>16. CASE WriteManifest(p) BY <1>0, <1>16, StagedIsCode DEF WriteManifest, Row, Pair
<1>17. CASE Prepare(p)
  <2>1. CASE pc' = [pc EXCEPT ![p] = "release"] /\ UNCHANGED <<evidence, restore, eras>>
    BY <1>17, <2>1 DEF Prepare
  <2> DEFINE pair == at[p].copy.previous
             staged == [gen |-> Fresh(pair), data |-> pair.state.data, era |-> eras + 1]
             dir == <<db.gen, pair.state>>
  <2>2. CASE /\ db # None /\ evidence' = evidence \cup {dir}
             /\ restore' = [restore EXCEPT ![p].staged = staged] /\ eras' = eras + 1
             /\ pc' = [pc EXCEPT ![p] = "journal"]
    <3>1. pair \in Pair BY <1>0, <1>17 DEF Prepare, Row
    <3>2. db.gen \in Nat BY <2>2 DEF Database
    <3>3. staged \in Database /\ dir \in Nat \X Database
      BY <3>1, <3>2 DEF Pair, Database, Fresh, Larger
    <3>4. [restore[p] EXCEPT !.staged = staged] \in Restore
          /\ [restore[p] EXCEPT !.staged = staged].staged = staged
      BY <1>0, <3>3 DEF Restore
    <3>5. staged # None BY <3>3, NoneIsNothing
    <3> HIDE DEF staged, dir, pair
    <3> QED BY <1>17, <2>2, <3>3, <3>4, <3>5 DEF Prepare
  <2> QED BY <1>17, <2>1, <2>2 DEF Prepare
<1>18. CASE OpenJournal(p)
  <2>1. restore[p].staged.gen \in Nat BY <1>0, <1>18 DEF OpenJournal, Restore, Database
  <2> QED BY <1>0, <2>1, <1>18 DEF OpenJournal, Larger, Restore
<1>19. CASE Displace(p) BY <1>0, <1>19 DEF Displace, Restore
<1>20. CASE Install(p) BY <1>0, <1>20 DEF Install, Restore
<1>21. CASE DropDisplaced(p) BY <1>0, <1>21 DEF DropDisplaced, Restore
<1>22. CASE CloseJournal(p) BY <1>0, <1>22 DEF CloseJournal, Restore
<1>23. CASE RestoreFails(p) BY <1>23 DEF RestoreFails
<1>24. CASE RemoveInstalled(p) BY ZenonT(60), <1>24 DEF RemoveInstalled
<1>25. CASE PutBack(p) BY <1>0, <1>25 DEF PutBack, Restore
<1>26. CASE Abort(p) BY <1>0, <1>26 DEF Abort, Restore
<1>27. CASE Return(p) BY <1>0, <1>27 DEF Return, Row
<1> QED BY <1>1, <1>2, <1>3, <1>4, <1>5, <1>6, <1>7, <1>8, <1>9, <1>10, <1>11, <1>12, <1>13,
           <1>14, <1>15, <1>16, <1>17, <1>18, <1>19, <1>20, <1>21, <1>22, <1>23, <1>24,
           <1>25, <1>26, <1>27 DEF Operate

LEMMA TypeHost ==
    ASSUME TInv, NEW r \in Runner, Host(r) \/ RunnerDies(r)
    PROVE  TInv'
<1> USE DEF TInv, TypeOK, StepsAgree, files, host, hist, bounds, Restoring
<1>0. runner[r] \in HostRunner /\ row.active.code \in Code
  BY DEF Row, Pair
<1>1. CASE ReadRow(r)
  <2>1. [runner[r] EXCEPT !.pc = "verify", !.code = row.active.code] \in HostRunner
    BY <1>0 DEF HostRunner
  <2>2. [runner[r] EXCEPT !.pc = "verify", !.code = row.active.code].left = runner[r].left
    BY <1>0 DEF HostRunner
  <2> QED BY <1>0, <2>1, <2>2, <1>1, Firsts, NoRunnerIsOff DEF ReadRow
<1>2. CASE ReadGeneration(r)
  <2>1. CASE db = None BY <1>2, <2>1, Firsts, NoRunnerIsOff DEF ReadGeneration
  <2>2. CASE db # None
    <3>1. db.gen \in Nat /\ db.era \in Nat BY <2>2 DEF Database
    <3>2. [runner[r] EXCEPT !.pc = "launch", !.gen = db.gen, !.era = db.era] \in HostRunner
      BY <1>0, <3>1 DEF HostRunner
    <3>3. [runner[r] EXCEPT !.pc = "launch", !.gen = db.gen, !.era = db.era].left = runner[r].left
      BY <1>0 DEF HostRunner
    <3> QED BY <1>2, <2>2, <3>2, <3>3 DEF ReadGeneration
  <2> QED BY <2>1, <2>2
<1>3. CASE Launch(r)
  <2>1. runner[r].pc # "off" BY <1>3 DEF Launch
  <2>2. CASE Relaunch(r) /\ UNCHANGED <<lead, unbidden>>
    BY <1>3, <2>1, <2>2, RunnerType DEF Launch
  <2>3. CASE ~(Relaunch(r) /\ UNCHANGED <<lead, unbidden>>)
    <3>1. LET n == [NoRunner EXCEPT !.pc = "serving", !.left = runner[r].left]
          IN n \in HostRunner /\ n.left = runner[r].left
      BY <1>0, Firsts DEF NoRunner, HostRunner
    <3>2. [code |-> runner[r].code, gen |-> runner[r].gen, era |-> runner[r].era] \in Lead
      BY <1>0 DEF HostRunner, Lead
    <3>3. unbidden' \in BOOLEAN BY <1>3, <2>3 DEF Launch
    <3> QED BY ZenonT(60), <1>3, <2>1, <2>3, <3>1, <3>2, <3>3 DEF Launch
  <2> QED BY <2>2, <2>3
<1>4. CASE LeadExits(r) BY <1>4, RunnerType DEF LeadExits
<1>5. CASE Shutdown(r) BY <1>5, Firsts, NoRunnerIsOff DEF Shutdown
<1>6. CASE OrphanExits(r) BY <1>6 DEF OrphanExits
<1>7. CASE Write(r)
  <2>1. lead[r].code \in Code BY <1>7 DEF Write, Lead
  <2>2. db' \in Database BY <1>7, <2>1 DEF Write, Database
  <2> QED BY <1>7, <2>2 DEF Write
<1>8. CASE RunnerDies(r) BY <1>8, Firsts, NoRunnerIsOff DEF RunnerDies
<1> QED BY <1>1, <1>2, <1>3, <1>4, <1>5, <1>6, <1>7, <1>8 DEF Host

LEMMA TypeDies == ASSUME TInv, NEW p \in Proc, ProcessDies(p) PROVE TInv'
BY Firsts DEF ProcessDies, Forget, Go, TInv, TypeOK, StepsAgree, files, host, hist, bounds,
              Restoring, Kind

LEMMA TypeStep == TInv /\ [Next]_vars => TInv'
<1> SUFFICES ASSUME TInv, [Next]_vars PROVE TInv'
  OBVIOUS
<1>1. CASE UNCHANGED vars
  BY <1>1 DEF vars, files, host, hist, bounds, TInv, TypeOK, StepsAgree
<1>2. ASSUME NEW p \in Proc, NEW k \in Kind, Misjudge(p, k) PROVE TInv'
  <2>1. UNCHANGED <<files, host, eras, unbidden, undone, crashes>> /\ misjudged' /\ faults' \in Nat
    BY <1>2 DEF Misjudge, TInv, TypeOK
  <2> QED BY <1>2, <2>1, TypeTakes DEF Misjudge, TInv, TypeOK
<1> QED BY <1>1, <1>2, TypeOperate, TypeHost, TypeDies DEF Next

\* Every reachable state has the declared types.
THEOREM TypeCorrect == Spec => []TypeOK
<1>1. TInv => TypeOK BY DEF TInv
<1> QED BY <1>1, TypeInit, TypeStep, PTL DEF Spec

-----------------------------------------------------------------------------
(* One operation at a time.                                                *)

\* A process that works has the claim, in the row and in its copy of the row.
Owned == \A p \in Proc : Working(p) => row.op = p /\ at[p].copy.op = p

LEMMA OwnedIsSerial == Owned => OperationsAreSerial
BY DEF Owned, OperationsAreSerial

\* A claim that was misjudged stays so.
LEMMA MisjudgedStays == [Next]_vars /\ ~misjudged' => ~misjudged
<1> SUFFICES ASSUME [Next]_vars, ~misjudged' PROVE misjudged' = misjudged
  OBVIOUS
<1>1. ASSUME NEW p \in Proc, Operate(p) PROVE misjudged' = misjudged
  <2>1. ASSUME NEW k \in Kind, Claim(p, k) PROVE misjudged' = misjudged
    BY <2>1 DEF Claim, hist
  <2>2. ASSUME Refuse(p) \/ Release(p) \/ Throws(p) \/ WithdrawIntent(p) \/ Spawn(p)
               \/ Connect(p) \/ Stage(p) \/ Verify(p) \/ RecordIntent(p) \/ StopHost(p)
               \/ AwaitGone(p) \/ Snapshot(p)
        PROVE  misjudged' = misjudged
    BY <2>2 DEF Refuse, Release, Throws, WithdrawIntent, Spawn, Connect, Stage, Verify,
       RecordIntent, StopHost, AwaitGone, Snapshot, hist
  <2>3. ASSUME Advance(p) \/ Cutover(p) \/ WriteManifest(p) \/ Prepare(p) \/ OpenJournal(p)
               \/ Displace(p) \/ Install(p) \/ DropDisplaced(p) \/ CloseJournal(p)
        PROVE  misjudged' = misjudged
    BY <2>3 DEF Advance, Cutover, WriteManifest, Prepare, OpenJournal, Displace, Install,
       DropDisplaced, CloseJournal, hist
  <2>4. ASSUME RestoreFails(p) \/ RemoveInstalled(p) \/ PutBack(p) \/ Abort(p) \/ Return(p)
        PROVE  misjudged' = misjudged
    BY <2>4 DEF RestoreFails, RemoveInstalled, PutBack, Abort, Return, hist
  <2> QED BY <1>1, <2>1, <2>2, <2>3, <2>4 DEF Operate
<1>2. ASSUME NEW r \in Runner, Host(r) PROVE misjudged' = misjudged
  BY <1>2 DEF Host, ReadRow, ReadGeneration, Launch, LeadExits, Shutdown, OrphanExits, Write, hist
<1>3. ASSUME NEW p \in Proc, ProcessDies(p) PROVE misjudged' = misjudged
  BY <1>3 DEF ProcessDies, hist
<1>4. ASSUME NEW r \in Runner, RunnerDies(r) PROVE misjudged' = misjudged
  BY <1>4 DEF RunnerDies, hist
<1>5. ASSUME NEW p \in Proc, NEW k \in Kind, Misjudge(p, k) PROVE FALSE
  BY <1>5 DEF Misjudge
<1>6. CASE UNCHANGED vars
  BY <1>6 DEF vars, hist
<1> QED BY <1>1, <1>2, <1>3, <1>4, <1>5, <1>6 DEF Next

LEMMA OwnedStep ==
    ASSUME TInv, Owned, [Next]_vars, ~misjudged'
    PROVE  Owned'
<1> USE DEF Owned, Working, Alive, files, host, hist, bounds, Go
<1>0. /\ row \in Row /\ at \in [Proc -> Hold] /\ pc \in [Proc -> Place]
      /\ \A p \in Proc : at[p].copy \in Row /\ restore[p] \in Restore
  BY DEF TInv, TypeOK, Hold
<1>1. ASSUME NEW p \in Proc, Operate(p) PROVE Owned'
  <2>1. ASSUME NEW k \in Kind, Claim(p, k) PROVE Owned'
    <3>1. \A q \in Proc : ~Working(q)
      BY <2>1, NoneIsNothing DEF Claim, Held
    <3>2. row'.op = p
      BY <2>1, <1>0, RowFields DEF Claim, Takes, Row
    <3>3. at'[p].copy = row'
      BY <2>1, <1>0, HoldFields DEF Claim, Takes, Hold
    <3>4. \A q \in Proc : q # p => pc'[q] = pc[q]
      BY <2>1, <1>0 DEF Claim, Takes
    <3> QED BY <3>1, <3>2, <3>3, <3>4
  <2>2. CASE Release(p)
    <3>1. ~Working(p)'
      BY <2>2, <1>0 DEF Release
    <3>2. \A q \in Proc \ {p} : pc'[q] = pc[q] /\ at'[q] = at[q]
      BY <2>2, <1>0 DEF Release, Forget
    <3>3. row.op # p => row'.op = row.op
      BY <2>2, <1>0 DEF Release, Row
    <3> QED BY <3>1, <3>2, <3>3
  <2>3. CASE WithdrawIntent(p) \/ RecordIntent(p) \/ Cutover(p) \/ Return(p)
    <3>1. row'.op = at[p].copy.op
      BY <2>3, <1>0 DEF WithdrawIntent, RecordIntent, Cutover, Return, Row
    <3>2. UNCHANGED at /\ \A q \in Proc \ {p} : pc'[q] = pc[q]
      BY <2>3, <1>0 DEF WithdrawIntent, RecordIntent, Cutover, Return
    <3>3. Working(p)
      BY <2>3 DEF WithdrawIntent, RecordIntent, Cutover, Return
    <3> QED BY <3>1, <3>2, <3>3
  <2>4. CASE Stage(p) \/ Snapshot(p)
    <3>1. \A q \in Proc : at'[q].copy = at[q].copy
      BY <2>4, <1>0 DEF Stage, Snapshot, Hold
    <3>2. UNCHANGED row /\ Working(p) /\ \A q \in Proc \ {p} : pc'[q] = pc[q]
      BY <2>4, <1>0 DEF Stage, Snapshot
    <3> QED BY <3>1, <3>2
  <2>5. CASE Refuse(p)
    BY <2>5, <1>0 DEF Refuse
  <2>6. CASE \/ Throws(p) \/ Spawn(p) \/ Connect(p) \/ Verify(p) \/ StopHost(p)
             \/ AwaitGone(p) \/ Advance(p) \/ WriteManifest(p)
    <3>1. UNCHANGED <<row, at>> /\ Working(p) /\ \A q \in Proc \ {p} : pc'[q] = pc[q]
      BY <2>6, <1>0 DEF Throws, Spawn, Connect, Verify, StopHost, AwaitGone, Advance,
                        WriteManifest
    <3> QED BY <3>1
  <2>7. CASE \/ Prepare(p) \/ OpenJournal(p) \/ Displace(p) \/ Install(p)
             \/ DropDisplaced(p) \/ CloseJournal(p) \/ RestoreFails(p) \/ RemoveInstalled(p)
             \/ PutBack(p) \/ Abort(p)
    <3>1. UNCHANGED <<row, at>> /\ Working(p) /\ \A q \in Proc \ {p} : pc'[q] = pc[q]
      BY <2>7, <1>0 DEF Prepare, OpenJournal, Displace, Install, DropDisplaced, CloseJournal,
                        RestoreFails, RemoveInstalled, PutBack, Abort
    <3> QED BY <3>1
  <2> QED BY <1>1, <2>1, <2>2, <2>3, <2>4, <2>5, <2>6, <2>7 DEF Operate
<1>2. ASSUME NEW p \in Proc, ProcessDies(p) PROVE Owned'
  BY <1>0, <1>2 DEF ProcessDies, Forget
<1>3. ASSUME NEW r \in Runner, Host(r) \/ RunnerDies(r) PROVE Owned'
  BY <1>3 DEF Host, ReadRow, ReadGeneration, Launch, LeadExits, Shutdown, OrphanExits, Write,
              RunnerDies
<1>4. CASE UNCHANGED vars
  BY <1>4 DEF vars
<1>5. ASSUME NEW p \in Proc, NEW k \in Kind, Misjudge(p, k) PROVE FALSE
  BY <1>5 DEF Misjudge
<1> QED BY <1>1, <1>2, <1>3, <1>4, <1>5 DEF Next

\* No two operations of an installation work at once, whoever dies, as long as
\* no claim of a live process is released.
THEOREM Serial == Spec => []OperationsAreSerial
<1> DEFINE OInv == ~misjudged => Owned
<1>1. Init => OInv
  BY DEF Init, Owned, Working, Alive
<1>2. TInv /\ OInv /\ [Next]_vars => OInv'
  BY OwnedStep, MisjudgedStays
<1>3. OInv => OperationsAreSerial
  BY OwnedIsSerial DEF OperationsAreSerial
<1> QED BY <1>1, <1>2, <1>3, TypeInit, TypeStep, PTL DEF Spec

-----------------------------------------------------------------------------
(* The database, its displaced file and the generations that were read.    *)

\* What has been read, by a Lead or by a runner that will launch one, is older
\* than a database, or its latest cutover.
Behind(d, l, n) ==
    \A r \in Runner :
        /\ l[r] # None => l[r].gen <= d.gen /\ (l[r].gen = d.gen => l[r].era = d.era)
        /\ n[r].pc = "launch" => n[r].gen <= d.gen /\ (n[r].gen = d.gen => n[r].era = d.era)

\* Where the restore of one process stands determines its files.
RestoreAgrees(p) ==
    /\ pc[p] \in {"journal", "displace"} => db # None /\ restore[p].staged.gen > db.gen
    /\ pc[p] = "displace" => restore[p].phase = "open"
    /\ pc[p] = "install" =>
           restore[p].displaced # None /\ restore[p].staged.gen > restore[p].displaced.gen
    /\ pc[p] \in {"install", "undo"} /\ restore[p].displaced # None =>
           /\ db = None /\ restore[p].phase = "open"
           /\ ~undone => Behind(restore[p].displaced, lead, runner)
    /\ pc[p] = "verified" =>
           db # None /\ restore[p].phase = "open" /\ restore[p].displaced # None
    /\ pc[p] = "close" => db # None /\ restore[p].phase = "dropped"
    /\ pc[p] = "remove" =>
           /\ db # None
           /\ \/ restore[p].phase = "dropped" /\ restore[p].displaced = None
              \/ restore[p].phase = "open" /\ restore[p].displaced # None
    /\ pc[p] = "abort" => restore[p].displaced = None /\ restore[p].phase # "dropped"
    /\ restore[p].displaced # None =>
           pc[p] \in {"install", "verified", "remove", "undo", "release", "done", "dead"}

\* A database that is gone is where an open journal says.
Journaling ==
    db = None => \E p \in Proc : \/ restore[p].phase = "open" /\ restore[p].displaced # None
                               \/ restore[p].phase = "dropped"

FInv ==
    /\ ~undone /\ db # None => Behind(db, lead, runner)
    /\ \A p \in Proc : RestoreAgrees(p)
    /\ Journaling

LEMMA FencedByFInv == FInv => StaleWritersAreFenced
BY DEF FInv, StaleWritersAreFenced, Behind

LEMMA FInit == Init => FInv
BY NoneIsNothing, Firsts DEF Init, FInv, RestoreAgrees, Behind, Journaling, NoRestore,
   NoRunner

\* While one process is in an operation, no other is in a restore.
LEMMA Alone ==
    ASSUME Owned, NEW p \in Proc, Working(p), NEW q \in Proc, q # p
    PROVE  pc[q] \in {"new", "release", "done", "dead"}
BY DEF Owned, Working, Alive

\* A step of the host reads no generation but the database's.
LEMMA HostReads ==
    ASSUME TInv, NEW r \in Runner, Host(r) \/ RunnerDies(r), NEW d \in Database,
           Behind(d, lead, runner),
           db # None => db.gen = d.gen /\ db.era = d.era
    PROVE  Behind(d, lead', runner')
<1> USE DEF TInv, TypeOK, Behind, host
<1>0. runner[r] \in HostRunner /\ NoRunner.pc = "off" /\ NoRunner \in HostRunner
  BY Firsts, NoRunnerIsOff
<1>1. CASE ReadRow(r)
  <2>1. [runner[r] EXCEPT !.pc = "verify", !.code = row.active.code].pc = "verify"
    BY <1>0 DEF HostRunner
  <2> QED BY <1>0, <1>1, <2>1 DEF ReadRow
<1>2. CASE ReadGeneration(r)
  <2>1. CASE db = None BY <1>0, <1>2, <2>1 DEF ReadGeneration
  <2>2. CASE db # None
    <3>1. LET n == [runner[r] EXCEPT !.pc = "launch", !.gen = db.gen, !.era = db.era]
          IN n.gen = db.gen /\ n.era = db.era
      BY <1>0 DEF HostRunner
    <3>2. db.gen \in Nat BY <2>2 DEF Database
    <3> QED BY <1>2, <2>2, <3>1, <3>2 DEF ReadGeneration
  <2> QED BY <2>1, <2>2
<1>3. ASSUME Relaunch(r) PROVE runner'[r].pc # "launch" /\ \A x \in Runner \ {r} : runner'[x] = runner[x]
  <2>1. [NoRunner EXCEPT !.pc = "read", !.left = runner[r].left - 1].pc = "read"
    BY DEF NoRunner
  <2> QED BY <1>0, <1>3, <2>1 DEF Relaunch
<1>4. CASE Launch(r)
  <2>1. CASE Relaunch(r) /\ UNCHANGED <<lead, unbidden>>
    BY <1>3, <1>4, <2>1 DEF Launch
  <2>2. CASE ~(Relaunch(r) /\ UNCHANGED <<lead, unbidden>>)
    <3>1. [NoRunner EXCEPT !.pc = "serving", !.left = runner[r].left].pc = "serving"
      BY DEF NoRunner
    <3>2. runner'[r].pc = "serving" /\ \A x \in Runner \ {r} : runner'[x] = runner[x]
      BY <1>4, <2>2, <3>1 DEF Launch
    <3>3. lead'[r].gen = runner[r].gen /\ lead'[r].era = runner[r].era
          /\ \A x \in Runner \ {r} : lead'[x] = lead[x]
      BY <1>4, <2>2 DEF Launch
    <3>4. runner[r].pc = "launch" BY <1>4 DEF Launch
    <3> QED BY <3>2, <3>3, <3>4
  <2> QED BY <2>1, <2>2
<1>5. CASE LeadExits(r) BY <1>3, <1>5 DEF LeadExits
<1>6. CASE Shutdown(r) \/ OrphanExits(r) \/ RunnerDies(r)
  BY <1>0, <1>6 DEF Shutdown, OrphanExits, RunnerDies
<1>7. CASE Write(r) BY <1>7 DEF Write
<1> QED BY <1>1, <1>2, <1>4, <1>5, <1>6, <1>7 DEF Host

LEMMA FHost ==
    ASSUME TInv, FInv, NEW r \in Runner, Host(r) \/ RunnerDies(r)
    PROVE  FInv'
<1>1. UNCHANGED <<pc, restore, undone>>
  BY DEF Host, RunnerDies, ReadRow, ReadGeneration, Launch, LeadExits, Shutdown, OrphanExits,
         Write, files, hist, bounds
<1>2. (db = None) = (db' = None) /\ (db # None => db' \in Database /\ db'.gen = db.gen /\ db'.era = db.era)
  <2>1. CASE Write(r)
    <3>1. db \in Database BY <2>1 DEF Write, TInv, TypeOK
    <3>2. db' \in Database /\ db'.gen = db.gen /\ db'.era = db.era
      <4>1. lead[r].code \in Code BY <2>1 DEF Write, TInv, TypeOK, Lead
      <4> QED BY <2>1, <3>1, <4>1 DEF Write, Database
    <3> QED BY <3>1, <3>2, NoneIsNothing
  <2>2. CASE ~Write(r)
    <3>1. UNCHANGED db
      BY <2>2 DEF Host, RunnerDies, ReadRow, ReadGeneration, Launch, LeadExits, Shutdown,
                  OrphanExits, files
    <3> QED BY <3>1 DEF TInv, TypeOK
  <2> QED BY <2>1, <2>2
<1>3. ~undone /\ db # None => Behind(db', lead', runner')
  <2>1. ~undone /\ db # None => Behind(db, lead', runner')
    BY HostReads DEF FInv, TInv, TypeOK
  <2> QED BY <1>2, <2>1 DEF Behind
<1>4. ASSUME NEW p \in Proc PROVE RestoreAgrees(p)'
  <2>1. restore[p] \in Restore /\ RestoreAgrees(p)
    BY DEF TInv, TypeOK, FInv
  <2>2. pc[p] \in {"install", "undo"} /\ restore[p].displaced # None /\ ~undone =>
            Behind(restore[p].displaced, lead', runner')
    BY <2>1, HostReads DEF RestoreAgrees, Restore
  <2> QED BY <1>1, <1>2, <2>1, <2>2 DEF RestoreAgrees
<1> QED BY <1>1, <1>2, <1>3, <1>4 DEF FInv, Journaling

\* The other actions of a process leave the files and the readers alone, or
\* take readers away.
LEMMA FOutside ==
    ASSUME TInv, Owned, FInv, NEW p \in Proc,
           \/ \E k \in Kind : Claim(p, k)
           \/ Refuse(p) \/ Release(p) \/ Throws(p) \/ WithdrawIntent(p) \/ Spawn(p) \/ Connect(p)
           \/ Stage(p) \/ Verify(p) \/ RecordIntent(p) \/ StopHost(p) \/ AwaitGone(p)
           \/ Snapshot(p) \/ Cutover(p) \/ WriteManifest(p) \/ Return(p) \/ ProcessDies(p)
    PROVE  FInv'
<1>1. UNCHANGED <<db, restore, undone>>
  BY DEF Claim, Takes, Refuse, Release, Throws, WithdrawIntent, Spawn, Connect, Stage, Verify,
         RecordIntent, StopHost, AwaitGone, Snapshot, Cutover, WriteManifest, Return,
         ProcessDies, files, hist
<1>2. /\ \A q \in Proc \ {p} : pc'[q] = pc[q]
      /\ pc'[p] \notin {"journal", "displace", "install", "undo", "verified", "close", "remove",
                        "abort"}
      /\ restore[p].displaced # None => pc'[p] \in {"release", "done", "dead"}
  BY DEF Claim, Takes, Refuse, Release, Throws, WithdrawIntent, Spawn, Connect, Stage, Verify,
         RecordIntent, StopHost, AwaitGone, Snapshot, Cutover, WriteManifest, Return,
         ProcessDies, Go, FInv, RestoreAgrees, TInv, TypeOK, Begins, Alive, Kind
<1>3. /\ \A r \in Runner : lead'[r] = lead[r] \/ lead'[r] = None
      /\ \A r \in Runner : runner'[r] = runner[r] \/ runner'[r].pc # "launch"
  <2>1. CASE Spawn(p)
    <3>1. \A r \in Runner : [runner[r] EXCEPT !.pc = "read", !.left = Launches].pc # "launch"
      BY DEF TInv, TypeOK, HostRunner
    <3> QED BY <2>1, <3>1 DEF Spawn, TInv, TypeOK
  <2>2. CASE StopHost(p)
    BY <2>2, NoRunnerIsOff DEF StopHost
  <2>3. CASE ~Spawn(p) /\ ~StopHost(p)
    BY <2>3 DEF Claim, Takes, Refuse, Release, Throws, WithdrawIntent, Connect, Stage, Verify,
         RecordIntent, AwaitGone, Snapshot, Cutover, WriteManifest, Return, ProcessDies, host
  <2> QED BY <2>1, <2>2, <2>3
<1>4. \A d : Behind(d, lead, runner) => Behind(d, lead', runner')
  BY <1>3 DEF Behind
<1>5. \A q \in Proc : RestoreAgrees(q)'
  BY <1>1, <1>2, <1>4 DEF FInv, RestoreAgrees
<1> QED BY <1>1, <1>4, <1>5 DEF FInv, Journaling

LEMMA FFiles ==
    ASSUME TInv, Owned, FInv, NEW p \in Proc,
           \/ Advance(p) \/ Prepare(p) \/ OpenJournal(p) \/ Displace(p) \/ Install(p)
           \/ DropDisplaced(p) \/ CloseJournal(p) \/ RestoreFails(p) \/ RemoveInstalled(p)
           \/ PutBack(p) \/ Abort(p)
    PROVE  FInv'
<1> DEFINE r == restore[p]
           r1 == restore'[p]
<1>0. /\ r \in Restore /\ RestoreAgrees(p) /\ pc \in [Proc -> Place]
      /\ restore \in [Proc -> Restore]
      /\ db \in Database \cup {None} /\ Journaling
      /\ ~undone /\ db # None => Behind(db, lead, runner)
  BY DEF TInv, TypeOK, FInv
<1>1. /\ Working(p) /\ UNCHANGED <<lead, runner>>
      /\ \A q \in Proc \ {p} : pc'[q] = pc[q] /\ restore'[q] = restore[q]
  BY <1>0 DEF Advance, Prepare, OpenJournal, Displace, Install, DropDisplaced, CloseJournal,
         RestoreFails, RemoveInstalled, PutBack, Abort, host, files, Go, Working, Alive
<1>2. ASSUME NEW q \in Proc, q # p PROVE RestoreAgrees(q)'
  <2>1. pc[q] \in {"new", "release", "done", "dead"}
    BY <1>1, <1>2, Alone
  <2>2. RestoreAgrees(q) BY DEF FInv
  <2> QED BY <1>1, <1>2, <2>1, <2>2 DEF RestoreAgrees
<1>3. SUFFICES /\ RestoreAgrees(p)' /\ Journaling'
               /\ ~undone' /\ db' # None => Behind(db', lead, runner)
  BY <1>1, <1>2, <1>3 DEF FInv
<1>4. CASE Advance(p)
  <2>1. UNCHANGED <<restore, undone>>
        /\ pc'[p] \in {"release", "cutover"} /\ (r.displaced # None => pc[p] # "advance")
    BY <1>0, <1>4 DEF Advance, Go, RestoreAgrees
  <2>2. CASE UNCHANGED db
    BY <1>0, <1>1, <1>4, <2>1, <2>2 DEF Advance, RestoreAgrees, Journaling
  <2>3. CASE db # None /\ db' = [db EXCEPT !.gen = db.gen + 1, !.era = eras + 1]
    <3>1. db \in Database /\ db.gen \in Nat /\ eras \in Nat /\ db.gen + 1 \in Nat /\ eras + 1 \in Nat
      BY <1>0, <2>3 DEF Database, TInv, TypeOK
    <3>2. db' \in Database /\ db'.gen = db.gen + 1
      <4>1. [db EXCEPT !.gen = db.gen + 1, !.era = eras + 1] \in Database
        BY <3>1, DatabaseFields
      <4>2. [db EXCEPT !.gen = db.gen + 1, !.era = eras + 1].gen = db.gen + 1
        BY <3>1 DEF Database
      <4> QED BY <2>3, <4>1, <4>2
    <3>3. ~undone => Behind(db', lead, runner)
      <4>1. \A x \in Runner : /\ lead[x] # None => lead[x].gen \in Nat
                              /\ runner[x].gen \in Nat
        BY DEF TInv, TypeOK, Lead, HostRunner
      <4> QED BY <1>0, <2>3, <3>1, <3>2, <4>1 DEF Behind
    <3>4. db' # None BY <3>2, NoneIsNothing
    <3> QED BY <1>4, <2>1, <3>3, <3>4 DEF Advance, RestoreAgrees, Journaling
  <2> QED BY <1>4, <2>2, <2>3 DEF Advance
<1>5. CASE Prepare(p)
  <2>1. UNCHANGED <<db, undone>> /\ r.displaced = None
    BY <1>0, <1>5 DEF Prepare, RestoreAgrees
  <2>2. CASE pc'[p] = "release" /\ UNCHANGED restore
    BY <1>0, <1>1, <2>1, <2>2 DEF RestoreAgrees, Journaling
  <2>3. CASE ~(pc'[p] = "release" /\ UNCHANGED restore)
    <3>1. db # None /\ pc'[p] = "journal"
      BY <1>0, <1>5, <2>3 DEF Prepare, Go
    <3>2. db.gen \in Nat /\ highWater \in Nat
      BY <1>0, <3>1 DEF Database, TInv, TypeOK
    <3>3. r1.displaced = None /\ r1.staged.gen = Fresh(at[p].copy.previous) /\ r1.phase = r.phase
      BY <1>0, <1>5, <2>1, <2>3 DEF Prepare, Go, Restore
    <3>4. r1.staged.gen > db.gen
      BY <3>2, <3>3 DEF Fresh, Larger
    <3> QED BY <1>0, <1>1, <2>1, <3>1, <3>3, <3>4 DEF RestoreAgrees, Journaling
  <2> QED BY <2>2, <2>3
<1>6. CASE OpenJournal(p)
  <2>1. UNCHANGED <<db, undone>> /\ pc[p] = "journal" /\ pc'[p] = "displace"
    BY <1>0, <1>6 DEF OpenJournal, Go, hist
  <2>2. r1.staged = r.staged /\ r1.displaced = r.displaced /\ r1.phase = "open"
    BY <1>0, <1>6 DEF OpenJournal, Restore
  <2> QED BY <1>0, <1>1, <2>1, <2>2 DEF RestoreAgrees, Journaling
<1>7. CASE Displace(p)
  <2>1. UNCHANGED undone /\ pc[p] = "displace" /\ pc'[p] = "install" /\ db' = None
    BY <1>0, <1>7 DEF Displace, Go, hist
  <2>2. r1.staged = r.staged /\ r1.displaced = db /\ r1.phase = r.phase
    BY <1>0, <1>7 DEF Displace, Restore
  <2>3. r.phase = "open"
    BY <1>0, <2>1 DEF RestoreAgrees
  <2> QED BY <1>0, <1>1, <2>1, <2>2, <2>3 DEF RestoreAgrees, Journaling
<1>8. CASE Install(p)
  <2>1. UNCHANGED undone /\ pc[p] = "install" /\ pc'[p] = "verified" /\ db' = r.staged
    BY <1>0, <1>8 DEF Install, Go, hist
  <2>2. r1.displaced = r.displaced /\ r1.phase = r.phase
    BY <1>0, <1>8 DEF Install, Restore
  <2>3. r.staged \in Database /\ r.displaced \in Database
    BY <1>0, <2>1 DEF Restore, RestoreAgrees, TInv, StepsAgree
  <2>4. r.staged.gen \in Nat /\ r.displaced.gen \in Nat
    BY <2>3 DEF Database
  <2>5. ~undone => Behind(r.staged, lead, runner)
    <3>1. \A x \in Runner : /\ lead[x] # None => lead[x].gen \in Nat
                            /\ runner[x].gen \in Nat
      BY DEF TInv, TypeOK, Lead, HostRunner
    <3>2. ~undone => Behind(r.displaced, lead, runner)
      BY <1>0, <2>1 DEF RestoreAgrees
    <3>3. r.staged.gen > r.displaced.gen
      BY <1>0, <2>1 DEF RestoreAgrees
    <3> QED BY <2>4, <3>1, <3>2, <3>3 DEF Behind
  <2>6. db' # None BY <2>1, <2>3, NoneIsNothing
  <2> QED BY <1>0, <1>1, <2>1, <2>2, <2>5, <2>6 DEF RestoreAgrees, Journaling
<1>9. CASE DropDisplaced(p)
  <2>1. UNCHANGED <<db, undone>> /\ pc[p] = "verified" /\ pc'[p] = "close"
    BY <1>0, <1>9 DEF DropDisplaced, Go, hist
  <2>2. r1.displaced = None /\ r1.phase = "dropped"
    BY <1>0, <1>9 DEF DropDisplaced, Restore
  <2> QED BY <1>0, <1>1, <2>1, <2>2 DEF RestoreAgrees, Journaling
<1>10. CASE CloseJournal(p)
  <2>1. UNCHANGED <<db, undone>> /\ pc[p] = "close" /\ pc'[p] = "return"
    BY <1>0, <1>10 DEF CloseJournal, Go, hist
  <2>2. r1.displaced = r.displaced
    BY <1>0, <1>10 DEF CloseJournal, Restore
  <2> QED BY <1>0, <1>1, <2>1, <2>2 DEF RestoreAgrees, Journaling
<1>11. CASE RestoreFails(p)
  <2>1. UNCHANGED <<db, undone, restore>>
    BY <1>11 DEF RestoreFails, files, hist
  <2>2. /\ pc[p] \in {"verified", "close"} => pc'[p] = "remove"
        /\ pc[p] \notin {"verified", "close"} => pc'[p] = "undo"
        /\ pc[p] \in {"journal", "displace", "install", "verified", "close"}
    BY <1>0, <1>11 DEF RestoreFails, Go
  <2>3. RestoreAgrees(p)'
    <3>1. CASE pc[p] = "verified" BY <1>0, <1>1, <2>1, <2>2, <3>1 DEF RestoreAgrees
    <3>2. CASE pc[p] = "close" BY <1>0, <1>1, <2>1, <2>2, <3>2 DEF RestoreAgrees
    <3>3. CASE pc[p] = "install" BY <1>0, <1>1, <2>1, <2>2, <3>3 DEF RestoreAgrees
    <3>4. CASE pc[p] \in {"journal", "displace"}
      BY <1>0, <1>1, <2>1, <2>2, <3>4 DEF RestoreAgrees
    <3> QED BY <2>2, <3>1, <3>2, <3>3, <3>4
  <2> QED BY <1>0, <1>1, <2>1, <2>3 DEF Journaling
<1>12. CASE RemoveInstalled(p)
  <2>1. UNCHANGED restore /\ pc[p] = "remove"
    BY <1>12 DEF RemoveInstalled
  <2>2. CASE pc'[p] = "release" /\ UNCHANGED <<db, undone>>
    BY <1>0, <1>1, <2>1, <2>2 DEF RestoreAgrees, Journaling
  <2>3. CASE pc'[p] = "undo" /\ db' = None /\ undone'
    <3>1. \/ r.phase = "dropped" /\ r.displaced = None
          \/ r.phase = "open" /\ r.displaced # None
      BY <1>0, <2>1 DEF RestoreAgrees
    <3>2. r.displaced # None => r.phase = "open"
      BY <1>0, <2>1, <3>1 DEF RestoreAgrees
    <3>3. RestoreAgrees(p)'
      BY <1>1, <2>1, <2>3, <3>2 DEF RestoreAgrees
    <3>4. Journaling'
      BY <2>1, <3>1 DEF Journaling
    <3> QED BY <2>3, <3>3, <3>4
  <2> QED BY <1>0, <1>12, <2>2, <2>3 DEF RemoveInstalled, Go
<1>13. CASE PutBack(p)
  <2>0. CASE pc'[p] = "release" /\ UNCHANGED <<db, restore, undone>>
    <3>1. pc[p] = "undo"
      BY <1>13 DEF PutBack
    <3> QED BY <1>0, <1>1, <2>0, <3>1 DEF RestoreAgrees, Journaling
  <2> SUFFICES ASSUME ~(pc'[p] = "release" /\ UNCHANGED <<db, restore, undone>>)
               PROVE  RestoreAgrees(p)' /\ Journaling'
                      /\ (~undone' /\ db' # None => Behind(db', lead, runner))
    BY <2>0
  <2>1. UNCHANGED undone /\ pc[p] = "undo" /\ pc'[p] = IF r.phase = "dropped" THEN "release" ELSE "abort"
    BY <1>0, <1>13 DEF PutBack, Go, hist
  <2>2. r1.displaced = None /\ r1.phase = r.phase
    BY <1>0, <1>13 DEF PutBack, Go, hist, Restore
  <2>3. CASE r.displaced = None
    BY <1>0, <1>1, <1>13, <2>1, <2>2, <2>3 DEF PutBack, RestoreAgrees, Journaling
  <2>4. CASE r.displaced # None
    <3>1. db' = r.displaced BY <1>0, <1>13, <2>4 DEF PutBack, Go, hist
    <3> QED BY <1>0, <1>1, <2>1, <2>2, <2>4, <3>1 DEF RestoreAgrees, Journaling
  <2> QED BY <2>3, <2>4
<1>14. CASE Abort(p)
  <2>1. UNCHANGED <<db, undone>> /\ pc[p] = "abort" /\ pc'[p] = "release"
    BY <1>0, <1>14 DEF Abort, Go, hist
  <2>2. r1.displaced = r.displaced
    BY <1>0, <1>14 DEF Abort, Restore
  <2> QED BY <1>0, <1>1, <2>1, <2>2 DEF RestoreAgrees, Journaling
<1> QED BY <1>4, <1>5, <1>6, <1>7, <1>8, <1>9, <1>10, <1>11, <1>12, <1>13, <1>14

LEMMA FStep == ASSUME TInv, Owned, FInv, [Next]_vars, ~misjudged' PROVE FInv'
<1>1. CASE UNCHANGED vars
  BY <1>1 DEF vars, files, host, hist, FInv, RestoreAgrees, Journaling
<1>2. ASSUME NEW p \in Proc, Operate(p) \/ ProcessDies(p) PROVE FInv'
  BY <1>2, FOutside, FFiles DEF Operate
<1>3. ASSUME NEW p \in Proc, NEW k \in Kind, Misjudge(p, k) PROVE FALSE
  BY <1>3 DEF Misjudge
<1> QED BY <1>1, <1>2, <1>3, FHost DEF Next

\* Both, for as long as no claim is misjudged.
OwnedFiles == ~misjudged => Owned /\ FInv

LEMMA OwnedFilesInit == Init => OwnedFiles
BY FInit DEF Init, OwnedFiles, Owned, Working, Alive

LEMMA OwnedFilesStep == TInv /\ OwnedFiles /\ [Next]_vars => OwnedFiles'
BY OwnedStep, FStep, MisjudgedStays DEF OwnedFiles

\* Upgrade and rollback leave no writer of the state before them that the database
\* would accept, unless an installed restore is undone.
THEOREM Fenced == Spec => []StaleWritersAreFenced
<1>1. OwnedFiles => StaleWritersAreFenced
  BY FencedByFInv DEF OwnedFiles, StaleWritersAreFenced
<1> QED BY <1>1, TypeInit, TypeStep, OwnedFilesInit, OwnedFilesStep, PTL DEF Spec

\* A restore that stops anywhere leaves the database in its place, or in a file
\* that an open journal names.
THEOREM Journaled == Spec => []DisplacedStateIsJournaled
<1>1. OwnedFiles => DisplacedStateIsJournaled
  BY DEF OwnedFiles, FInv, Journaling, DisplacedStateIsJournaled
<1> QED BY <1>1, TypeInit, TypeStep, OwnedFilesInit, OwnedFilesStep, PTL DEF Spec

-----------------------------------------------------------------------------
(* What the versions have written.                                         *)

\* Nothing in d is newer than the version c.
Low(d, c) == \A x \in d.data : x <= c

\* The invocations begin in their order, and the versions of the row are those of
\* invocations that have begun.
InOrder  == \A q, x \in Proc : x < q /\ pc[q] # "new" => pc[x] # "new"
Begun(c) == c = 1 \/ \E q \in Proc : c = Staged(q) /\ pc[q] # "new"
Activated ==
    /\ InOrder /\ Begun(row.active.code)
    /\ row.previous # None => Begun(row.previous.code)

\* A process at work has the pairs of the row in its copy, a host that is to be
\* replaced has been told to stop, and no version comes from a later invocation.
Stopped == {"stopping", "probing", "snapshot", "advance", "cutover"} \cup Restoring

Holding(p) ==
    /\ Working(p) /\ pc[p] # "manifest" =>
           /\ at[p].copy.active = row.active /\ at[p].copy.previous = row.previous
           /\ row.active.code <= p
    /\ pc[p] \in Stopped => row.stop

\* Both snapshots of the row are older than both of its versions.
PairsAreLow ==
    row.previous # None =>
        /\ Low(row.active.state, row.active.code) /\ Low(row.active.state, row.previous.code)
        /\ Low(row.previous.state, row.active.code) /\ Low(row.previous.state, row.previous.code)

\* The copies of the database that one process holds.
CopiesAreLow(p) ==
    /\ pc[p] \in {"advance", "cutover"} => Low(at[p].snap, row.active.code)
    /\ pc[p] \in {"journal", "displace", "install"} =>
           restore[p].staged.data = row.previous.state.data
    /\ pc[p] \in {"install", "verified", "remove", "undo"} /\ restore[p].displaced # None =>
           Low(restore[p].displaced, row.active.code)
    /\ pc[p] \in {"verified", "close", "return"} /\ db # None => Low(db, row.previous.code)
    /\ pc[p] \in {"install", "verified", "close", "return"} => \A r \in Runner : lead[r] = None

\* A Lead is as old as the database it may write, and there is one.
LeadsAreLow ==
    \A r \in Runner : lead[r] # None =>
        /\ db # None
        /\ lead[r].gen <= db.gen
        /\ lead[r].gen = db.gen => lead[r].code <= row.active.code

Lows ==
    /\ PairsAreLow /\ LeadsAreLow
    /\ \A p \in Proc : CopiesAreLow(p)
    /\ db # None => Low(db, row.active.code)

VInv == Activated /\ (\A p \in Proc : Holding(p)) /\ (~unbidden => Lows)

LEMMA RowPairs ==
    ASSUME NEW w \in Row, NEW x \in Pair, NEW y \in Pair \cup {None}
    PROVE  /\ [w EXCEPT !.stop = TRUE, !.active = x, !.previous = y].active = x
           /\ [w EXCEPT !.stop = TRUE, !.active = x, !.previous = y].previous = y
           /\ [w EXCEPT !.stop = TRUE, !.active = x, !.previous = y].stop = TRUE
BY DEF Row

\* What the actions that write the row make of it.
LEMMA RowWrites ==
    ASSUME TInv, \A q \in Proc : Holding(q), NEW p \in Proc
    PROVE  /\ WithdrawIntent(p) => row'.active = row.active /\ row'.previous = row.previous
           /\ RecordIntent(p) => /\ row'.active = row.active /\ row'.previous = row.previous
                                 /\ row'.stop
           /\ Cutover(p) => /\ row'.active = [code |-> Staged(p), state |-> at[p].snap]
                            /\ row'.previous = [code |-> row.active.code, state |-> at[p].snap]
                            /\ row'.stop
           /\ Return(p) => /\ row'.active = row.previous /\ row'.previous = row.active
                           /\ row'.stop /\ row.previous # None
           /\ Release(p) => /\ row'.active = row.active /\ row'.previous = row.previous
                            /\ row'.stop = row.stop
           /\ \A k \in Kind : Claim(p, k) => /\ row'.active = row.active
                                             /\ row'.previous = row.previous /\ row'.stop = row.stop
<1>0. /\ at[p] \in Hold /\ at[p].copy \in Row /\ row \in Row
      /\ at[p].snap \in Database /\ Staged(p) \in Code
  BY StagedIsCode DEF TInv, TypeOK, Hold
<1>9. /\ row.op \in Proc \cup {None} /\ at[p].copy.active \in Pair
      /\ at[p].copy.previous \in Pair \cup {None} /\ at[p].copy.active.code \in Code
  BY <1>0 DEF Row, Pair
<1>1. pc[p] \in {"resume", "intent", "cutover", "return"} =>
         at[p].copy.active = row.active /\ at[p].copy.previous = row.previous
  BY DEF Holding, Working, Alive
<1>2. ASSUME WithdrawIntent(p) PROVE row'.active = row.active /\ row'.previous = row.previous
  BY <1>0, <1>1, <1>2 DEF WithdrawIntent, Row
<1>3. ASSUME RecordIntent(p)
      PROVE  row'.active = row.active /\ row'.previous = row.previous /\ row'.stop
  BY <1>0, <1>1, <1>3 DEF RecordIntent, Row
<1>4. ASSUME Cutover(p)
      PROVE  /\ row'.active = [code |-> Staged(p), state |-> at[p].snap]
             /\ row'.previous = [code |-> row.active.code, state |-> at[p].snap]
             /\ row'.stop
  <2>1. [code |-> Staged(p), state |-> at[p].snap] \in Pair
        /\ [code |-> at[p].copy.active.code, state |-> at[p].snap] \in Pair
    BY <1>0, <1>9 DEF Pair
  <2> QED BY <1>0, <1>1, <1>4, <1>9, <2>1, RowPairs DEF Cutover
<1>5. ASSUME Return(p)
      PROVE  row'.active = row.previous /\ row'.previous = row.active /\ row'.stop /\ row.previous # None
  <2>1. at[p].copy.previous # None
    BY <1>5 DEF Return, TInv, StepsAgree, Restoring
  <2> QED BY <1>0, <1>1, <1>5, <1>9, <2>1, RowPairs DEF Return
<1>6. ASSUME Release(p)
      PROVE  row'.active = row.active /\ row'.previous = row.previous /\ row'.stop = row.stop
  BY <1>0, <1>6 DEF Release, Row
<1>7. ASSUME NEW k \in Kind, Claim(p, k)
      PROVE  row'.active = row.active /\ row'.previous = row.previous /\ row'.stop = row.stop
  BY <1>0, <1>7 DEF Claim, Takes, Row
<1> QED BY <1>2, <1>3, <1>4, <1>5, <1>6, <1>7

\* No process is new again, and those that begin do so in their order.
LEMMA PlacesMoveOn ==
    ASSUME TInv, InOrder, Next
    PROVE  InOrder' /\ \A q \in Proc : pc[q] # "new" => pc'[q] # "new"
<1>0. pc \in [Proc -> Place]
  BY DEF TInv, TypeOK
<1>1. ASSUME NEW p \in Proc, Operate(p) \/ ProcessDies(p) \/ \E k \in Kind : Misjudge(p, k)
      PROVE  /\ \A q \in Proc \ {p} : pc'[q] = pc[q]
             /\ pc'[p] # "new"
             /\ pc[p] # "new" \/ Begins(p)
  BY <1>0, <1>1 DEF Operate, Claim, Misjudge, Takes, Refuse, Release, Throws, WithdrawIntent, Spawn,
     Connect, Stage, Verify, RecordIntent, StopHost, AwaitGone, Snapshot, Advance, Cutover,
     WriteManifest, Prepare, OpenJournal, Displace, Install, DropDisplaced, CloseJournal,
     RestoreFails, RemoveInstalled, PutBack, Abort, Return, ProcessDies, Go, Alive, Kind
<1>2. ASSUME NEW r \in Runner, Host(r) \/ RunnerDies(r) PROVE UNCHANGED pc
  BY <1>2 DEF Host, ReadRow, ReadGeneration, Launch, LeadExits, Shutdown, OrphanExits, Write,
     RunnerDies
<1>3. ASSUME NEW p \in Proc, \A q \in Proc \ {p} : pc'[q] = pc[q], pc'[p] # "new",
             pc[p] # "new" \/ Begins(p)
      PROVE  InOrder' /\ \A q \in Proc : pc[q] # "new" => pc'[q] # "new"
  BY <1>3 DEF InOrder, Begins
<1>4. ASSUME UNCHANGED pc
      PROVE  InOrder' /\ \A q \in Proc : pc[q] # "new" => pc'[q] # "new"
  BY <1>4 DEF InOrder
<1> QED BY <1>1, <1>2, <1>3, <1>4 DEF Next

LEMMA ActivatedStep ==
    ASSUME TInv, Activated, \A q \in Proc : Holding(q), [Next]_vars, ~misjudged'
    PROVE  Activated'
<1>1. CASE UNCHANGED vars
  BY <1>1 DEF vars, Activated, InOrder, Begun
<1>2. ASSUME Next PROVE Activated'
  <2>0. InOrder' /\ \A q \in Proc : pc[q] # "new" => pc'[q] # "new"
    BY <1>2, PlacesMoveOn DEF Activated
  <2>1. \A c : Begun(c) => Begun(c)'
    BY <2>0 DEF Begun
  <2>2. ASSUME row'.active = row.active /\ row'.previous = row.previous PROVE Activated'
    BY <2>0, <2>1, <2>2 DEF Activated
  <2>3. ASSUME NEW p \in Proc, Cutover(p) PROVE Activated'
    <3>1. /\ row'.active.code = Staged(p)
          /\ row'.previous.code = row.active.code
      <4>1. /\ row'.active = [code |-> Staged(p), state |-> at[p].snap]
            /\ row'.previous = [code |-> row.active.code, state |-> at[p].snap]
        BY <2>3, RowWrites
      <4> QED BY <4>1
    <3>2. pc[p] # "new"
      BY <2>3 DEF Cutover
    <3>3. Begun(Staged(p))'
      BY <2>0, <3>2 DEF Begun
    <3> QED BY <2>0, <2>1, <3>1, <3>3 DEF Activated
  <2>4. ASSUME NEW p \in Proc, Return(p) PROVE Activated'
    <3>1. row'.active = row.previous /\ row'.previous = row.active /\ row.previous # None
      BY <2>4, RowWrites
    <3> QED BY <2>0, <2>1, <3>1 DEF Activated
  <2>5. ASSUME NEW p \in Proc, Operate(p) \/ ProcessDies(p), ~Cutover(p), ~Return(p)
        PROVE  row'.active = row.active /\ row'.previous = row.previous
    BY <2>5, RowWrites DEF Operate, ProcessDies, Refuse, Throws, Spawn, Connect, Stage, Verify,
       StopHost, AwaitGone, Snapshot, Advance, WriteManifest, Prepare, OpenJournal, Displace,
       Install, DropDisplaced, CloseJournal, RestoreFails, RemoveInstalled, PutBack, Abort
  <2>6. ASSUME NEW r \in Runner, Host(r) \/ RunnerDies(r) PROVE UNCHANGED row
    BY <2>6 DEF Host, ReadRow, ReadGeneration, Launch, LeadExits, Shutdown, OrphanExits, Write,
       RunnerDies
  <2>7. ASSUME NEW p \in Proc, NEW k \in Kind, Misjudge(p, k) PROVE FALSE
    BY <2>7 DEF Misjudge
  <2> QED BY <1>2, <2>2, <2>3, <2>4, <2>5, <2>6, <2>7 DEF Next
<1> QED BY <1>1, <1>2

LEMMA HoldingStep ==
    ASSUME TInv, Owned, Activated, \A p \in Proc : Holding(p), [Next]_vars, ~misjudged'
    PROVE  \A p \in Proc : Holding(p)'
<1>0. /\ pc \in [Proc -> Place] /\ kind \in [Proc -> Kind] /\ at \in [Proc -> Hold]
      /\ \A q \in Proc : at[q] \in Hold /\ at[q].copy \in Row /\ q \in Nat
  BY StagedIsCode DEF TInv, TypeOK, Hold
<1>1. ASSUME NEW p \in Proc, Operate(p) \/ ProcessDies(p) PROVE \A q \in Proc : Holding(q)'
  <2>0. Holding(p) OBVIOUS
  <2>1. ASSUME NEW k \in Kind, Claim(p, k) PROVE \A q \in Proc : Holding(q)'
    <3>1. \A q \in Proc : ~Working(q)
      BY <2>1, NoneIsNothing DEF Claim, Held, Owned, Working, Alive
    <3>2. at'[p].copy = row' /\ \A q \in Proc \ {p} : pc'[q] = pc[q]
      BY <2>1, <1>0, HoldFields DEF Claim, Takes, Go, Hold
    <3>3. pc'[p] \in {"stage", "verify", "intent", "resume"} /\ (pc'[p] = "intent" => k = "stop")
      BY <2>1, <1>0 DEF Claim, Takes, Go, Kind
    <3>4. row'.active = row.active /\ row.active.code <= p
      <4>1. row'.active = row.active
        BY <2>1, RowWrites
      <4>2. \A q \in Proc : pc[q] # "new" => q + 1 <= p
        BY <1>0, <2>1 DEF Claim, Begins, Activated, InOrder
      <4>3. Begun(row.active.code) /\ 1 <= p
        BY DEF Activated, Proc
      <4> QED BY <4>1, <4>2, <4>3 DEF Begun, Staged
    <3>5. Holding(p)'
      BY <3>2, <3>3, <3>4 DEF Holding, Stopped, Restoring
    <3>6. ASSUME NEW q \in Proc \ {p} PROVE Holding(q)'
      <4>1. pc'[q] \in {"new", "release", "done", "dead"}
        BY <1>0, <3>1, <3>2 DEF Working, Alive
      <4> QED BY <4>1 DEF Holding, Stopped, Restoring, Working, Alive
    <3> QED BY <3>5, <3>6
  <2>2. CASE Release(p) \/ Refuse(p) \/ ProcessDies(p)
    <3>1. pc'[p] \in {"done", "dead"} /\ \A q \in Proc \ {p} : UNCHANGED <<pc[q], at[q], kind[q]>>
      BY <2>2, <1>0 DEF Release, Refuse, ProcessDies, Go, Forget
    <3>2. row'.active = row.active /\ row'.previous = row.previous /\ row'.stop = row.stop
      BY <2>2, RowWrites DEF Refuse, ProcessDies
    <3> QED BY <3>1, <3>2 DEF Holding, Stopped, Restoring, Working, Alive
  <2>3. CASE ~(Release(p) \/ Refuse(p) \/ ProcessDies(p) \/ \E k \in Kind : Claim(p, k))
    <3>1. /\ Working(p) /\ \A q \in Proc \ {p} : pc'[q] = pc[q]
          /\ UNCHANGED kind
      BY <1>0, <1>1, <2>3 DEF Operate, Throws, WithdrawIntent, Spawn, Connect, Stage, Verify, RecordIntent,
         StopHost, AwaitGone, Snapshot, Advance, Cutover, WriteManifest, Prepare, OpenJournal,
         Displace, Install, DropDisplaced, CloseJournal, RestoreFails, RemoveInstalled, PutBack,
         Abort, Return, Go, Working, Alive
    <3>2. ASSUME NEW q \in Proc \ {p} PROVE Holding(q)'
      <4>1. pc'[q] \in {"new", "release", "done", "dead"}
        BY <3>1, Alone
      <4> QED BY <4>1 DEF Holding, Stopped, Restoring, Working, Alive
    <3> SUFFICES Holding(p)'
      BY <3>2
    <3>3. CASE WithdrawIntent(p)
      <4>1. pc'[p] = "spawn" /\ UNCHANGED at /\ pc[p] = "resume"
        BY <1>0, <3>3 DEF WithdrawIntent, Go
      <4> QED BY <2>0, <3>3, <4>1, RowWrites DEF Holding, Stopped, Restoring, Working, Alive
    <3>4. CASE RecordIntent(p)
      <4>1. pc'[p] = "stopping" /\ UNCHANGED <<at, kind>> /\ pc[p] = "intent"
        BY <1>0, <3>4 DEF RecordIntent, Go
      <4> QED BY <2>0, <3>4, <4>1, RowWrites DEF Holding, Stopped, Restoring, Working, Alive
    <3>5. CASE Cutover(p) \/ Return(p)
      <4>1. pc'[p] = "manifest"
        BY <1>0, <3>5 DEF Cutover, Return, Go
      <4> QED BY <4>1 DEF Holding, Stopped, Restoring
    <3>6. CASE Stage(p)
      <4>1. pc'[p] = "intent" /\ pc[p] = "stage" /\ UNCHANGED <<row, at>>
        BY <1>0, <3>6 DEF Stage, Go
      <4> QED BY <2>0, <4>1 DEF Holding, Stopped, Restoring, Working, Alive
    <3>7. CASE Snapshot(p)
      <4>1. at'[p].copy = at[p].copy
        BY <1>0, <3>7, HoldFields DEF Snapshot, Hold
      <4>2. pc'[p] \in {"advance", "release"} /\ pc[p] = "snapshot" /\ UNCHANGED row
        BY <1>0, <3>7 DEF Snapshot, Go
      <4> QED BY <2>0, <4>1, <4>2 DEF Holding, Stopped, Restoring, Working, Alive
    <3>8. CASE AwaitGone(p)
      <4>1. pc[p] = "probing" /\ UNCHANGED <<row, at>>
            /\ (pc'[p] = "release" \/ pc'[p] = "prepare" \/ (pc'[p] = "snapshot" /\ kind[p] = "upgrade"))
        BY <1>0, <3>8 DEF AwaitGone, Go
      <4> QED BY <2>0, <4>1 DEF Holding, Stopped, Restoring, Working, Alive
    <3>9. CASE Verify(p)
      <4>1. pc[p] = "verify" /\ UNCHANGED <<row, at, kind>> /\ pc'[p] \in {"release", "intent"}
        BY <1>0, <3>9 DEF Verify, Go
      <4>2. kind[p] = "rollback"
        BY <4>1 DEF TInv, StepsAgree
      <4> QED BY <2>0, <4>1, <4>2 DEF Holding, Stopped, Restoring, Working, Alive
    <3>10. CASE Throws(p) \/ Spawn(p) \/ Connect(p) \/ WriteManifest(p) \/ StopHost(p) \/ Advance(p)
      <4>1. /\ UNCHANGED <<row, at, kind>>
            /\ \/ pc'[p] \in {"release", "connect"}
               \/ pc[p] = "stopping" /\ pc'[p] = "probing"
               \/ pc[p] = "advance" /\ pc'[p] = "cutover"
            /\ pc'[p] = "connect" => pc[p] = "spawn"
        BY <1>0, <3>10 DEF Throws, Spawn, Connect, WriteManifest, StopHost, Advance, Go
      <4> QED BY <2>0, <4>1 DEF Holding, Stopped, Restoring, Working, Alive
    <3>11. CASE \/ Prepare(p) \/ OpenJournal(p) \/ Displace(p) \/ Install(p) \/ DropDisplaced(p)
                \/ CloseJournal(p) \/ RestoreFails(p) \/ RemoveInstalled(p) \/ PutBack(p) \/ Abort(p)
      <4>1. /\ UNCHANGED <<row, at, kind>> /\ pc[p] \in Restoring
            /\ pc'[p] \in (Restoring \cup {"release"}) \ {"snapshot", "advance", "cutover", "intent",
                                                          "stopping", "probing", "manifest"}
        BY <1>0, <3>11 DEF Prepare, OpenJournal, Displace, Install, DropDisplaced, CloseJournal,
           RestoreFails, RemoveInstalled, PutBack, Abort, Go, Restoring
      <4> QED BY <2>0, <4>1 DEF Holding, Stopped, Restoring, Working, Alive
    <3> QED BY <1>1, <2>3, <3>3, <3>4, <3>5, <3>6, <3>7, <3>8, <3>9, <3>10, <3>11 DEF Operate
  <2> QED BY <2>1, <2>2, <2>3
<1>2. ASSUME NEW r \in Runner, Host(r) \/ RunnerDies(r) PROVE \A q \in Proc : Holding(q)'
  <2>1. UNCHANGED <<row, at, pc, kind>>
    BY <1>2 DEF Host, ReadRow, ReadGeneration, Launch, LeadExits, Shutdown, OrphanExits, Write,
         RunnerDies
  <2> QED BY <2>1 DEF Holding, Working, Alive
<1>3. CASE UNCHANGED vars
  BY <1>3 DEF vars, Holding, Working, Alive
<1>4. ASSUME NEW p \in Proc, NEW k \in Kind, Misjudge(p, k) PROVE FALSE
  BY <1>4 DEF Misjudge
<1> QED BY <1>1, <1>2, <1>3, <1>4 DEF Next

\* The host: a Lead is launched on the row as it is, where nothing is stopped.
LEMMA LowHost ==
    ASSUME TInv, Owned, VInv, NEW r \in Runner, Host(r) \/ RunnerDies(r), Lows, ~unbidden'
    PROVE  Lows'
<1>0. /\ UNCHANGED <<row, at, pc, restore>> /\ db \in Database \cup {None}
  BY DEF Host, ReadRow, ReadGeneration, Launch, LeadExits, Shutdown, OrphanExits, Write,
         RunnerDies, files, TInv, TypeOK
<1>1. CASE \/ ReadRow(r) \/ ReadGeneration(r) \/ LeadExits(r) \/ Shutdown(r) \/ OrphanExits(r)
           \/ RunnerDies(r)
  <2>1. UNCHANGED db /\ \A x \in Runner : lead'[x] = lead[x] \/ lead'[x] = None
    BY <1>1 DEF ReadRow, ReadGeneration, LeadExits, Shutdown, OrphanExits, RunnerDies, files,
       TInv, TypeOK
  <2> QED BY <1>0, <2>1 DEF Lows, PairsAreLow, LeadsAreLow, CopiesAreLow
<1>2. CASE Launch(r)
  <2>1. CASE UNCHANGED lead
    BY <1>0, <1>2, <2>1 DEF Launch, files, Lows, PairsAreLow, LeadsAreLow, CopiesAreLow
  <2>2. CASE ~UNCHANGED lead
    <3>1. /\ db # None /\ db.gen = runner[r].gen /\ ~row.stop /\ runner[r].code = row.active.code
          /\ lead' = [lead EXCEPT ![r] = [code |-> runner[r].code, gen |-> runner[r].gen,
                                          era |-> runner[r].era]]
          /\ UNCHANGED db
      BY <1>2, <2>2 DEF Launch, files
    <3>2. \A p \in Proc : pc[p] \notin Stopped
      BY <3>1 DEF VInv, Holding
    <3>3. /\ lead'[r] = [code |-> runner[r].code, gen |-> runner[r].gen, era |-> runner[r].era]
          /\ \A x \in Runner \ {r} : lead'[x] = lead[x]
      BY <3>1 DEF TInv, TypeOK
    <3>4. LeadsAreLow'
      <4>1. db.gen \in Nat /\ runner[r].code \in Nat
        BY <3>1, <1>0 DEF Database, TInv, TypeOK, HostRunner, Code
      <4> QED BY <1>0, <3>1, <3>3, <4>1 DEF Lows, LeadsAreLow
    <3> QED BY <1>0, <3>1, <3>2, <3>4 DEF Lows, PairsAreLow, CopiesAreLow, Stopped, Restoring
  <2> QED BY <2>1, <2>2
<1>3. CASE Write(r)
  <2>1. lead[r] # None /\ db \in Database /\ db.gen = lead[r].gen /\ UNCHANGED <<lead>>
        /\ db' = [db EXCEPT !.data = @ \cup {lead[r].code}]
    BY <1>0, <1>3 DEF Write, host
  <2>2. lead[r].code <= row.active.code /\ lead[r].code \in Code
    BY <2>1 DEF Lows, LeadsAreLow, TInv, TypeOK, Lead
  <2>3. db' \in Database /\ db'.gen = db.gen /\ db'.data = db.data \cup {lead[r].code}
    BY <2>1, <2>2 DEF Database
  <2>4. Low(db', row.active.code) /\ db' # None
    BY <2>1, <2>2, <2>3, NoneIsNothing DEF Lows, Low
  <2>5. \A p \in Proc : pc[p] \notin {"verified", "close", "return"}
    BY <2>1 DEF Lows, CopiesAreLow
  <2> QED BY <1>0, <2>1, <2>3, <2>4, <2>5 DEF Lows, PairsAreLow, LeadsAreLow, CopiesAreLow
<1> QED BY <1>1, <1>2, <1>3 DEF Host

\* The actions of a process that leave the files where they are.
LEMMA LowOutside ==
    ASSUME TInv, Owned, FInv, VInv, Lows, NEW p \in Proc,
           \/ \E k \in Kind : Claim(p, k)
           \/ Refuse(p) \/ Release(p) \/ Throws(p) \/ WithdrawIntent(p) \/ Spawn(p) \/ Connect(p)
           \/ Stage(p) \/ Verify(p) \/ RecordIntent(p) \/ StopHost(p) \/ AwaitGone(p)
           \/ Snapshot(p) \/ WriteManifest(p) \/ ProcessDies(p)
    PROVE  Lows'
<1>0. UNCHANGED <<db, restore>>
  BY DEF Claim, Takes, Refuse, Release, Throws, WithdrawIntent, Spawn, Connect, Stage, Verify,
         RecordIntent, StopHost, AwaitGone, Snapshot, WriteManifest, ProcessDies, files
<1>1. row'.active = row.active /\ row'.previous = row.previous
  BY RowWrites DEF VInv, Refuse, Throws, Spawn, Connect, Stage, Verify, StopHost, AwaitGone,
     Snapshot, WriteManifest, ProcessDies
<1>2. \A r \in Runner : lead'[r] = lead[r] \/ lead'[r] = None
  BY DEF Claim, Takes, Refuse, Release, Throws, WithdrawIntent, Spawn, Connect, Stage, Verify,
         RecordIntent, StopHost, AwaitGone, Snapshot, WriteManifest, ProcessDies, host
<1>3. \A q \in Proc \ {p} : pc'[q] = pc[q] /\ at'[q] = at[q]
  BY DEF Claim, Takes, Refuse, Release, Throws, WithdrawIntent, Spawn, Connect, Stage, Verify,
         RecordIntent, StopHost, AwaitGone, Snapshot, WriteManifest, ProcessDies, Go, Forget,
         TInv, TypeOK
<1>4. pc'[p] \in {"new", "resume", "spawn", "connect", "stage", "verify", "intent", "stopping",
                  "probing", "snapshot", "prepare", "release", "done", "dead"}
      \/ (Snapshot(p) /\ db # None /\ at'[p].snap = db)
  BY DEF Claim, Takes, Refuse, Release, Throws, WithdrawIntent, Spawn, Connect, Stage, Verify,
         RecordIntent, StopHost, AwaitGone, Snapshot, WriteManifest, ProcessDies, Go,
         TInv, TypeOK, Hold, Kind
<1>5. CopiesAreLow(p)'
  <2>1. Snapshot(p) => pc'[p] \in {"release", "advance"}
    BY DEF Snapshot, Go, TInv, TypeOK
  <2> QED BY <1>0, <1>1, <1>4, <2>1 DEF Lows, CopiesAreLow
<1>6. ASSUME NEW q \in Proc \ {p} PROVE CopiesAreLow(q)'
  BY <1>0, <1>1, <1>2, <1>3, <1>6 DEF Lows, CopiesAreLow
<1> QED BY <1>0, <1>1, <1>2, <1>5, <1>6 DEF Lows, PairsAreLow, LeadsAreLow

\* The two writes of the pairs: an upgrade and a rollback that are through.
LEMMA LowRow ==
    ASSUME TInv, Owned, FInv, VInv, Lows, NEW p \in Proc, Cutover(p) \/ Return(p)
    PROVE  Lows'
<1>0. UNCHANGED <<db, restore, lead, at>> /\ pc'[p] = "manifest" /\ Working(p)
      /\ \A q \in Proc \ {p} : pc'[q] = pc[q]
  BY DEF Cutover, Return, files, host, Go, TInv, TypeOK, Working, Alive
<1>1. \A q \in Proc : CopiesAreLow(q)'
  <2>1. \A q \in Proc \ {p} : pc'[q] \in {"new", "release", "done", "dead"}
    BY <1>0, Alone
  <2> QED BY <1>0, <2>1 DEF CopiesAreLow
<1>2. CASE Cutover(p)
  <2>1. /\ row'.active.code = Staged(p) /\ row'.active.state = at[p].snap
        /\ row'.previous.code = row.active.code /\ row'.previous.state = at[p].snap
    <3>1. /\ row'.active = [code |-> Staged(p), state |-> at[p].snap]
          /\ row'.previous = [code |-> row.active.code, state |-> at[p].snap]
      BY <1>2, RowWrites DEF VInv
    <3> QED BY <3>1
  <2>2. Low(at[p].snap, row.active.code) /\ Staged(p) > row.active.code /\ pc[p] = "cutover"
    <3>1. pc[p] = "cutover" /\ Low(at[p].snap, row.active.code)
      BY <1>2 DEF Cutover, Lows, CopiesAreLow
    <3>2. row.active.code <= p /\ row.active.code \in Nat
      BY <1>0, <3>1 DEF VInv, Holding, TInv, TypeOK, Row, Pair, Code
    <3> QED BY <3>1, <3>2, StagedIsCode
  <2>3. /\ at[p].snap \in Database /\ Staged(p) \in Nat /\ row.active.code \in Nat
        /\ db \in Database \cup {None} /\ \A r \in Runner : lead[r] \in Lead \cup {None}
    BY StagedIsCode DEF TInv, TypeOK, Hold, Code, Row, Pair
  <2>4. \A d \in Database : Low(d, row.active.code) => Low(d, Staged(p))
    BY <2>2, <2>3 DEF Low, Database, Code
  <2>5. PairsAreLow' /\ (db # None => Low(db, row'.active.code))
    BY <2>1, <2>2, <2>3, <2>4 DEF PairsAreLow, Lows
  <2>6. LeadsAreLow'
    <3>1. \A r \in Runner : lead[r] # None => lead[r].code \in Nat
      BY <2>3 DEF Lead, Code
    <3> QED BY <1>0, <2>1, <2>2, <2>3, <3>1 DEF LeadsAreLow, Lows
  <2> QED BY <1>0, <1>1, <2>5, <2>6 DEF Lows
<1>3. CASE Return(p)
  <2>1. row'.active = row.previous /\ row'.previous = row.active /\ row.previous # None
    BY <1>3, RowWrites DEF VInv
  <2>2. pc[p] = "return"
    BY <1>3 DEF Return
  <2>3. PairsAreLow'
    BY <2>1 DEF PairsAreLow, Lows
  <2>4. (db # None => Low(db, row.previous.code)) /\ \A r \in Runner : lead[r] = None
    BY <2>2 DEF Lows, CopiesAreLow
  <2> QED BY <1>0, <1>1, <2>1, <2>3, <2>4 DEF Lows, LeadsAreLow
<1> QED BY <1>2, <1>3

\* The actions that move the database.
LEMMA LowFiles ==
    ASSUME TInv, Owned, FInv, VInv, Lows, NEW p \in Proc,
           \/ Advance(p) \/ Prepare(p) \/ OpenJournal(p) \/ Displace(p) \/ Install(p)
           \/ DropDisplaced(p) \/ CloseJournal(p) \/ RestoreFails(p) \/ RemoveInstalled(p)
           \/ PutBack(p) \/ Abort(p)
    PROVE  Lows'
<1>0. /\ UNCHANGED <<row, lead, at>> /\ Working(p)
      /\ \A q \in Proc \ {p} : pc'[q] = pc[q] /\ restore'[q] = restore[q]
  BY DEF Advance, Prepare, OpenJournal, Displace, Install, DropDisplaced, CloseJournal,
         RestoreFails, RemoveInstalled, PutBack, Abort, files, host, Go, Working, Alive,
         TInv, TypeOK
<1>1. \A q \in Proc \ {p} : CopiesAreLow(q)'
  <2>1. \A q \in Proc \ {p} : pc'[q] \in {"new", "release", "done", "dead"}
    BY <1>0, Alone
  <2> QED BY <2>1 DEF CopiesAreLow
<1>2. PairsAreLow'
  BY <1>0 DEF Lows, PairsAreLow
<1>3. /\ restore[p] \in Restore /\ restore \in [Proc -> Restore] /\ pc \in [Proc -> Place]
      /\ db \in Database \cup {None} /\ RestoreAgrees(p) /\ CopiesAreLow(p)
      /\ pc[p] \notin {"manifest"} => at[p].copy.previous = row.previous
  BY <1>0 DEF TInv, TypeOK, FInv, Lows, VInv, Holding
<1>4. SUFFICES /\ LeadsAreLow' /\ CopiesAreLow(p)'
               /\ db' # None => Low(db', row.active.code)
  BY <1>0, <1>1, <1>2 DEF Lows
<1>5. CASE Advance(p)
  <2>1. UNCHANGED restore /\ pc'[p] \in {"release", "cutover"} /\ pc[p] = "advance" /\ UNCHANGED at
    BY <1>3, <1>5 DEF Advance, Go
  <2>2. CopiesAreLow(p)'
    BY <1>0, <1>3, <2>1 DEF CopiesAreLow
  <2>3. CASE UNCHANGED db
    BY <1>0, <2>2, <2>3 DEF Lows, LeadsAreLow
  <2>4. CASE db # None /\ db' = [db EXCEPT !.gen = db.gen + 1, !.era = eras + 1]
    <3>1. db \in Database /\ db.gen \in Nat
      BY <1>3, <2>4 DEF Database
    <3>2. db'.gen = db.gen + 1 /\ db'.data = db.data /\ db' \in Database
      <4>1. db.gen + 1 \in Nat /\ eras + 1 \in Nat
        BY <3>1 DEF TInv, TypeOK
      <4> QED BY <2>4, <3>1, <4>1 DEF Database
    <3>3. \A r \in Runner : lead[r] # None => lead[r].gen \in Nat
      BY DEF TInv, TypeOK, Lead
    <3>4. LeadsAreLow'
      BY <1>0, <2>4, <3>1, <3>2, <3>3, NoneIsNothing DEF Lows, LeadsAreLow
    <3> QED BY <2>2, <2>4, <3>2, <3>4 DEF Lows, Low
  <2> QED BY <1>5, <2>3, <2>4 DEF Advance
<1>6. CASE Prepare(p)
  <2>1. UNCHANGED db /\ pc'[p] \in {"release", "journal"} /\ pc[p] = "prepare"
    BY <1>3, <1>6 DEF Prepare, Go
  <2>2. pc'[p] = "journal" => restore'[p].staged.data = row.previous.state.data
    BY <1>3, <1>6, <2>1 DEF Prepare, Go, Restore
  <2>3. CopiesAreLow(p)'
    BY <1>0, <2>1, <2>2 DEF CopiesAreLow
  <2> QED BY <1>0, <2>1, <2>3 DEF Lows, LeadsAreLow
<1>7. CASE OpenJournal(p)
  <2>1. UNCHANGED db /\ pc'[p] = "displace" /\ pc[p] = "journal"
        /\ restore'[p].staged = restore[p].staged
    BY <1>3, <1>7 DEF OpenJournal, Go, Restore
  <2>2. CopiesAreLow(p)'
    BY <1>0, <1>3, <2>1 DEF CopiesAreLow
  <2> QED BY <1>0, <2>1, <2>2 DEF Lows, LeadsAreLow
<1>8. CASE Displace(p)
  <2>1. db' = None /\ pc'[p] = "install" /\ pc[p] = "displace" /\ ~IsOpen
        /\ restore'[p].staged = restore[p].staged /\ restore'[p].displaced = db
    BY <1>3, <1>8 DEF Displace, Go, Restore
  <2>2. CopiesAreLow(p)'
    BY <1>0, <1>3, <2>1 DEF CopiesAreLow, IsOpen, Lows, RestoreAgrees
  <2> QED BY <1>0, <2>1, <2>2 DEF LeadsAreLow, IsOpen
<1>9. CASE Install(p)
  <2>1. db' = restore[p].staged /\ pc'[p] = "verified" /\ pc[p] = "install"
        /\ restore'[p].displaced = restore[p].displaced
    BY <1>3, <1>9 DEF Install, Go, Restore
  <2>2. row.previous # None
    BY <1>3, <2>1 DEF TInv, StepsAgree, Restoring
  <2>3. Low(db', row.active.code) /\ Low(db', row.previous.code)
    BY <1>3, <2>1, <2>2 DEF CopiesAreLow, Lows, PairsAreLow, Low
  <2>4. \A r \in Runner : lead[r] = None
    BY <1>3, <2>1 DEF CopiesAreLow
  <2>5. CopiesAreLow(p)'
    BY <1>0, <1>3, <2>1, <2>3, <2>4 DEF CopiesAreLow
  <2> QED BY <1>0, <2>3, <2>4, <2>5 DEF LeadsAreLow
<1>10. CASE DropDisplaced(p) \/ CloseJournal(p)
  <2>1. UNCHANGED db
        /\ (\/ pc[p] = "verified" /\ pc'[p] = "close"
            \/ pc[p] = "close" /\ pc'[p] = "return")
    BY <1>3, <1>10 DEF DropDisplaced, CloseJournal, Go
  <2>2. CopiesAreLow(p)'
    BY <1>0, <1>3, <2>1 DEF CopiesAreLow
  <2> QED BY <1>0, <2>1, <2>2 DEF Lows, LeadsAreLow
<1>11. CASE RestoreFails(p)
  <2>1. UNCHANGED <<db, restore>>
        /\ (\/ pc[p] \in {"verified", "close"} /\ pc'[p] = "remove"
            \/ pc[p] \in {"journal", "displace", "install"} /\ pc'[p] = "undo")
    BY <1>3, <1>11 DEF RestoreFails, Go, files
  <2>2. CopiesAreLow(p)'
    <3>1. restore[p].displaced # None => pc[p] \in {"install", "verified"}
      BY <1>3, <2>1 DEF RestoreAgrees
    <3> QED BY <1>0, <1>3, <2>1, <3>1 DEF CopiesAreLow
  <2> QED BY <1>0, <2>1, <2>2 DEF Lows, LeadsAreLow
<1>12. CASE RemoveInstalled(p)
  <2>1. UNCHANGED restore /\ pc[p] = "remove"
    BY <1>12 DEF RemoveInstalled
  <2>2. CASE UNCHANGED db /\ pc'[p] = "release"
    BY <1>0, <2>1, <2>2 DEF Lows, LeadsAreLow, CopiesAreLow
  <2>3. CASE db' = None /\ pc'[p] = "undo" /\ ~IsOpen
    BY <1>0, <1>3, <2>1, <2>3 DEF Lows, LeadsAreLow, CopiesAreLow, IsOpen
  <2> QED BY <1>3, <1>12, <2>2, <2>3 DEF RemoveInstalled, Go
<1>13. CASE PutBack(p)
  <2>1. pc[p] = "undo" /\ pc'[p] \in {"release", "abort"}
    BY <1>3, <1>13 DEF PutBack, Go
  <2>2. CopiesAreLow(p)'
    BY <2>1 DEF CopiesAreLow
  <2>3. CASE UNCHANGED db
    BY <1>0, <2>1, <2>2, <2>3 DEF Lows, LeadsAreLow
  <2>4. CASE restore[p].displaced # None /\ db' = restore[p].displaced
    <3>1. db = None
      BY <1>3, <2>1, <2>4 DEF RestoreAgrees
    <3>2. \A r \in Runner : lead[r] = None
      BY <3>1 DEF Lows, LeadsAreLow
    <3> QED BY <1>0, <1>3, <2>1, <2>2, <2>4, <3>2 DEF LeadsAreLow, CopiesAreLow
  <2> QED BY <1>13, <2>3, <2>4 DEF PutBack
<1>14. CASE Abort(p)
  <2>1. UNCHANGED db /\ pc'[p] = "release"
    BY <1>3, <1>14 DEF Abort, Go
  <2> QED BY <1>0, <2>1 DEF Lows, LeadsAreLow, CopiesAreLow
<1> QED BY <1>5, <1>6, <1>7, <1>8, <1>9, <1>10, <1>11, <1>12, <1>13, <1>14

LEMMA LowStep ==
    ASSUME TInv, Owned, FInv, VInv, [Next]_vars, ~unbidden', ~misjudged'
    PROVE  Lows'
<1>1. CASE UNCHANGED vars
  <2>1. Lows
    BY <1>1 DEF VInv, vars, hist
  <2> QED BY <1>1, <2>1 DEF vars, files, host, Lows, PairsAreLow, LeadsAreLow, CopiesAreLow
<1>2. ASSUME NEW p \in Proc, Operate(p) \/ ProcessDies(p) PROVE Lows'
  <2>1. UNCHANGED unbidden
    BY <1>2 DEF Operate, ProcessDies, Claim, Refuse, Release, Throws, WithdrawIntent, Spawn, Connect,
       Stage, Verify, RecordIntent, StopHost, AwaitGone, Snapshot, Advance, Cutover, WriteManifest,
       Prepare, OpenJournal, Displace, Install, DropDisplaced, CloseJournal, RestoreFails,
       RemoveInstalled, PutBack, Abort, Return, hist
  <2>2. Lows
    BY <2>1 DEF VInv
  <2> QED BY <1>2, <2>2, LowOutside, LowRow, LowFiles DEF Operate
<1>3. ASSUME NEW r \in Runner, Host(r) \/ RunnerDies(r) PROVE Lows'
  <2>1. ~unbidden
    BY <1>3 DEF Host, RunnerDies, ReadRow, ReadGeneration, Launch, LeadExits, Shutdown,
       OrphanExits, Write, hist
  <2>2. Lows
    BY <2>1 DEF VInv
  <2> QED BY <1>3, <2>2, LowHost
<1>4. ASSUME NEW p \in Proc, NEW k \in Kind, Misjudge(p, k) PROVE FALSE
  BY <1>4 DEF Misjudge
<1> QED BY <1>1, <1>2, <1>3, <1>4 DEF Next

LEMMA VStep == TInv /\ Owned /\ FInv /\ VInv /\ [Next]_vars /\ ~misjudged' => VInv'
BY LowStep, HoldingStep, ActivatedStep DEF VInv

LEMMA VInit == Init => VInv
<1> SUFFICES ASSUME Init PROVE VInv
  OBVIOUS
<1>1. row.previous = None /\ db.data = {} /\ \A r \in Runner : lead[r] = None
  BY DEF Init, FirstRow, First
<1>2. \A p \in Proc : pc[p] = "new"
  BY DEF Init
<1>3. Lows
  BY <1>1, <1>2 DEF Lows, PairsAreLow, LeadsAreLow, CopiesAreLow, Low
<1>4. \A p \in Proc : Holding(p)
  BY <1>2 DEF Holding, Working, Alive, Stopped, Restoring
<1>5. Activated
  BY <1>2 DEF Init, FirstRow, First, Activated, InOrder, Begun
<1> QED BY <1>3, <1>4, <1>5 DEF VInv

\* The whole invariant, for as long as no claim is misjudged.
Orderly == ~misjudged => Owned /\ FInv /\ VInv

LEMMA OrderlyInit == Init => Orderly
BY FInit, VInit DEF Init, Orderly, Owned, Working, Alive

LEMMA OrderlyStep == TInv /\ Orderly /\ [Next]_vars => Orderly'
BY OwnedStep, FStep, VStep, MisjudgedStays DEF Orderly

(* No version meets a state that a version activated after it has written,   *)
(* through upgrades, rollbacks, their failures and deaths, and Leads that     *)
(* outlive their runner, as long as Leads are launched on the row that was    *)
(* read and no claim of a live process is released.                           *)
THEOREM Ordered == Spec => []EarlierVersionsAreSafe
<1>1. Orderly => EarlierVersionsAreSafe
  BY DEF Orderly, VInv, Lows, EarlierVersionsAreSafe, NoVersionMeetsLaterState, Low
<1> QED BY <1>1, TypeInit, TypeStep, OrderlyInit, OrderlyStep, PTL DEF Spec

-----------------------------------------------------------------------------
(* No update of the lifecycle row is lost.                                   *)

\* The pairs of the row stay, an upgrade puts a version before the active one that
\* was never active, both with the one snapshot, or a rollback exchanges the two.
PairsMoveOn ==
    \/ row'.active = row.active /\ row'.previous = row.previous
    \/ /\ row'.active.code > row.active.code
       /\ row'.previous.code = row.active.code
       /\ row'.previous.state = row'.active.state
    \/ row.previous # None /\ row'.active = row.previous /\ row'.previous = row.active

\* The claim of a process that is there is ended by its own release.
ClaimStands ==
    row.op # None /\ Alive(row.op) /\ row'.op # row.op => pc[row.op] = "release" /\ row'.op = None

RowsMoveOn == [][misjudged' \/ (PairsMoveOn /\ ClaimStands)]_vars

LEMMA RowStep ==
    ASSUME TInv, Owned, \A q \in Proc : Holding(q), Next, ~misjudged'
    PROVE  PairsMoveOn /\ ClaimStands
<1>0. /\ pc \in [Proc -> Place] /\ at \in [Proc -> Hold] /\ row \in Row
      /\ \A q \in Proc : at[q] \in Hold /\ at[q].copy \in Row
      /\ row.op \in Proc \cup {None}
  BY DEF TInv, TypeOK, Hold, Row
<1>1. UNCHANGED row => PairsMoveOn /\ ClaimStands
  BY DEF PairsMoveOn, ClaimStands
<1>2. ASSUME NEW p \in Proc, WithdrawIntent(p) \/ RecordIntent(p) \/ Cutover(p) \/ Return(p)
      PROVE  PairsMoveOn /\ ClaimStands
  <2>1. Working(p)
    BY <1>2 DEF WithdrawIntent, RecordIntent, Cutover, Return, Working, Alive
  <2>2. row'.op = at[p].copy.op
    BY <1>0, <1>2 DEF WithdrawIntent, RecordIntent, Cutover, Return, Row
  <2>3. row'.op = row.op
    BY <2>1, <2>2 DEF Owned
  <2>4. CASE WithdrawIntent(p) \/ RecordIntent(p) \/ Return(p)
    BY <2>3, <2>4, RowWrites DEF PairsMoveOn, ClaimStands
  <2>5. CASE Cutover(p)
    <3>1. row'.active = [code |-> Staged(p), state |-> at[p].snap]
          /\ row'.previous = [code |-> row.active.code, state |-> at[p].snap]
      BY <2>5, RowWrites
    <3>2. Staged(p) > row.active.code
      <4>1. row.active.code <= p /\ row.active.code \in Nat
        BY <2>1, <2>5 DEF Cutover, Holding, TInv, TypeOK, Row, Pair, Code
      <4> QED BY <4>1, StagedIsCode
    <3> QED BY <2>3, <3>1, <3>2 DEF PairsMoveOn, ClaimStands
  <2> QED BY <1>2, <2>4, <2>5
<1>3. ASSUME NEW p \in Proc, Release(p) PROVE PairsMoveOn /\ ClaimStands
  <2>1. row'.op = IF row.op = p THEN None ELSE row.op
    BY <1>0, <1>3 DEF Release, Row
  <2>2. pc[p] = "release"
    BY <1>3 DEF Release
  <2> QED BY <1>3, <2>1, <2>2, RowWrites DEF PairsMoveOn, ClaimStands
<1>4. ASSUME NEW p \in Proc, NEW k \in Kind, Claim(p, k) PROVE PairsMoveOn /\ ClaimStands
  BY <1>4, RowWrites DEF Claim, Takes, Held, PairsMoveOn, ClaimStands
<1>5. ASSUME NEW p \in Proc, Operate(p) \/ ProcessDies(p), ~UNCHANGED row
      PROVE  \/ WithdrawIntent(p) \/ RecordIntent(p) \/ Cutover(p) \/ Return(p)
             \/ Release(p) \/ \E k \in Kind : Claim(p, k)
  BY <1>5 DEF Operate, ProcessDies, Refuse, Throws, Spawn, Connect, Stage, Verify, StopHost,
     AwaitGone, Snapshot, Advance, WriteManifest, Prepare, OpenJournal, Displace, Install,
     DropDisplaced, CloseJournal, RestoreFails, RemoveInstalled, PutBack, Abort
<1>6. ASSUME NEW r \in Runner, Host(r) \/ RunnerDies(r) PROVE UNCHANGED row
  BY <1>6 DEF Host, ReadRow, ReadGeneration, Launch, LeadExits, Shutdown, OrphanExits, Write,
     RunnerDies
<1>7. ASSUME NEW p \in Proc, NEW k \in Kind, Misjudge(p, k) PROVE FALSE
  BY <1>7 DEF Misjudge
<1> QED BY <1>1, <1>2, <1>3, <1>4, <1>5, <1>6, <1>7 DEF Next

(* No lifecycle operation writes a stale row back: each of them writes the   *)
(* whole row it read at its claim, over awaits of seconds, and an upgrade,   *)
(* a rollback or a claim that another operation wrote meanwhile would be     *)
(* undone by it (withOperation, writeLifecycle, releaseLifecycleOperation);  *)
(* up to the release of a claim that was misjudged.                          *)
THEOREM NoUpdateIsLost == Spec => RowsMoveOn
<1>1. TInv /\ Orderly /\ [Next]_vars =>
          (misjudged' \/ (PairsMoveOn /\ ClaimStands)) \/ UNCHANGED vars
  BY RowStep, MisjudgedStays DEF Orderly, VInv
<1> QED BY <1>1, TypeInit, TypeStep, OrderlyInit, OrderlyStep, PTL DEF Spec, RowsMoveOn
=============================================================================
