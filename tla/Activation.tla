----------------------------- MODULE Activation -----------------------------
(* Versions of an installation and the state they run on: the operations    *)
(* start, stop, upgrade and rollback of local-installation, the restore of   *)
(* state-snapshot, the write generation that fences old writers, and the     *)
(* host runner of lifecycle-cli with the Lead it keeps alive.                *)
(*                                                                           *)
(* What a process does between two durable writes is an action; it may die   *)
(* between any two of them, and the files stay as they are.                  *)
(*                                                                           *)
(* A version stands for one activation of a release: version 1 is installed, *)
(* and version p + 1 is what invocation p stages.  The code compares no      *)
(* releases: an upgrade may stage an older bundle than the active one, or    *)
(* the same again, and its version is new all the same.  Older and newer     *)
(* are said of the order of activation, never of the bundles.                *)
EXTENDS Naturals, FiniteSets

CONSTANTS
    Invocations,    \* bound on the invocations of the lifecycle command
    Runner,         \* slots for host runners
    Launches,       \* restartsRemaining of a new runner
    MaxCrashes,     \* bound on the deaths of a process
    MaxFaults,      \* bound on file operations and process queries that fail
    None            \* no process, no file, no pair

ASSUME CountsAreNatural ==
    /\ Invocations \in Nat /\ Launches \in Nat \ {0}
    /\ MaxCrashes \in Nat /\ MaxFaults \in Nat

\* An invocation is one operation; they are numbered as they begin.
Proc     == 1 .. Invocations
Staged(p) == p + 1
Code     == 1 .. Invocations + 1
Kind     == {"start", "stop", "upgrade", "rollback"}
\* A database or a copy of one: its write generation, the versions that have
\* written to it, and (history) the cutover it stems from.
Database == [gen : Nat, data : SUBSET Code, era : Nat]
\* CodeStatePair: a version and the snapshot its state starts from.
Pair     == [code : Code, state : Database]
Row      == [stop : BOOLEAN, active : Pair, previous : Pair \cup {None},
             op : Proc \cup {None}]

ASSUME NoneIsNothing == None \notin Proc \cup Database \cup Pair

VARIABLES
    row,        \* the lifecycle row: stopRequested, active, previous, operation
    launcher,   \* the version the launcher manifest names
    db,         \* the database of the state directory
    highWater,  \* the journal of write generations
    evidence,   \* the evidence directories: failed generation and snapshot
    restore,    \* of each process: its journal, staged copy, displaced database
    pc, kind, at,   \* the processes: where, which operation, what they hold
    runner,     \* the host runners: where, what they have read, launches left
    lead,       \* the Lead of a runner, or the one a dead runner has left
    \* History: the number of cutovers; whether a Lead was launched on a row that
    \* had changed since it was read, an installed restore was undone, or the
    \* claim of a process at work was released; deaths and failures so far.
    eras, unbidden, undone, misjudged, crashes, faults

files  == <<launcher, db, highWater, evidence, restore>>
host   == <<runner, lead>>
hist   == <<eras, unbidden, undone, misjudged>>
bounds == <<crashes, faults>>
vars   == <<row, files, pc, kind, at, host, hist, bounds>>

-----------------------------------------------------------------------------
(* What is read.                                                             *)

Larger(a, b) == IF a > b THEN a ELSE b

\* The singleton pipe is held by a runner that serves.
Serving  == {r \in Runner : runner[r].pc = "serving"}
\* A Lead keeps the database open, and Windows renames no open file.
IsOpen   == \E r \in Runner : lead[r] # None
FreeSlots == {r \in Runner : runner[r].pc = "off" /\ lead[r] = None}
Alive(p) == pc[p] \notin {"new", "done", "dead"}
Begins(p) == pc[p] = "new" /\ \A q \in Proc : q < p => pc[q] # "new"
\* An operation is in progress: its process is there.
Held     == row.op # None /\ Alive(row.op)

NoRunner  == [pc |-> "off", code |-> 1, gen |-> 0, era |-> 0, left |-> 0]
NoRestore == [phase |-> "none", staged |-> None, displaced |-> None]
First     == [code |-> 1, state |-> [gen |-> 1, data |-> {}, era |-> 0]]
FirstRow  == [stop |-> TRUE, active |-> First, previous |-> None, op |-> None]
NoHold    == [copy |-> FirstRow, snap |-> First.state]

\* What initialInstall leaves: the first version, its snapshot, no host.
Init ==
    /\ row = FirstRow /\ launcher = 1
    /\ db = First.state /\ highWater = 1
    /\ evidence = {} /\ restore = [p \in Proc |-> NoRestore]
    /\ pc = [p \in Proc |-> "new"] /\ kind = [p \in Proc |-> "start"]
    /\ at = [p \in Proc |-> NoHold]
    /\ runner = [r \in Runner |-> NoRunner] /\ lead = [r \in Runner |-> None]
    /\ eras = 0 /\ unbidden = FALSE /\ undone = FALSE /\ misjudged = FALSE
    /\ crashes = 0 /\ faults = 0

Go(p, step) == pc' = [pc EXCEPT ![p] = step]
\* The memory of a process that is over.
Forget(p) == kind' = [kind EXCEPT ![p] = "start"] /\ at' = [at EXCEPT ![p] = NoHold]

-----------------------------------------------------------------------------
(* Operations of the installation.                                           *)

\* Mutant of Takes: the operation keeps the row it had read before its claim.
TakesOldRow(p, k) ==
    /\ row' = [row EXCEPT !.op = p]
    /\ kind' = [kind EXCEPT ![p] = k]
    /\ at' = [at EXCEPT ![p].copy = row]
    /\ Go(p, CASE k = "upgrade" -> "stage" [] k = "rollback" -> "verify"
               [] k = "stop" -> "intent" [] k = "start" -> "resume")

\* claimLifecycleOperation: the row is claimed and read in one transaction.
Takes(p, k) ==
    /\ row' = [row EXCEPT !.op = p]
    /\ kind' = [kind EXCEPT ![p] = k]
    /\ at' = [at EXCEPT ![p].copy = row']
    /\ Go(p, CASE k = "upgrade" -> "stage" [] k = "rollback" -> "verify"
               [] k = "stop" -> "intent" [] k = "start" -> "resume")

\* withOperation: an operation whose process is dead is released, and one that
\* is alive is refused (Refuse), ...
Claim(p, k) ==
    /\ Begins(p) /\ ~Held
    /\ Takes(p, k)
    /\ UNCHANGED <<files, host, hist, bounds>>

\* ... unless powershell could not tell when the process started, now or when it
\* made its claim: then it is taken for dead.
Misjudge(p, k) ==
    /\ Begins(p) /\ Held /\ faults < MaxFaults
    /\ faults' = faults + 1 /\ misjudged' = TRUE
    /\ Takes(p, k)
    /\ UNCHANGED <<files, host, eras, unbidden, undone, crashes>>

Refuse(p) ==
    /\ Begins(p)
    /\ Held
    /\ Go(p, "done")
    /\ UNCHANGED <<row, files, kind, at, host, hist, bounds>>

\* releaseLifecycleOperation in the finally: only the operation of its own id.
Release(p) ==
    /\ pc[p] = "release"
    /\ row' = [row EXCEPT !.op = IF @ = p THEN None ELSE @]
    /\ Forget(p)
    /\ Go(p, "done")
    /\ UNCHANGED <<files, host, hist, bounds>>

\* An await of an operation that throws: only the claim is released.
Throws(p) ==
    /\ pc[p] \in {"stage", "verify", "spawn", "snapshot", "manifest"}
    /\ faults < MaxFaults
    /\ faults' = faults + 1
    /\ Go(p, "release")
    /\ UNCHANGED <<row, files, kind, at, host, hist, crashes>>

\* startHost: the intent is withdrawn, and a host is spawned unless one answers.
WithdrawIntent(p) ==
    /\ pc[p] = "resume"
    /\ row' = [at[p].copy EXCEPT !.stop = FALSE]
    /\ Go(p, "spawn")
    /\ UNCHANGED <<files, kind, at, host, hist, bounds>>

Spawn(p) ==
    /\ pc[p] = "spawn"
    /\ \/ /\ Serving # {}
          /\ UNCHANGED runner
       \/ /\ Serving = {}
          /\ \E r \in FreeSlots :
               runner' = [runner EXCEPT ![r].pc = "read", ![r].left = Launches]
    /\ Go(p, "connect")
    /\ UNCHANGED <<row, files, kind, at, lead, hist, bounds>>

\* connectHost: connected, or sixty seconds without a host.
Connect(p) ==
    /\ pc[p] = "connect"
    /\ Go(p, "release")
    /\ UNCHANGED <<row, files, kind, at, host, hist, bounds>>

\* stageLocalRelease: any bundle that verifies, one staged before included.
Stage(p) ==
    /\ pc[p] = "stage"
    /\ Go(p, "intent")
    /\ UNCHANGED <<row, files, kind, at, host, hist, bounds>>

\* rollback: there is a previous version, and its release is intact.
Verify(p) ==
    /\ pc[p] = "verify"
    /\ Go(p, IF at[p].copy.previous = None THEN "release" ELSE "intent")
    /\ UNCHANGED <<row, files, kind, at, host, hist, bounds>>

\* stopHost, first half: the durable stop intent.
RecordIntent(p) ==
    /\ pc[p] = "intent"
    /\ row' = [at[p].copy EXCEPT !.stop = TRUE]
    /\ Go(p, "stopping")
    /\ UNCHANGED <<files, kind, at, host, hist, bounds>>

\* client.stop(): the host that answers ends its Lead; an error is swallowed.
StopHost(p) ==
    /\ pc[p] = "stopping"
    /\ \E stopped \in {{}, Serving} :
         /\ runner' = [r \in Runner |-> IF r \in stopped THEN NoRunner ELSE runner[r]]
         /\ lead' = [r \in Runner |-> IF r \in stopped THEN None ELSE lead[r]]
    /\ Go(p, "probing")
    /\ UNCHANGED <<row, files, kind, at, hist, bounds>>

\* hostGone: the pipe is free, or it is not within ten seconds.
AwaitGone(p) ==
    /\ pc[p] = "probing"
    /\ Go(p, IF Serving # {} \/ kind[p] = "stop" THEN "release"
             ELSE IF kind[p] = "upgrade" THEN "snapshot" ELSE "prepare")
    /\ UNCHANGED <<row, files, kind, at, host, hist, bounds>>

-----------------------------------------------------------------------------
(* upgrade.                                                                  *)

\* createAuthoritativeStateSnapshot: the backup of a database that is there.
Snapshot(p) ==
    /\ pc[p] = "snapshot"
    /\ IF db = None THEN Go(p, "release") /\ UNCHANGED at
       ELSE Go(p, "advance") /\ at' = [at EXCEPT ![p].snap = db]
    /\ UNCHANGED <<row, files, kind, host, hist, bounds>>

\* advanceWriteGeneration: the fence, which refuses any generation but the snapshot's.
Advance(p) ==
    /\ pc[p] = "advance"
    /\ IF db = None \/ db.gen # at[p].snap.gen
       THEN Go(p, "release") /\ UNCHANGED <<db, highWater, eras>>
       ELSE /\ highWater' = Larger(highWater, db.gen + 1)
            /\ db' = [db EXCEPT !.gen = @ + 1, !.era = eras + 1]
            /\ eras' = eras + 1
            /\ Go(p, "cutover")
    /\ UNCHANGED <<row, launcher, evidence, restore, kind, at, host, unbidden, undone,
                   misjudged, bounds>>

\* writeLifecycle with the new pair; the previous code keeps the same snapshot.
Cutover(p) ==
    /\ pc[p] = "cutover"
    /\ row' = [at[p].copy EXCEPT
                 !.stop = TRUE,
                 !.active = [code |-> Staged(p), state |-> at[p].snap],
                 !.previous = [code |-> at[p].copy.active.code, state |-> at[p].snap]]
    /\ Go(p, "manifest")
    /\ UNCHANGED <<files, kind, at, host, hist, bounds>>

\* writeLauncherManifest for the version that this operation has activated.
WriteManifest(p) ==
    /\ pc[p] = "manifest"
    /\ launcher' = IF kind[p] = "upgrade" THEN Staged(p) ELSE at[p].copy.previous.code
    /\ Go(p, "release")
    /\ UNCHANGED <<row, db, highWater, evidence, restore, kind, at, host, hist, bounds>>

-----------------------------------------------------------------------------
(* rollback: restoreAuthoritativeStateSnapshot.                              *)

\* Mutant of Fresh: the generation after the snapshot's.
FreshForSnapshot(pair) == pair.state.gen + 1

\* The generation that a restored snapshot gets.
Fresh(pair) == Larger(db.gen, highWater) + 1

\* The snapshot is staged under a fresh generation and the failed files are
\* copied to their evidence directory, which must not hold them yet.
Prepare(p) ==
    /\ pc[p] = "prepare"
    /\ LET pair  == at[p].copy.previous
           dir   == <<db.gen, pair.state>>
       IN IF db = None \/ dir \in evidence
          THEN Go(p, "release") /\ UNCHANGED <<evidence, restore, eras>>
          ELSE /\ evidence' = evidence \cup {dir}
               /\ restore' = [restore EXCEPT ![p].staged =
                                [gen |-> Fresh(pair), data |-> pair.state.data, era |-> eras + 1]]
               /\ eras' = eras + 1
               /\ Go(p, "journal")
    /\ UNCHANGED <<row, launcher, db, highWater, kind, at, host, unbidden, undone, misjudged,
                   bounds>>

\* The high-water mark and the journal, before any file moves.
OpenJournal(p) ==
    /\ pc[p] = "journal"
    /\ highWater' = Larger(highWater, restore[p].staged.gen)
    /\ restore' = [restore EXCEPT ![p].phase = "open"]
    /\ Go(p, "displace")
    /\ UNCHANGED <<row, launcher, db, evidence, kind, at, host, hist, bounds>>

Displace(p) ==
    /\ pc[p] = "displace" /\ db # None /\ ~IsOpen
    /\ restore' = [restore EXCEPT ![p].displaced = db]
    /\ db' = None
    /\ Go(p, "install")
    /\ UNCHANGED <<row, launcher, highWater, evidence, kind, at, host, hist, bounds>>

Install(p) ==
    /\ pc[p] = "install" /\ ~IsOpen
    /\ db' = restore[p].staged
    /\ restore' = [restore EXCEPT ![p].staged = None]
    /\ Go(p, "verified")
    /\ UNCHANGED <<row, launcher, highWater, evidence, kind, at, host, hist, bounds>>

\* The installed copy is verified; the displaced files go, ...
DropDisplaced(p) ==
    /\ pc[p] = "verified"
    /\ restore' = [restore EXCEPT ![p].phase = "dropped", ![p].displaced = None]
    /\ Go(p, "close")
    /\ UNCHANGED <<row, launcher, db, highWater, evidence, kind, at, host, hist, bounds>>

\* ... and then the journal is closed as completed.
CloseJournal(p) ==
    /\ pc[p] = "close"
    /\ restore' = [restore EXCEPT ![p].phase = "closed"]
    /\ Go(p, "return")
    /\ UNCHANGED <<row, launcher, db, highWater, evidence, kind, at, host, hist, bounds>>

\* A rename fails from a file that is gone, and from or to one that is open; any
\* file operation may fail.
RestoreFails(p) ==
    /\ pc[p] \in {"journal", "displace", "install", "verified", "close"}
    /\ \/ /\ \/ IsOpen /\ pc[p] \in {"displace", "install"}
             \/ db = None /\ pc[p] = "displace"
          /\ UNCHANGED faults
       \/ /\ faults < MaxFaults
          /\ faults' = faults + 1
    /\ Go(p, IF pc[p] \in {"verified", "close"} THEN "remove" ELSE "undo")
    /\ UNCHANGED <<row, files, kind, at, host, hist, crashes>>

\* The catch: an installed copy is removed (not one that is open again), ...
RemoveInstalled(p) ==
    /\ pc[p] = "remove"
    /\ IF IsOpen THEN Go(p, "release") /\ UNCHANGED <<db, undone>>
       ELSE Go(p, "undo") /\ db' = None /\ undone' = TRUE
    /\ UNCHANGED <<row, launcher, highWater, evidence, restore, kind, at, host,
                   eras, unbidden, misjudged, bounds>>

\* ... the displaced database returns (one that is gone leaves the journal as it
\* is; one that cannot return stays, with the journal), ...
\* Mutant of PutBack: only an installed copy is undone.
PutBackNothing(p) ==
    /\ pc[p] = "undo"
    /\ Go(p, "abort")
    /\ UNCHANGED <<row, files, kind, at, host, hist, bounds>>

PutBack(p) ==
    /\ pc[p] = "undo"
    /\ IF restore[p].displaced # None /\ IsOpen
       THEN Go(p, "release") /\ UNCHANGED <<db, restore>>
       ELSE /\ db' = IF restore[p].displaced = None THEN db ELSE restore[p].displaced
            /\ restore' = [restore EXCEPT ![p].displaced = None]
            /\ Go(p, IF restore[p].phase = "dropped" THEN "release" ELSE "abort")
    /\ UNCHANGED <<row, launcher, highWater, evidence, kind, at, host, hist, bounds>>

\* ... the staged copy goes, and the journal is closed as aborted.
\* Mutant of Abort: the failure is not thrown to the rollback.
AbortQuietly(p) ==
    /\ pc[p] = "abort"
    /\ restore' = [restore EXCEPT ![p].staged = None, ![p].phase = "closed"]
    /\ Go(p, "return")
    /\ UNCHANGED <<row, launcher, db, highWater, evidence, kind, at, host, hist, bounds>>

Abort(p) ==
    /\ pc[p] = "abort"
    /\ restore' = [restore EXCEPT ![p].staged = None, ![p].phase = "closed"]
    /\ Go(p, "release")
    /\ UNCHANGED <<row, launcher, db, highWater, evidence, kind, at, host, hist, bounds>>

\* writeLifecycle with the two pairs exchanged.
Return(p) ==
    /\ pc[p] = "return"
    /\ row' = [at[p].copy EXCEPT !.stop = TRUE, !.active = at[p].copy.previous,
                                 !.previous = at[p].copy.active]
    /\ Go(p, "manifest")
    /\ UNCHANGED <<files, kind, at, host, hist, bounds>>

-----------------------------------------------------------------------------
(* The host runner and its Lead.                                             *)

\* The head of the loop: the row as it is now, and the version it names.
ReadRow(r) ==
    /\ runner[r].pc = "read"
    /\ runner' = [runner EXCEPT ![r] =
                     IF row.stop THEN NoRunner
                     ELSE [@ EXCEPT !.pc = "verify", !.code = row.active.code]]
    /\ UNCHANGED <<row, files, pc, kind, at, lead, hist, bounds>>

\* readGeneration, after the release has been verified; without a database the
\* runner ends with an error.
ReadGeneration(r) ==
    /\ runner[r].pc = "verify"
    /\ runner' = [runner EXCEPT ![r] =
                     IF db = None THEN NoRunner
                     ELSE [@ EXCEPT !.pc = "launch", !.gen = db.gen, !.era = db.era]]
    /\ UNCHANGED <<row, files, pc, kind, at, lead, hist, bounds>>

\* Mutant of Relaunch: the launches are counted and never run out.
RelaunchForEver(r) ==
    runner' = [runner EXCEPT ![r] =
                 [NoRunner EXCEPT !.pc = "read", !.left = runner[r].left - 1]]

\* The end of a round: one launch less, and none left ends the runner.
Relaunch(r) ==
    runner' = [runner EXCEPT ![r] =
                 IF @.left = 1 THEN NoRunner
                 ELSE [NoRunner EXCEPT !.pc = "read", !.left = runner[r].left - 1]]

\* startLocalLeadHost: the transcript is read from a state of that generation,
\* the pipe must be free, and the Lead opens the state as the runner did.
Launch(r) ==
    /\ runner[r].pc = "launch"
    /\ IF Serving = {} /\ db # None /\ db.gen = runner[r].gen
       THEN /\ runner' = [runner EXCEPT ![r] = [NoRunner EXCEPT !.pc = "serving",
                                                              !.left = runner[r].left]]
            /\ lead' = [lead EXCEPT ![r] = [code |-> runner[r].code, gen |-> runner[r].gen,
                                            era |-> runner[r].era]]
            /\ unbidden' = (unbidden \/ row.stop \/ runner[r].code # row.active.code)
       ELSE Relaunch(r) /\ UNCHANGED <<lead, unbidden>>
    /\ UNCHANGED <<row, files, pc, kind, at, eras, undone, misjudged, bounds>>

\* The Lead exits by itself: the pipe is released, the runner goes round.
LeadExits(r) ==
    /\ runner[r].pc = "serving"
    /\ lead' = [lead EXCEPT ![r] = None]
    /\ Relaunch(r)
    /\ UNCHANGED <<row, files, pc, kind, at, hist, bounds>>

\* The system shuts down (SIGTERM): the Lead ends, the runner returns.
Shutdown(r) ==
    /\ runner[r].pc = "serving"
    /\ lead' = [lead EXCEPT ![r] = None]
    /\ runner' = [runner EXCEPT ![r] = NoRunner]
    /\ UNCHANGED <<row, files, pc, kind, at, hist, bounds>>

\* A Lead whose runner is dead reads the end of its input.
OrphanExits(r) ==
    /\ runner[r].pc = "off" /\ lead[r] # None
    /\ lead' = [lead EXCEPT ![r] = None]
    /\ UNCHANGED <<row, files, pc, kind, at, runner, hist, bounds>>

\* A write transaction, with assertWriteGeneration at its beginning.
Write(r) ==
    /\ lead[r] # None /\ db # None
    /\ db.gen = lead[r].gen
    /\ db' = [db EXCEPT !.data = @ \cup {lead[r].code}]
    /\ UNCHANGED <<row, launcher, highWater, evidence, restore, pc, kind, at, host, hist, bounds>>

-----------------------------------------------------------------------------
(* Deaths.                                                                   *)

ProcessDies(p) ==
    /\ Alive(p) /\ crashes < MaxCrashes
    /\ Go(p, "dead")
    /\ Forget(p)
    /\ crashes' = crashes + 1
    /\ UNCHANGED <<row, files, host, hist, faults>>

RunnerDies(r) ==
    /\ runner[r].pc # "off" /\ crashes < MaxCrashes
    /\ runner' = [runner EXCEPT ![r] = NoRunner]
    /\ crashes' = crashes + 1
    /\ UNCHANGED <<row, files, pc, kind, at, lead, hist, faults>>

-----------------------------------------------------------------------------
Operate(p) ==
    \/ \E k \in Kind : Claim(p, k)
    \/ Refuse(p) \/ Release(p) \/ Throws(p)
    \/ WithdrawIntent(p) \/ Spawn(p) \/ Connect(p)
    \/ Stage(p) \/ Verify(p) \/ RecordIntent(p) \/ StopHost(p) \/ AwaitGone(p)
    \/ Snapshot(p) \/ Advance(p) \/ Cutover(p) \/ WriteManifest(p)
    \/ Prepare(p) \/ OpenJournal(p) \/ Displace(p) \/ Install(p)
    \/ DropDisplaced(p) \/ CloseJournal(p) \/ RestoreFails(p) \/ RemoveInstalled(p) \/ PutBack(p) \/ Abort(p) \/ Return(p)

Host(r) ==
    \/ ReadRow(r) \/ ReadGeneration(r) \/ Launch(r) \/ LeadExits(r)
    \/ Shutdown(r) \/ OrphanExits(r) \/ Write(r)

Next ==
    \/ \E p \in Proc : Operate(p) \/ ProcessDies(p)
    \/ \E p \in Proc, k \in Kind : Misjudge(p, k)
    \/ \E r \in Runner : Host(r) \/ RunnerDies(r)

Spec == Init /\ [][Next]_vars

-----------------------------------------------------------------------------
(* Properties.                                                               *)

Place == {"new", "resume", "spawn", "connect", "stage", "verify", "intent", "stopping",
          "probing", "snapshot", "advance", "cutover", "prepare", "journal", "displace",
          "install", "verified", "close", "remove", "undo", "abort", "return", "manifest",
          "release", "done", "dead"}

Restore == [phase : {"none", "open", "dropped", "closed"},
            staged : Database \cup {None}, displaced : Database \cup {None}]
Hold    == [copy : Row, snap : Database]
HostRunner == [pc : {"off", "read", "verify", "launch", "serving"},
               code : Code, gen : Nat, era : Nat, left : Nat]
Lead    == [code : Code, gen : Nat, era : Nat]

\* Type: the row, the files, the memory of every process and of every runner.
TypeOK ==
    /\ row \in Row /\ launcher \in Code /\ db \in Database \cup {None}
    /\ highWater \in Nat
    /\ evidence \subseteq (Nat \X Database)
    /\ restore \in [Proc -> Restore]
    /\ pc \in [Proc -> Place] /\ kind \in [Proc -> Kind]
    /\ at \in [Proc -> Hold]
    /\ runner \in [Runner -> HostRunner]
    /\ lead \in [Runner -> Lead \cup {None}]
    /\ eras \in Nat /\ crashes \in Nat /\ faults \in Nat
    /\ unbidden \in BOOLEAN /\ undone \in BOOLEAN /\ misjudged \in BOOLEAN

Working(p) == Alive(p) /\ pc[p] # "release"

\* Two operations never work at once: each writes back the whole row it read at
\* its claim, so one write of a stale copy would free the claim of another, and
\* the claim of a dead process is taken away by the next (claimLifecycleOperation,
\* releaseAbandonedOperation).  As the three below it, it is said up to the first
\* claim that powershell lets another operation take from a live process: nothing
\* of them holds after that, for two operations then work on one row.
OperationsAreSerial == ~misjudged => \A p, q \in Proc : Working(p) /\ Working(q) => p = q

\* A Lead whose generation the database accepts has opened the state since its
\* last cutover: upgrade and rollback leave no writer of the state before them.
\* A restore that is undone after its installation gives its generation away
\* again (advanceWriteGeneration does not ask the high-water mark).
StaleWritersAreFenced ==
    ~misjudged /\ ~undone /\ db # None =>
        \A r \in Runner : lead[r] # None /\ lead[r].gen = db.gen => lead[r].era = db.era

\* Wherever a restore stops, by a failure or a death, a database that is gone is
\* in a displaced file that an open journal names; the exception is a journal that
\* cannot be closed once the displaced files are gone.
DisplacedStateIsJournaled ==
    ~misjudged /\ db = None =>
        \E p \in Proc : \/ restore[p].phase = "open" /\ restore[p].displaced # None
                        \/ restore[p].phase = "dropped"

\* The active version never meets a state that was written by a version activated
\* after it: that is what a rollback restores the snapshot for, whichever bundle
\* is the older one.  (An upgrade keeps the state, so an upgrade to an older
\* bundle runs on what a newer bundle has written; the code allows that, and no
\* property here speaks of it.)
NoVersionMeetsLaterState == db # None => \A c \in db.data : c <= row.active.code

\* It holds, over crashes, failures and stragglers, as long as every Lead is
\* launched on the row its runner has read.
EarlierVersionsAreSafe == ~misjudged /\ ~unbidden => NoVersionMeetsLaterState
=============================================================================
