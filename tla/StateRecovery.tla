---------------------------- MODULE StateRecovery ----------------------------
(* The Authoritative State when it cannot be trusted: opening it safely, the *)
(* recovery marker that disables mutations, restoring a backup and           *)
(* reconciling what happened after it, a new baseline, and the backups       *)
(* themselves (authoritative-state, write-generation, and the recovery       *)
(* commands of cli.ts).                                                      *)
(*                                                                           *)
(* Every action is what a process does between two changes of the files; it  *)
(* may die between any two.  One recovery command runs at a time.  Windows   *)
(* removes no file that a process has open.                                  *)
EXTENDS Naturals, FiniteSets

CONSTANTS
    Writer,         \* processes that open the state: hosts, Leads, backups
    Backup,         \* destinations of backups
    Effect,         \* external effects an inventory may name
    MaxFacts,       \* bound on the facts that are written
    MaxDatabases,   \* bound on the databases that are built
    MaxAdvances,    \* bound on the transfers of write authority
    MaxFaults,      \* bound on damage to a file, failures and deaths
    None            \* no file

ASSUME BoundsAreNatural ==
    MaxFacts \in Nat /\ MaxDatabases \in Nat /\ MaxAdvances \in Nat /\ MaxFaults \in Nat

Fact == 1 .. MaxFacts
\* A database: its facts, those of them that are in its log (the -wal file) and
\* not in its main file; id numbers the databases in the order they are built.
Database == [id : Nat, gen : Nat, facts : SUBSET Fact, log : SUBSET Fact, sound : BOOLEAN]
\* A backup: its copy, the generation and facts of its row in state_backups, and
\* whether its manifest is written.
Copy == [facts : SUBSET Fact, row : SUBSET Fact, gen : Nat, manifest : BOOLEAN]

VARIABLES
    db,         \* authoritative-state.sqlite
    highWater,  \* the journal of write generations
    marker,     \* authoritative-state-recovery.json, or None
    backup,     \* Backup -> copy and manifest, or None
    evidence,   \* the facts kept in the evidence directories
    writer,     \* Writer -> whether it has the state open, and its generation
    recovery,   \* the recovery command that is running
    \* History: facts written so far, those that escape the copies of a recovery, the
    \* databases built, the effects of Database id that nobody has reconciled.
    written, late, built, owed,
    advances, faults

vars == <<db, highWater, marker, backup, evidence, writer, recovery,
          written, late, built, owed, advances, faults>>

Phases  == {"damaged-state", "post-backup-reconciliation", "unreadable"}
\* restored is what restoredDatabaseSha256 identifies.
Markers == {m \in [phase : Phases, failed : Nat, restored : Database \cup {None},
                   inventory : SUBSET Effect, reconciled : SUBSET Effect] :
              m.reconciled \subseteq m.inventory}
ASSUME NoneIsNoFile == None \notin Database \cup Copy \cup Backup \cup Markers

\* id is the database a generation was first used on (history).
Writers == [pc : {"closed", "open", "copying"}, gen : Nat, id : Nat,
            backup : Backup \cup {None}]
Commands == [pc : {"idle", "candidate", "preserving", "preserved", "removed", "installed"},
             baseline : BOOLEAN, candidate : Database \cup {None},
             inventory : SUBSET Effect]

NoCommand == [pc |-> "idle", baseline |-> FALSE, candidate |-> None, inventory |-> {}]

Init ==
    /\ db = [id |-> 0, gen |-> 1, facts |-> {}, log |-> {}, sound |-> TRUE]
    /\ highWater = 1
    /\ marker = None
    /\ backup = [b \in Backup |-> None]
    /\ evidence = {}
    /\ writer = [w \in Writer |-> [pc |-> "closed", gen |-> 0, id |-> 0, backup |-> None]]
    /\ recovery = NoCommand
    /\ written = {} /\ late = {} /\ built = 0 /\ owed = [i \in 0 .. MaxDatabases |-> {}]
    /\ advances = 0 /\ faults = 0

Higher(m, n) == IF m < n THEN n ELSE m
InUse        == \E w \in Writer : writer[w].pc # "closed"
Kept         == IF db = None THEN {} ELSE db.facts

\* The two files that hold facts; -shm, the third, holds none.
MainFile(d) == IF d = None THEN {} ELSE d.facts \ d.log
LogFile(d)  == IF d = None THEN {} ELSE d.log

\* SQLite moves the log into the main file with a commit and when the last
\* process closes the database, or it leaves the log.
Logs == IF db = None THEN {None} ELSE {db, [db EXCEPT !.log = {}]}

\* What is moved between the two copies of a recovery is in neither.
Escaping(d) == IF recovery.pc = "preserving" THEN LogFile(db) \ LogFile(d) ELSE {}

-----------------------------------------------------------------------------
(* Opening.                                                                  *)

\* A write generation as far as it can be told of a database that failed.
FailedGeneration ==
    IF db # None /\ db.sound THEN Higher(db.gen, highWater) ELSE highWater

Damaged == [phase |-> "damaged-state", failed |-> FailedGeneration, restored |-> None,
            inventory |-> {}, reconciled |-> {}]

\* The files are copied one after the other, the main file first, and the log may
\* be moved in between; then the marker is written.  (What other processes do
\* meanwhile they may as well do before or after.)
PreserveDamaged ==
    /\ \E d \in Logs : db' = d /\ evidence' = evidence \cup MainFile(db) \cup LogFile(d)
    /\ marker' = Damaged
    /\ UNCHANGED <<highWater, backup, writer, recovery, written, late, built, owed,
                   advances, faults>>

\* A marker that cannot be read is kept as evidence beside the database and
\* begins a recovery of its own, whatever it said.
MarkerRewritten ==
    /\ marker # None /\ marker.phase = "unreadable" /\ recovery.pc = "idle"
    /\ PreserveDamaged

\* Any failure of the open but a stale generation is taken for damage: a failed
\* integrity check, and a database that another process has locked.
Failing == ~db.sound \/ InUse

OpenFails == marker = None /\ Failing /\ PreserveDamaged

\* A process with a generation of its own (--write-generation) opens only the
\* database that has it; one with none takes the generation it finds.  It looks
\* for the marker and opens the database with no await in between: here one step.
Open(w, pinned) ==
    /\ writer[w].pc = "closed" /\ marker = None /\ db.sound
    /\ pinned => writer[w].gen = db.gen
    /\ highWater' = Higher(highWater, db.gen)
    /\ writer' = [writer EXCEPT ![w].pc = "open", ![w].gen = db.gen,
                                ![w].id = IF pinned THEN @ ELSE db.id]
    /\ UNCHANGED <<db, marker, backup, evidence, recovery, written, late, built, owed,
                   advances, faults>>

\* beginWrite: a process writes as long as its generation is the database's,
\* whatever the marker says.
Write(w) ==
    /\ writer[w].pc = "open" /\ writer[w].gen = db.gen
    /\ \E f \in Fact \ written, d \in Logs :
         /\ f = Cardinality(written) + 1
         /\ db' = [d EXCEPT !.facts = @ \cup {f}, !.log = @ \cup {f}]
         /\ written' = written \cup {f}
         /\ late' = late \cup Escaping(d) \cup (IF recovery.pc = "preserved" THEN {f} ELSE {})
    /\ UNCHANGED <<highWater, marker, backup, evidence, writer, recovery, built, owed,
                   advances, faults>>

\* A process that closes the database; the last one may move the log.
Leaves(w) ==
    /\ \E d \in Logs :
         /\ d = db \/ \A v \in Writer : v # w => writer[v].pc = "closed"
         /\ db' = d /\ late' = late \cup Escaping(d)
    /\ writer' = [writer EXCEPT ![w].pc = "closed", ![w].backup = None]

\* A process closes the state or dies; its launcher may start it again.
Close(w) ==
    /\ writer[w].pc # "closed"
    /\ Leaves(w)
    /\ UNCHANGED <<highWater, marker, backup, evidence, recovery, written, built, owed,
                   advances, faults>>

\* Write authority passes to the next generation (an upgrade or a rollback).  The
\* recovery marker is not looked at.
Advance ==
    /\ db # None /\ db.sound /\ advances < MaxAdvances
    /\ highWater' = Higher(highWater, db.gen + 1)
    /\ \E d \in Logs : db' = [d EXCEPT !.gen = @ + 1] /\ late' = late \cup Escaping(d)
    /\ advances' = advances + 1
    /\ UNCHANGED <<marker, backup, evidence, writer, recovery, written, built, owed, faults>>

-----------------------------------------------------------------------------
(* Backup: a row in the database, a copy while others may write, and a       *)
(* manifest for the copy that holds what the row says.                       *)

BackupBegins(w, b) ==
    /\ writer[w].pc = "open" /\ writer[w].gen = db.gen /\ db.sound
    /\ backup[b] = None
    /\ backup' = [backup EXCEPT ![b] = [facts |-> {}, row |-> db.facts, gen |-> db.gen,
                                        manifest |-> FALSE]]
    /\ writer' = [writer EXCEPT ![w].pc = "copying", ![w].backup = b]
    /\ \E d \in Logs : db' = d /\ late' = late \cup Escaping(d)
    /\ UNCHANGED <<highWater, marker, evidence, recovery, written, built, owed, advances,
                   faults>>

\* Mutant of Provenance: the copy is sound.
ProvenanceOfAnyCopy(copy) == db.sound

\* The copy is sound, and its generation and journal sequence are the row's.
Provenance(copy) ==
    /\ db.sound /\ db.gen = copy.gen
    /\ Cardinality(db.facts) = Cardinality(copy.row)

BackupEnds(w) ==
    /\ writer[w].pc = "copying"
    /\ LET b == writer[w].backup IN
       backup' = [backup EXCEPT ![b] =
           IF Provenance(@) THEN [@ EXCEPT !.facts = db.facts, !.manifest = TRUE] ELSE None]
    /\ Leaves(w)
    /\ UNCHANGED <<highWater, marker, evidence, recovery, written, built, owed, advances,
                   faults>>

-----------------------------------------------------------------------------
(* Recovery commands.                                                        *)

Recovering == marker # None /\ marker.phase # "unreadable" /\ recovery.pc = "idle"

\* Mutant of NextGeneration: the generation after the backup's.
NextGenerationOfBackup(gen) == gen + 1

\* Above the source's, the failed database's and every recorded generation.
NextGeneration(gen) == Higher(gen, Higher(marker.failed, highWater)) + 1

\* The candidate is built beside the database, under a generation of its own.
Begin(gen, facts, baseline, inventory) ==
    /\ Recovering /\ built < MaxDatabases
    /\ built' = built + 1
    /\ highWater' = Higher(highWater, NextGeneration(gen))
    /\ recovery' = [pc |-> "candidate", baseline |-> baseline, inventory |-> inventory,
                    candidate |-> [id |-> built + 1, gen |-> NextGeneration(gen),
                                   facts |-> facts, log |-> {}, sound |-> TRUE]]
    /\ UNCHANGED <<db, marker, backup, evidence, writer, written, late, owed, advances,
                   faults>>

\* The inventory is external: whatever may have happened since the backup.
RestoreBegins(b, inventory) ==
    /\ backup[b] # None /\ backup[b].manifest
    /\ Begin(backup[b].gen, backup[b].facts, FALSE, inventory)

\* With the Owner's confirmation; effects after a backup are given up with it.
BaselineBegins == Begin(1, {}, TRUE, {})

\* What is about to be displaced is copied into the evidence directory: the main
\* file ...
Preserve ==
    /\ recovery.pc = "candidate"
    /\ recovery' = [recovery EXCEPT !.pc = "preserving"]
    /\ evidence' = evidence \cup MainFile(db)
    /\ UNCHANGED <<db, highWater, marker, backup, writer, written, late, built, owed,
                   advances, faults>>

\* Mutant of PreserveLog: the database is taken for one file.
PreserveNoLog ==
    /\ recovery.pc = "preserving"
    /\ recovery' = [recovery EXCEPT !.pc = "preserved"]
    /\ UNCHANGED <<db, highWater, marker, backup, evidence, writer, written, late, built,
                   owed, advances, faults>>

\* ... and then the log.
PreserveLog ==
    /\ recovery.pc = "preserving"
    /\ recovery' = [recovery EXCEPT !.pc = "preserved"]
    /\ evidence' = evidence \cup LogFile(db)
    /\ UNCHANGED <<db, highWater, marker, backup, writer, written, late, built, owed,
                   advances, faults>>

Remove ==
    /\ recovery.pc = "preserved" /\ ~InUse
    /\ recovery' = [recovery EXCEPT !.pc = "removed"]
    /\ db' = None
    /\ UNCHANGED <<highWater, marker, backup, evidence, writer, written, late, built, owed,
                   advances, faults>>

Install ==
    /\ recovery.pc = "removed"
    /\ recovery' = [recovery EXCEPT !.pc = "installed"]
    /\ db' = recovery.candidate
    /\ owed' = [owed EXCEPT ![recovery.candidate.id] = recovery.inventory]
    /\ UNCHANGED <<highWater, marker, backup, evidence, writer, written, late, built,
                   advances, faults>>

\* A restored database waits for the reconciliation of its inventory; a baseline
\* ends the recovery.
Restored == [marker EXCEPT !.phase = "post-backup-reconciliation",
                           !.restored = recovery.candidate,
                           !.inventory = recovery.inventory, !.reconciled = {}]

Record ==
    /\ recovery.pc = "installed"
    /\ recovery' = NoCommand
    /\ marker' = IF recovery.baseline THEN None ELSE Restored
    /\ UNCHANGED <<db, highWater, backup, evidence, writer, written, late, built, owed,
                   advances, faults>>

\* Mutant of Unreconciled: any effect, of this inventory or another.
UnreconciledAnywhere == Effect

Unreconciled == marker.inventory \ marker.reconciled

Reconcile(e) ==
    /\ Recovering /\ marker.phase = "post-backup-reconciliation"
    /\ e \in Unreconciled
    /\ marker' = [marker EXCEPT !.reconciled = @ \cup {e}]
    /\ owed' = [owed EXCEPT ![marker.restored.id] = @ \ {e}]
    /\ UNCHANGED <<db, highWater, backup, evidence, writer, recovery, written, late, built,
                   advances, faults>>

\* Mutant of IsRestored: a sound database is enough.
IsSound == db # None /\ db.sound

\* The database is, byte for byte, the one this marker speaks of.
IsRestored == db # None /\ db = marker.restored

Complete ==
    /\ Recovering /\ marker.phase = "post-backup-reconciliation"
    /\ Unreconciled = {} /\ IsRestored
    /\ marker' = None
    /\ UNCHANGED <<db, highWater, backup, evidence, writer, recovery, written, late, built,
                   owed, advances, faults>>

-----------------------------------------------------------------------------
(* Faults.                                                                   *)

\* A file operation of the command fails, or the command dies: what it has done
\* to the files stays.
Abandon ==
    /\ recovery.pc # "idle" /\ faults < MaxFaults
    /\ recovery' = NoCommand
    /\ faults' = faults + 1
    /\ UNCHANGED <<db, highWater, marker, backup, evidence, writer, written, late, built,
                   owed, advances>>

DamageDatabase ==
    /\ db # None /\ db.sound /\ faults < MaxFaults
    /\ db' = [db EXCEPT !.sound = FALSE]
    /\ faults' = faults + 1
    /\ UNCHANGED <<highWater, marker, backup, evidence, writer, recovery, written, late,
                   built, owed, advances>>

DamageMarker ==
    /\ Recovering /\ faults < MaxFaults
    /\ marker' = [marker EXCEPT !.phase = "unreadable"]
    /\ faults' = faults + 1
    /\ UNCHANGED <<db, highWater, backup, evidence, writer, recovery, written, late, built,
                   owed, advances>>

-----------------------------------------------------------------------------
Use ==
    \/ MarkerRewritten \/ OpenFails \/ Advance
    \/ \E w \in Writer, pinned \in BOOLEAN : Open(w, pinned)
    \/ \E w \in Writer : Write(w) \/ Close(w) \/ BackupEnds(w)
    \/ \E w \in Writer, b \in Backup : BackupBegins(w, b)

Recover ==
    \/ \E b \in Backup, inventory \in SUBSET Effect : RestoreBegins(b, inventory)
    \/ BaselineBegins \/ Preserve \/ PreserveLog \/ Remove \/ Install \/ Record
    \/ \E e \in Effect : Reconcile(e)
    \/ Complete

Fault == Abandon \/ DamageDatabase \/ DamageMarker

Next == Use \/ Recover \/ Fault

Spec == Init /\ [][Next]_vars

-----------------------------------------------------------------------------
TypeOK ==
    /\ db \in Database \cup {None}
    /\ highWater \in Nat
    /\ marker \in Markers \cup {None}
    /\ backup \in [Backup -> Copy \cup {None}]
    /\ evidence \subseteq Fact
    /\ writer \in [Writer -> Writers]
    /\ recovery \in Commands
    /\ written \subseteq Fact /\ late \subseteq Fact
    /\ built \in Nat /\ owed \in [0 .. MaxDatabases -> SUBSET Effect]
    /\ advances \in Nat /\ faults \in Nat

\* Mutations are enabled only on a database that is there and whose inventory is
\* reconciled: no failure or death between the steps of a restore, no second
\* restore and no damaged marker lets a host start on nothing, or on a state
\* that later external effects have overtaken.
MutationsWaitForReconciliation ==
    marker = None \/ InUse => db # None /\ owed[db.id] = {}

\* A write generation that a process has opened one database with is never that
\* of another one, so no process relaunched with the generation it had before a
\* recovery opens what the recovery has installed.  (A transfer while a restore
\* runs may give the old database the number of the candidate; then no process
\* opens the old one.)
GenerationsAreNotReused ==
    db # None =>
    \A w \in Writer : writer[w].gen = db.gen => writer[w].id = db.id

\* A recovery discards no fact: each one is in the database or among the
\* evidence, but for those that a process which still uses the state moved from
\* the log to the main file between the copies of the two, or wrote after them
\* and before the files were removed.
NothingIsDiscarded == written \ late \subseteq evidence \cup Kept

\* A backup with a manifest holds what the journal held when the backup was
\* asked for, whatever was written while it was copied.
BackupsAreExact ==
    \A b \in Backup :
        backup[b] # None /\ backup[b].manifest => backup[b].facts = backup[b].row
=============================================================================
