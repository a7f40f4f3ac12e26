------------------------- MODULE StateRecovery_proof -------------------------
(* The safety of StateRecovery, for any number of processes, backups and     *)
(* effects, and for any bounds.                                              *)
EXTENDS StateRecovery, FiniteSetTheorems, TLAPS

-----------------------------------------------------------------------------
(* The inductive invariant.                                                  *)

\* The candidate is not installed yet.
Unremoved == {"candidate", "preserving", "preserved", "removed"}

\* A recovery command runs under a marker that can be read, and a state that a
\* process has open is there.
Gated ==
    /\ recovery.pc # "idle" => marker # None /\ marker.phase # "unreadable"
    /\ InUse => db # None
    /\ recovery.pc = "removed" => db = None

\* The candidate is the newest of the databases built.
Numbered ==
    /\ built <= MaxDatabases
    /\ recovery.pc # "idle" => recovery.candidate # None /\ recovery.candidate.id = built
                               /\ 0 < built
    /\ db # None => db.id <= built
    /\ db # None /\ recovery.pc \in {"candidate", "preserving", "preserved"} => db.id < built
    /\ recovery.pc = "installed" => db # None /\ db.id = built
    /\ \A w \in Writer : writer[w].id <= built
    /\ recovery.pc \in Unremoved =>
       \A w \in Writer : writer[w].id < built

\* A process that has used another database than this one is behind it.
Behind ==
    /\ db # None => \A w \in Writer : writer[w].id # db.id => writer[w].gen < db.gen
    /\ \A w \in Writer : writer[w].gen <= highWater
    /\ recovery.pc \in Unremoved =>
       \A w \in Writer : writer[w].gen < recovery.candidate.gen

\* What a restored database waits for is in the marker that speaks of it, and
\* what an installed one waits for in the memory of the command.
Waiting ==
    /\ MutationsWaitForReconciliation
    /\ marker # None /\ marker.phase = "post-backup-reconciliation" =>
         /\ marker.restored # None /\ marker.restored.id <= built
         /\ owed[marker.restored.id] \subseteq marker.inventory \ marker.reconciled
         /\ recovery.pc \in Unremoved =>
            marker.restored.id < built
    /\ recovery.pc = "installed" => owed[built] = recovery.inventory
    /\ recovery.pc # "idle" /\ recovery.baseline => recovery.inventory = {}

\* What is about to be removed is among the evidence, or in the log when only the
\* main file has been copied.
Saved ==
    /\ NothingIsDiscarded
    /\ recovery.pc = "preserving" => Kept \ late \subseteq evidence \cup LogFile(db)
    /\ recovery.pc = "preserved" => Kept \ late \subseteq evidence

\* A copy in progress is of a database that has only grown since its row.
Copying ==
    /\ BackupsAreExact
    /\ \A w \in Writer : writer[w].pc = "copying" =>
         /\ writer[w].backup # None /\ backup[writer[w].backup] # None
         /\ backup[writer[w].backup].row \subseteq db.facts
    /\ \A v, w \in Writer :
         writer[v].pc = "copying" /\ writer[w].pc = "copying" /\ v # w =>
         writer[v].backup # writer[w].backup

IInv == TypeOK /\ Gated /\ Numbered /\ Behind /\ Waiting /\ Saved /\ Copying

-----------------------------------------------------------------------------
(* Type correctness.                                                         *)

LEMMA HigherIsNatural == \A m, n \in Nat : Higher(m, n) \in Nat
BY DEF Higher

LEMMA HigherIsHighest == \A m, n \in Nat : m <= Higher(m, n) /\ n <= Higher(m, n)
BY DEF Higher

LEMMA InitTyped == Init => TypeOK
<1> SUFFICES ASSUME Init PROVE TypeOK
  OBVIOUS
<1>1. db \in Database
  BY DEF Init, Database
<1>2. writer \in [Writer -> Writers] /\ recovery \in Commands
  BY DEF Init, Writers, Commands, NoCommand
<1> QED BY <1>1, <1>2 DEF Init, TypeOK

LEMMA DamagedTyped == TypeOK => Damaged \in Markers
<1> SUFFICES ASSUME TypeOK PROVE Damaged \in Markers
  OBVIOUS
<1>1. FailedGeneration \in Nat
  BY HigherIsNatural DEF FailedGeneration, TypeOK, Database
<1> QED BY <1>1 DEF Damaged, Markers, Phases

LEMMA FilesTyped ==
    TypeOK => Kept \subseteq Fact /\ MainFile(db) \subseteq Fact /\ LogFile(db) \subseteq Fact
BY DEF TypeOK, Kept, MainFile, LogFile, Database

\* A database whose log may have been moved.
LEMMA LogsAre ==
    ASSUME TypeOK, NEW d \in Logs
    PROVE  /\ d \in Database \cup {None} /\ (d = None <=> db = None)
           /\ d.id = db.id /\ d.gen = db.gen /\ d.facts = db.facts
           /\ LogFile(d) \subseteq LogFile(db)
<1>1. CASE db = None
  BY <1>1 DEF Logs
<1>2. CASE db # None
  <2>1. db \in Database
    BY <1>2 DEF TypeOK
  <2>2. d = db \/ d = [db EXCEPT !.log = {}]
    BY <1>2 DEF Logs
  <2>3. d \in Database
    BY <2>1, <2>2 DEF Database
  <2>4. d # None
    BY <2>3, NoneIsNoFile
  <2>5. d.id = db.id /\ d.gen = db.gen /\ d.facts = db.facts /\ d.log \subseteq db.log
    BY <2>1, <2>2 DEF Database
  <2> QED BY <1>2, <2>3, <2>4, <2>5 DEF LogFile
<1> QED BY <1>1, <1>2

\* A database with one more fact, in its log.
LEMMA WrittenTyped ==
    ASSUME NEW d \in Database, NEW f \in Fact
    PROVE  LET n == [d EXCEPT !.facts = @ \cup {f}, !.log = @ \cup {f}] IN
           /\ n \in Database /\ n.id = d.id /\ n.gen = d.gen
           /\ n.facts = d.facts \cup {f} /\ n.log = d.log \cup {f}
<1> DEFINE fs == d.facts \cup {f}
           ls == d.log \cup {f}
<1>1. fs \in SUBSET Fact /\ ls \in SUBSET Fact
  BY DEF Database
<1>2. [d EXCEPT !.facts = @ \cup {f}, !.log = @ \cup {f}] = [d EXCEPT !.facts = fs, !.log = ls]
  BY DEF Database
<1> HIDE DEF fs, ls
<1> QED BY <1>1, <1>2, Zenon DEF Database, fs, ls

\* A step that changes no more of the database than that.
Alike ==
    /\ db' \in Database \cup {None} /\ (db' = None <=> db = None)
    /\ db'.id = db.id /\ db'.gen = db.gen /\ db'.facts = db.facts

LEMMA AlikeSteps ==
    ASSUME TypeOK,
           \/ UNCHANGED db
           \/ MarkerRewritten \/ OpenFails
           \/ \E w \in Writer : Close(w) \/ BackupEnds(w) \/ \E b \in Backup : BackupBegins(w, b)
    PROVE  Alike
<1>1. UNCHANGED db \/ db' \in Logs
  BY DEF MarkerRewritten, OpenFails, PreserveDamaged, Close, BackupEnds, Leaves, BackupBegins
<1> QED BY <1>1, LogsAre DEF Alike, TypeOK

\* Where a command is not between its copies, nothing escapes it.
LEMMA EscapingTyped == \A d : TypeOK => Escaping(d) \subseteq Fact
BY FilesTyped DEF Escaping

\* Where mutations are enabled, there is a database to mutate.
LEMMA Present ==
    ASSUME TypeOK, Waiting, marker = None \/ InUse
    PROVE  db \in Database /\ db.id \in Nat /\ db.gen \in Nat /\ db.facts \subseteq Fact
BY DEF TypeOK, Waiting, MutationsWaitForReconciliation, Database

LEMMA InUseBy == \A w \in Writer : writer[w].pc # "closed" => InUse
BY DEF InUse

LEMMA UseTyped == IInv /\ Use => TypeOK'
<1> SUFFICES ASSUME IInv, Use PROVE TypeOK'
  OBVIOUS
<1> USE DEF IInv
<1>9. ASSUME PreserveDamaged PROVE TypeOK'
  <2>1. PICK d \in Logs : db' = d /\ evidence' = evidence \cup MainFile(db) \cup LogFile(d)
    BY <1>9 DEF PreserveDamaged
  <2>2. db' \in Database \cup {None} /\ evidence' \subseteq Fact
    BY <2>1, LogsAre, FilesTyped DEF TypeOK
  <2> QED BY <1>9, <2>2, DamagedTyped DEF PreserveDamaged, TypeOK
<1>1. ASSUME MarkerRewritten PROVE TypeOK'
  BY <1>1, <1>9 DEF MarkerRewritten
<1>2. ASSUME OpenFails PROVE TypeOK'
  BY <1>2, <1>9 DEF OpenFails
<1>3. ASSUME Advance PROVE TypeOK'
  <2>1. db \in Database /\ db.gen \in Nat
    BY <1>3 DEF Advance, TypeOK, Database
  <2>4. PICK d \in Logs : db' = [d EXCEPT !.gen = @ + 1] /\ late' = late \cup Escaping(d)
    BY <1>3 DEF Advance
  <2>5. d \in Database
    BY <2>1, LogsAre, NoneIsNoFile
  <2>2. db' \in Database /\ late' \subseteq Fact
    BY <2>4, <2>5, EscapingTyped DEF Database, TypeOK
  <2>3. highWater' \in Nat
    BY <1>3, <2>1, HigherIsNatural DEF Advance, TypeOK
  <2> QED BY <1>3, <2>2, <2>3 DEF Advance, TypeOK
<1>4. ASSUME NEW w \in Writer, NEW pinned \in BOOLEAN, Open(w, pinned) PROVE TypeOK'
  <2>1. db.gen \in Nat /\ db.id \in Nat
    BY <1>4, Present DEF Open
  <2>2. writer[w] \in Writers
    BY DEF TypeOK
  <2>3. [pc |-> "open", gen |-> db.gen, id |-> IF pinned THEN writer[w].id ELSE db.id,
         backup |-> writer[w].backup] \in Writers
    BY <2>1, <2>2 DEF Writers
  <2>4. writer' \in [Writer -> Writers]
    BY <1>4, <2>2, <2>3 DEF Open, TypeOK, Writers
  <2> QED BY <1>4, <2>1, <2>4, HigherIsNatural DEF Open, TypeOK
<1>5. ASSUME NEW w \in Writer, Write(w) PROVE TypeOK'
  <2>1. PICK f \in Fact \ written, d \in Logs :
          /\ db' = [d EXCEPT !.facts = @ \cup {f}, !.log = @ \cup {f}]
          /\ written' = written \cup {f}
          /\ late' = late \cup Escaping(d) \cup (IF recovery.pc = "preserved" THEN {f} ELSE {})
    BY <1>5 DEF Write
  <2>2. db \in Database
    BY <1>5, Present, InUseBy DEF Write
  <2>4. d \in Database
    BY <2>2, LogsAre, NoneIsNoFile
  <2>3. db' \in Database
    BY <2>1, <2>4, WrittenTyped
  <2>5. late' \subseteq Fact
    BY <2>1, EscapingTyped DEF TypeOK
  <2> QED BY <1>5, <2>1, <2>3, <2>5 DEF Write, TypeOK
<1>10. ASSUME NEW w \in Writer, Leaves(w)
       PROVE  /\ db' \in Database \cup {None} /\ late' \subseteq Fact
              /\ writer' \in [Writer -> Writers]
  <2>1. PICK d \in Logs : db' = d /\ late' = late \cup Escaping(d)
    BY <1>10 DEF Leaves
  <2>2. db' \in Database \cup {None} /\ late' \subseteq Fact
    BY <2>1, LogsAre, EscapingTyped DEF TypeOK
  <2>3. writer' \in [Writer -> Writers]
    BY ZenonT(60), <1>10 DEF Leaves, TypeOK, Writers
  <2> QED BY <2>2, <2>3
<1>6. ASSUME NEW w \in Writer, Close(w) PROVE TypeOK'
  BY <1>6, <1>10 DEF Close, TypeOK
<1>7. ASSUME NEW w \in Writer, BackupEnds(w) PROVE TypeOK'
  <2> DEFINE b == writer[w].backup
  <2>1. b \in Backup /\ backup[b] \in Copy
    BY <1>7, NoneIsNoFile DEF BackupEnds, Copying, TypeOK, Writers
  <2>2. db.facts \in SUBSET Fact
    BY <1>7, Present, InUseBy DEF BackupEnds
  <2>3. backup' \in [Backup -> Copy \cup {None}]
    BY <1>7, <2>1, <2>2 DEF BackupEnds, TypeOK, Copy
  <2>4. /\ db' \in Database \cup {None} /\ late' \subseteq Fact
        /\ writer' \in [Writer -> Writers]
    BY <1>7, <1>10 DEF BackupEnds
  <2> QED BY <1>7, <2>3, <2>4 DEF BackupEnds, TypeOK
<1>8. ASSUME NEW w \in Writer, NEW b \in Backup, BackupBegins(w, b) PROVE TypeOK'
  <2>1. [facts |-> {}, row |-> db.facts, gen |-> db.gen, manifest |-> FALSE] \in Copy
    BY <1>8, Present, InUseBy DEF BackupBegins, Copy
  <2>2. backup' \in [Backup -> Copy \cup {None}]
    BY <1>8, <2>1 DEF BackupBegins, TypeOK
  <2>3. writer[w] \in Writers /\ [writer[w] EXCEPT !.pc = "copying", !.backup = b] \in Writers
    BY DEF TypeOK, Writers
  <2>4. writer' \in [Writer -> Writers]
    BY <1>8, <2>3 DEF BackupBegins, TypeOK
  <2>5. PICK d \in Logs : db' = d /\ late' = late \cup Escaping(d)
    BY <1>8 DEF BackupBegins
  <2>6. db' \in Database \cup {None} /\ late' \subseteq Fact
    BY <2>5, LogsAre, EscapingTyped DEF TypeOK
  <2> QED BY <1>8, <2>2, <2>4, <2>6 DEF BackupBegins, TypeOK
<1> QED BY <1>1, <1>2, <1>3, <1>4, <1>5, <1>6, <1>7, <1>8 DEF Use

\* A readable marker and the generation after it.
LEMMA MarkerTyped == TypeOK /\ marker # None =>
    /\ marker \in Markers /\ marker.failed \in Nat
    /\ marker.inventory \subseteq Effect /\ marker.restored \in Database \cup {None}
BY DEF TypeOK, Markers

LEMMA NextIsNewer ==
    ASSUME TypeOK, marker # None, NEW gen \in Nat
    PROVE  NextGeneration(gen) \in Nat /\ highWater < NextGeneration(gen)
<1>1. marker.failed \in Nat /\ highWater \in Nat
  BY MarkerTyped DEF TypeOK
<1>2. Higher(marker.failed, highWater) \in Nat /\ highWater <= Higher(marker.failed, highWater)
  BY <1>1, HigherIsNatural, HigherIsHighest
<1> DEFINE h == Higher(marker.failed, highWater)
<1>3. Higher(gen, h) \in Nat /\ h <= Higher(gen, h)
  BY <1>2, HigherIsNatural, HigherIsHighest
<1> QED BY <1>1, <1>2, <1>3 DEF NextGeneration

\* Every command begins as this one, whatever it restores.
LEMMA Begins ==
    ASSUME (\E b \in Backup, inventory \in SUBSET Effect : RestoreBegins(b, inventory))
             \/ BaselineBegins,
           TypeOK
    PROVE  \E gen \in Nat, facts \in SUBSET Fact, baseline \in BOOLEAN,
              inventory \in SUBSET Effect :
              /\ Begin(gen, facts, baseline, inventory)
              /\ baseline => inventory = {}
<1>1. CASE BaselineBegins
  BY <1>1 DEF BaselineBegins
<1>2. ASSUME NEW b \in Backup, NEW inventory \in SUBSET Effect, RestoreBegins(b, inventory)
      PROVE  \E gen \in Nat, facts \in SUBSET Fact, baseline \in BOOLEAN :
                Begin(gen, facts, baseline, inventory) /\ ~baseline
  <2>1. backup[b].gen \in Nat /\ backup[b].facts \in SUBSET Fact
    BY <1>2 DEF RestoreBegins, TypeOK, Copy
  <2> QED BY <1>2, <2>1 DEF RestoreBegins
<1> QED BY <1>1, <1>2

LEMMA RestoredTyped ==
    ASSUME TypeOK, marker # None
    PROVE  Restored \in Markers
<1>1. recovery.candidate \in Database \cup {None} /\ recovery.inventory \in SUBSET Effect
  BY DEF TypeOK, Commands
<1> QED BY <1>1, MarkerTyped DEF Restored, Markers, Phases

LEMMA RecoverTyped == IInv /\ Recover => TypeOK'
<1> SUFFICES ASSUME IInv, Recover PROVE TypeOK'
  OBVIOUS
<1> USE DEF IInv
<1>1. ASSUME NEW gen \in Nat, NEW facts \in SUBSET Fact, NEW baseline \in BOOLEAN,
             NEW inventory \in SUBSET Effect, Begin(gen, facts, baseline, inventory)
      PROVE  TypeOK'
  <2>1. NextGeneration(gen) \in Nat
    BY <1>1, NextIsNewer DEF Begin, Recovering
  <2>2. [id |-> built + 1, gen |-> NextGeneration(gen), facts |-> facts, log |-> {},
         sound |-> TRUE] \in Database
    BY <2>1 DEF TypeOK, Database
  <2>3. recovery' \in Commands
    BY <1>1, <2>2 DEF Begin, Commands
  <2>4. highWater' \in Nat /\ built' \in Nat
    BY <1>1, <2>1, HigherIsNatural DEF Begin, TypeOK
  <2> QED BY <1>1, <2>3, <2>4 DEF Begin, TypeOK
<1>2. ASSUME Preserve \/ PreserveLog PROVE TypeOK'
  BY <1>2, FilesTyped DEF Preserve, PreserveLog, TypeOK, Commands
<1>3. ASSUME Remove PROVE TypeOK'
  BY <1>3 DEF Remove, TypeOK, Commands
<1>4. ASSUME Install PROVE TypeOK'
  <2>1. recovery.candidate \in Database /\ recovery.inventory \in SUBSET Effect
    BY <1>4 DEF Install, TypeOK, Commands, Numbered
  <2>2. recovery' \in Commands
    BY <1>4 DEF Install, TypeOK, Commands
  <2>3. owed' \in [0 .. MaxDatabases -> SUBSET Effect]
    BY <1>4, <2>1 DEF Install, TypeOK
  <2> QED BY <1>4, <2>1, <2>2, <2>3 DEF Install, TypeOK
<1>5. ASSUME Record PROVE TypeOK'
  <2>3. Restored \in Markers
    BY <1>5, RestoredTyped DEF Record, Gated
  <2>4. NoCommand \in Commands
    BY DEF NoCommand, Commands
  <2> QED BY <1>5, <2>3, <2>4 DEF Record, TypeOK
<1>6. ASSUME NEW e \in Effect, Reconcile(e) PROVE TypeOK'
  <2>1. marker \in Markers /\ e \in marker.inventory
    BY <1>6, MarkerTyped DEF Reconcile, Recovering, Unreconciled
  <2>2. marker' \in Markers
    BY <1>6, <2>1 DEF Reconcile, Markers
  <2>3. owed' \in [0 .. MaxDatabases -> SUBSET Effect]
    BY <1>6 DEF Reconcile, TypeOK
  <2> QED BY <1>6, <2>2, <2>3 DEF Reconcile, TypeOK
<1>7. ASSUME Complete PROVE TypeOK'
  BY <1>7 DEF Complete, TypeOK
<1> QED BY <1>1, <1>2, <1>3, <1>4, <1>5, <1>6, <1>7, Begins DEF Recover

LEMMA FaultTyped == TypeOK /\ Fault => TypeOK'
<1> SUFFICES ASSUME TypeOK, Fault PROVE TypeOK'
  OBVIOUS
<1>1. ASSUME Abandon PROVE TypeOK'
  BY <1>1 DEF Abandon, TypeOK, NoCommand, Commands
<1>2. ASSUME DamageDatabase PROVE TypeOK'
  <2>1. db' \in Database
    BY <1>2 DEF DamageDatabase, TypeOK, Database
  <2> QED BY <1>2, <2>1 DEF DamageDatabase, TypeOK
<1>3. ASSUME DamageMarker PROVE TypeOK'
  <2>1. marker' \in Markers
    BY <1>3, MarkerTyped DEF DamageMarker, Recovering, Markers, Phases
  <2> QED BY <1>3, <2>1 DEF DamageMarker, TypeOK
<1> QED BY <1>1, <1>2, <1>3 DEF Fault

-----------------------------------------------------------------------------
(* The steps, as the parts of the invariant see them.                        *)

\* A database that is written, damaged or handed on stays the database it is.
SameDatabase ==
    /\ db # None /\ db' # None /\ db'.id = db.id
    /\ UNCHANGED <<marker, backup, writer, recovery, built, owed>>

LEMMA ChangedFile ==
    ASSUME IInv, Advance \/ DamageDatabase \/ \E w \in Writer : Write(w)
    PROVE  /\ SameDatabase
           /\ db' \in Database
           /\ db'.gen = db.gen \/ (Advance /\ db'.gen = db.gen + 1)
           /\ db.facts \subseteq db'.facts
<1> USE DEF IInv
<1>1. CASE Advance
  <2>1. db \in Database
    BY <1>1 DEF Advance, TypeOK
  <2>2. PICK d \in Logs : db' = [d EXCEPT !.gen = @ + 1]
    BY <1>1 DEF Advance
  <2>3. d \in Database /\ d.id = db.id /\ d.gen = db.gen /\ d.facts = db.facts
    BY <2>1, LogsAre, NoneIsNoFile
  <2>4. /\ db' \in Database /\ db'.id = db.id /\ db'.gen = db.gen + 1
        /\ db'.facts = db.facts
    BY <2>2, <2>3 DEF Database
  <2> QED BY <1>1, <2>1, <2>4, NoneIsNoFile DEF Advance, SameDatabase
<1>2. CASE DamageDatabase
  <2>1. db \in Database
    BY <1>2 DEF DamageDatabase, TypeOK
  <2>2. db' = [db EXCEPT !.sound = FALSE] /\ db' \in Database
    BY <1>2, <2>1 DEF DamageDatabase, Database
  <2>3. db'.id = db.id /\ db'.gen = db.gen /\ db'.facts = db.facts
    BY <2>1, <2>2 DEF Database
  <2> QED BY <1>2, <2>1, <2>2, <2>3, NoneIsNoFile DEF DamageDatabase, SameDatabase
<1>3. ASSUME NEW w \in Writer, Write(w)
      PROVE  /\ SameDatabase /\ db' \in Database /\ db'.gen = db.gen
             /\ db.facts \subseteq db'.facts
  <2>1. db \in Database
    BY <1>3, Present, InUseBy DEF Write
  <2>2. PICK f \in Fact, d \in Logs : db' = [d EXCEPT !.facts = @ \cup {f}, !.log = @ \cup {f}]
    BY <1>3 DEF Write
  <2>3. d \in Database /\ d.id = db.id /\ d.gen = db.gen /\ d.facts = db.facts
    BY <2>1, LogsAre, NoneIsNoFile
  <2>4. /\ db'.id = d.id /\ db'.gen = d.gen /\ db'.facts = d.facts \cup {f}
        /\ db' \in Database
    BY <2>2, <2>3, WrittenTyped
  <2> QED BY <1>3, <2>1, <2>3, <2>4, NoneIsNoFile DEF Write, SameDatabase
<1> QED BY <1>1, <1>2, <1>3

\* A process that closes the state or copies it keeps its generation.
LEMMA SameGenerations ==
    ASSUME TypeOK, NEW w \in Writer,
           Close(w) \/ BackupEnds(w) \/ \E b \in Backup : BackupBegins(w, b)
    PROVE  /\ \A v \in Writer : writer'[v].id = writer[v].id /\ writer'[v].gen = writer[v].gen
           /\ \A v \in Writer : v # w => writer'[v] = writer[v]
           /\ UNCHANGED <<highWater, marker, evidence, recovery, written, built, owed>>
           /\ Alike
<1>1. ASSUME NEW pc \in {"closed", "copying"}, NEW b \in Backup \cup {None},
             writer' = [writer EXCEPT ![w].pc = pc, ![w].backup = b]
      PROVE  /\ \A v \in Writer : writer'[v].id = writer[v].id /\ writer'[v].gen = writer[v].gen
             /\ \A v \in Writer : v # w => writer'[v] = writer[v]
  <2>1. writer[w] \in Writers /\ DOMAIN writer = Writer
    BY DEF TypeOK
  <2> QED BY <1>1, <2>1 DEF Writers
<1>2. Alike
  BY AlikeSteps
<1> QED BY <1>1, <1>2 DEF Close, BackupEnds, Leaves, BackupBegins

\* The candidate is a database.
LEMMA CandidateTyped ==
    ASSUME IInv, recovery.pc # "idle"
    PROVE  /\ recovery.candidate \in Database /\ recovery.candidate # None
           /\ recovery.candidate.gen \in Nat /\ recovery.candidate.id = built
           /\ built \in 1 .. MaxDatabases /\ recovery.inventory \subseteq Effect
BY BoundsAreNatural DEF IInv, TypeOK, Commands, Numbered, Database

-----------------------------------------------------------------------------
(* The gate.                                                                 *)

LEMMA GatedStep == IInv /\ Next => Gated'
<1> SUFFICES ASSUME IInv, Next PROVE Gated'
  OBVIOUS
<1> USE DEF IInv
<1>1. ASSUME MarkerRewritten \/ OpenFails PROVE Gated'
  BY <1>1, AlikeSteps, DamagedTyped, NoneIsNoFile
     DEF MarkerRewritten, OpenFails, PreserveDamaged, Alike, InUse, Gated
<1>2. ASSUME Advance \/ DamageDatabase \/ \E w \in Writer : Write(w) PROVE Gated'
  BY <1>2, ChangedFile DEF SameDatabase, InUse, Gated
<1>3. ASSUME NEW w \in Writer, NEW pinned \in BOOLEAN, Open(w, pinned) PROVE Gated'
  BY <1>3, Present, NoneIsNoFile DEF Open, Gated
<1>4. ASSUME NEW w \in Writer, Close(w) PROVE Gated'
  BY <1>4, InUseBy, SameGenerations DEF Close, Alike, Gated
<1>5. ASSUME NEW w \in Writer, BackupEnds(w) PROVE Gated'
  BY <1>5, InUseBy, SameGenerations DEF BackupEnds, Alike, Gated
<1>6. ASSUME NEW w \in Writer, NEW b \in Backup, BackupBegins(w, b) PROVE Gated'
  BY <1>6, InUseBy, SameGenerations DEF BackupBegins, Alike, Gated
<1>7. ASSUME NEW gen \in Nat, NEW facts \in SUBSET Fact, NEW baseline \in BOOLEAN,
             NEW inventory \in SUBSET Effect, Begin(gen, facts, baseline, inventory)
      PROVE  Gated'
  BY <1>7 DEF Begin, Recovering, InUse, Gated
<1>8. ASSUME Preserve \/ PreserveLog \/ Remove PROVE Gated'
  BY <1>8 DEF Preserve, PreserveLog, Remove, InUse, Gated, TypeOK, Commands
<1>9. ASSUME Install PROVE Gated'
  BY <1>9, CandidateTyped DEF Install, InUse, Gated, TypeOK, Commands
<1>10. ASSUME Record \/ Complete \/ Abandon PROVE Gated'
  BY <1>10 DEF Record, Complete, Abandon, NoCommand, Recovering, InUse, Gated
<1>11. ASSUME NEW e \in Effect, Reconcile(e) PROVE Gated'
  BY <1>11 DEF Reconcile, Recovering, InUse, Gated
<1>12. ASSUME DamageMarker PROVE Gated'
  BY <1>12 DEF DamageMarker, Recovering, InUse, Gated
<1> QED BY <1>1, <1>2, <1>3, <1>4, <1>5, <1>6, <1>7, <1>8, <1>9, <1>10, <1>11, <1>12,
           Begins DEF Next, Use, Recover, Fault

-----------------------------------------------------------------------------
(* The numbers of the databases.                                             *)

LEMMA NumberedStep == IInv /\ Next => Numbered'
<1> SUFFICES ASSUME IInv, Next PROVE Numbered'
  OBVIOUS
<1> USE DEF IInv
<1>1. ASSUME Alike, UNCHANGED <<writer, recovery, built>> PROVE Numbered'
  BY <1>1 DEF Alike, Numbered, Unremoved
<1>2. ASSUME Advance \/ DamageDatabase \/ \E w \in Writer : Write(w) PROVE Numbered'
  BY <1>2, ChangedFile DEF SameDatabase, Numbered, Unremoved
<1>3. ASSUME NEW w \in Writer, NEW pinned \in BOOLEAN, Open(w, pinned) PROVE Numbered'
  <2>1. db # None /\ recovery.pc = "idle" /\ db.id <= built
    BY <1>3, Present, NoneIsNoFile DEF Open, Gated, Numbered
  <2>2. \A v \in Writer : writer'[v].id = writer[v].id \/ writer'[v].id = db.id
    BY <1>3 DEF Open, TypeOK, Writers
  <2> QED BY <1>3, <2>1, <2>2 DEF Open, Numbered, Unremoved
<1>4. ASSUME NEW w \in Writer,
             Close(w) \/ BackupEnds(w) \/ \E b \in Backup : BackupBegins(w, b)
      PROVE  Numbered'
  BY <1>4, SameGenerations DEF Alike, Numbered, Unremoved
<1>5. ASSUME NEW gen \in Nat, NEW facts \in SUBSET Fact, NEW baseline \in BOOLEAN,
             NEW inventory \in SUBSET Effect, Begin(gen, facts, baseline, inventory)
      PROVE  Numbered'
  <2>1. [id |-> built + 1, gen |-> NextGeneration(gen), facts |-> facts, log |-> {},
         sound |-> TRUE] \in Database
    BY <1>5, NextIsNewer DEF Begin, Recovering, TypeOK, Database
  <2>2. /\ recovery'.pc = "candidate" /\ recovery'.candidate # None
        /\ recovery'.candidate.id = built'
    BY <1>5, <2>1, NoneIsNoFile DEF Begin
  <2>3. built \in Nat /\ built' = built + 1 /\ built < MaxDatabases
        /\ UNCHANGED <<db, writer>>
    BY <1>5 DEF Begin, TypeOK
  <2>4. db # None => db.id \in Nat
    BY DEF TypeOK, Database
  <2>5. \A w \in Writer : writer[w].id \in Nat
    BY DEF TypeOK, Writers
  <2>6. db # None => db.id < built'
    BY <2>3, <2>4 DEF Numbered
  <2>7. \A w \in Writer : writer[w].id < built'
    BY <2>3, <2>5 DEF Numbered
  <2>8. built' <= MaxDatabases /\ 0 < built'
    BY <2>3, BoundsAreNatural
  <2>9. (db # None => db.id <= built') /\ \A w \in Writer : writer[w].id <= built'
    BY <2>3, <2>4, <2>5 DEF Numbered
  <2> QED BY <2>2, <2>3, <2>6, <2>7, <2>8, <2>9 DEF Numbered
<1>6. ASSUME Preserve \/ PreserveLog \/ Remove PROVE Numbered'
  BY <1>6 DEF Preserve, PreserveLog, Remove, Numbered, Unremoved, TypeOK, Commands
<1>7. ASSUME Install PROVE Numbered'
  <2>1. /\ recovery'.pc = "installed" /\ recovery'.candidate = recovery.candidate
        /\ db' = recovery.candidate /\ UNCHANGED <<writer, built>>
    BY <1>7 DEF Install, TypeOK, Commands
  <2>2. recovery.candidate # None /\ recovery.candidate.id = built
        /\ built \in 1 .. MaxDatabases
    BY <1>7, CandidateTyped DEF Install
  <2> QED BY <2>1, <2>2 DEF Numbered, Unremoved
<1>8. ASSUME Record \/ Abandon PROVE Numbered'
  BY <1>8 DEF Record, Abandon, NoCommand, Numbered, Unremoved
<1>9. ASSUME MarkerRewritten \/ OpenFails \/ Complete \/ DamageMarker
               \/ \E e \in Effect : Reconcile(e)
      PROVE  Numbered'
  <2>1. Alike
    BY <1>9, AlikeSteps DEF Complete, DamageMarker, Reconcile
  <2> QED BY <1>1, <1>9, <2>1
          DEF MarkerRewritten, OpenFails, PreserveDamaged, Reconcile, Complete, DamageMarker
<1> QED BY <1>1, <1>2, <1>3, <1>4, <1>5, <1>6, <1>7, <1>8, <1>9, Begins
        DEF Next, Use, Recover, Fault

-----------------------------------------------------------------------------
(* Generations.                                                              *)

LEMMA BehindStep == IInv /\ Next => Behind'
<1> SUFFICES ASSUME IInv, Next PROVE Behind'
  OBVIOUS
<1> USE DEF IInv
<1>0. /\ highWater \in Nat
      /\ \A w \in Writer : writer[w].gen \in Nat
      /\ db # None => db \in Database /\ db.gen \in Nat
  BY DEF TypeOK, Writers, Database
<1>1. ASSUME Alike, UNCHANGED <<highWater, writer, recovery>> PROVE Behind'
  BY <1>1 DEF Alike, Behind, Unremoved
<1>2. ASSUME Advance PROVE Behind'
  <2>1. PICK d \in Logs : db' = [d EXCEPT !.gen = @ + 1]
    BY <1>2 DEF Advance
  <2>6. d \in Database /\ d.id = db.id /\ d.gen = db.gen /\ db # None
    BY <1>2, LogsAre, NoneIsNoFile DEF Advance
  <2>2. db'.gen = db.gen + 1 /\ db'.id = db.id /\ db # None
    BY <2>1, <2>6 DEF Database
  <2>. db.gen + 1 \in Nat
    BY <1>0, <2>2
  <2>3. highWater <= highWater' /\ highWater' \in Nat /\ UNCHANGED <<writer, recovery>>
    BY <1>0, <1>2, HigherIsHighest, HigherIsNatural DEF Advance
  <2>4. \A w \in Writer : writer[w].gen <= highWater'
    BY <1>0, <2>3 DEF Behind
  <2>5. \A w \in Writer : writer[w].id # db.id => writer[w].gen < db.gen + 1
    BY <1>0, <2>2 DEF Behind
  <2> QED BY <2>2, <2>3, <2>4, <2>5 DEF Behind, Unremoved
<1>3. ASSUME DamageDatabase \/ \E w \in Writer : Write(w) PROVE Behind'
  <2>1. db'.gen = db.gen /\ db'.id = db.id /\ db # None
        /\ UNCHANGED <<writer, recovery, highWater>>
    <3>1. db \in Database
      BY <1>0, <1>3, Present, InUseBy DEF DamageDatabase, Write
    <3>2. advances' = advances /\ advances \in Nat
      BY <1>3 DEF DamageDatabase, Write, TypeOK
    <3>3. ~Advance
      <4>. SUFFICES ASSUME advances' = advances + 1 PROVE FALSE
        BY DEF Advance
      <4>. QED BY <3>2
    <3> QED BY <1>3, <3>1, <3>2, <3>3, ChangedFile DEF DamageDatabase, Write, SameDatabase
  <2> QED BY <2>1 DEF Behind, Unremoved
<1>4. ASSUME NEW w \in Writer, NEW pinned \in BOOLEAN, Open(w, pinned) PROVE Behind'
  <2>1. db \in Database /\ db.gen \in Nat /\ db # None /\ recovery.pc = "idle"
    BY <1>4, Present, NoneIsNoFile DEF Open, Gated
  <2>2. /\ \A v \in Writer : v # w => writer'[v] = writer[v]
        /\ writer'[w].gen = db.gen
        /\ writer'[w].id = IF pinned THEN writer[w].id ELSE db.id
    BY <1>4 DEF Open, TypeOK, Writers
  <2>3. writer'[w].id = db.id
    BY <1>0, <1>4, <2>1, <2>2 DEF Open, Behind
  <2>4. highWater' \in Nat /\ highWater <= highWater' /\ db.gen <= highWater'
    BY <1>0, <1>4, <2>1, HigherIsHighest, HigherIsNatural DEF Open
  <2>5. \A v \in Writer : writer'[v].gen <= highWater'
    BY <1>0, <2>2, <2>4, <2>1 DEF Behind
  <2>6. db' = db /\ recovery' = recovery
    BY <1>4 DEF Open
  <2> QED BY <2>1, <2>2, <2>3, <2>5, <2>6 DEF Behind, Unremoved
<1>5. ASSUME NEW w \in Writer,
             Close(w) \/ BackupEnds(w) \/ \E b \in Backup : BackupBegins(w, b)
      PROVE  Behind'
  BY <1>5, SameGenerations DEF Alike, Behind, Unremoved
<1>6. ASSUME NEW gen \in Nat, NEW facts \in SUBSET Fact, NEW baseline \in BOOLEAN,
             NEW inventory \in SUBSET Effect, Begin(gen, facts, baseline, inventory)
      PROVE  Behind'
  <2>1. NextGeneration(gen) \in Nat /\ highWater < NextGeneration(gen)
    BY <1>6, NextIsNewer DEF Begin, Recovering
  <2>2. recovery'.candidate.gen = NextGeneration(gen) /\ UNCHANGED <<db, writer>>
    BY <1>6 DEF Begin
  <2>3. highWater' \in Nat /\ highWater <= highWater'
    BY <1>0, <1>6, <2>1, HigherIsHighest, HigherIsNatural DEF Begin
  <2>4. \A w \in Writer : writer[w].gen <= highWater' /\ writer[w].gen < NextGeneration(gen)
    BY <1>0, <2>1, <2>3 DEF Behind
  <2> QED BY <2>2, <2>4 DEF Behind
<1>7. ASSUME Preserve \/ PreserveLog \/ Remove PROVE Behind'
  BY <1>7 DEF Preserve, PreserveLog, Remove, Behind, Unremoved, TypeOK, Commands
<1>8. ASSUME Install PROVE Behind'
  <2>1. /\ recovery'.pc = "installed" /\ db' = recovery.candidate
        /\ UNCHANGED <<writer, highWater>>
    BY <1>8 DEF Install, TypeOK, Commands
  <2>2. \A w \in Writer : writer[w].gen < recovery.candidate.gen
    BY <1>8 DEF Install, Behind, Unremoved
  <2> QED BY <2>1, <2>2 DEF Behind, Unremoved
<1>9. ASSUME Record \/ Abandon PROVE Behind'
  BY <1>9 DEF Record, Abandon, NoCommand, Behind, Unremoved
<1>10. ASSUME MarkerRewritten \/ OpenFails \/ Complete \/ DamageMarker
                \/ \E e \in Effect : Reconcile(e)
       PROVE  Behind'
  <2>1. Alike
    BY <1>10, AlikeSteps DEF Complete, DamageMarker, Reconcile
  <2> QED BY <1>1, <1>10, <2>1
          DEF MarkerRewritten, OpenFails, PreserveDamaged, Reconcile, Complete, DamageMarker
<1> QED BY <1>1, <1>2, <1>3, <1>4, <1>5, <1>6, <1>7, <1>8, <1>9, <1>10, Begins
        DEF Next, Use, Recover, Fault

-----------------------------------------------------------------------------
(* Evidence.                                                                 *)

\* Facts that are written are saved with the log that they are in, and what is
\* moved between the copies escapes.
LEMMA SavedAnew ==
    ASSUME Saved, NEW new, UNCHANGED recovery,
           evidence \subseteq evidence', late \subseteq late',
           written' \subseteq written \cup new, Kept' = Kept \cup new,
           recovery.pc = "preserving" =>
               LogFile(db) \ LogFile(db') \subseteq late' /\ new \subseteq LogFile(db'),
           recovery.pc = "preserved" => new \subseteq late'
    PROVE  Saved'
BY DEF Saved, NothingIsDiscarded

LEMMA SavedStep == IInv /\ Next => Saved'
<1> SUFFICES ASSUME IInv, Next PROVE Saved'
  OBVIOUS
<1> USE DEF IInv
<1>1. ASSUME UNCHANGED <<db, evidence, written, late, recovery>> PROVE Saved'
  BY <1>1 DEF Saved, NothingIsDiscarded, Kept, LogFile
<1>2. ASSUME MarkerRewritten \/ OpenFails PROVE Saved'
  <2>1. Kept' = Kept
    BY <1>2, AlikeSteps DEF Alike, Kept
  <2>2. recovery.pc = "idle" /\ UNCHANGED <<recovery, written, late>> /\ evidence \subseteq evidence'
    BY <1>2 DEF MarkerRewritten, OpenFails, PreserveDamaged, Gated
  <2> QED BY <2>1, <2>2 DEF Saved, NothingIsDiscarded
<1>3. ASSUME NEW d \in Logs, late' = late \cup Escaping(d), LogFile(db') = LogFile(d),
             Kept' = Kept, UNCHANGED <<recovery, evidence, written>>
      PROVE  Saved'
  <2>1. recovery.pc = "preserving" => LogFile(db) \ LogFile(db') \subseteq late'
    BY <1>3 DEF Escaping
  <2> HIDE DEF IInv
  <2>2. Saved
    BY DEF IInv
  <2>3. /\ evidence \subseteq evidence' /\ late \subseteq late' /\ {} \subseteq late'
        /\ {} \subseteq LogFile(db')
    BY <1>3
  <2>4. written' \subseteq written \cup {} /\ Kept' = Kept \cup {}
    BY <1>3
  <2>5. UNCHANGED recovery
    BY <1>3
  <2>6. recovery.pc = "preserving" =>
            LogFile(db) \ LogFile(db') \subseteq late' /\ {} \subseteq LogFile(db')
    BY <2>1, <2>3
  <2> HIDE <1>3
  <2> QED BY <2>2, <2>3, <2>4, <2>5, <2>6, SavedAnew
<1>4. ASSUME NEW w \in Writer, Write(w) PROVE Saved'
  <2>1. db \in Database /\ db # None /\ db' \in Database /\ db' # None
    BY <1>4, Present, InUseBy, NoneIsNoFile, ChangedFile DEF Write, SameDatabase
  <2>2. PICK f \in Fact, d \in Logs :
          /\ db' = [d EXCEPT !.facts = @ \cup {f}, !.log = @ \cup {f}]
          /\ written' = written \cup {f}
          /\ late' = late \cup Escaping(d) \cup (IF recovery.pc = "preserved" THEN {f} ELSE {})
    BY <1>4 DEF Write
  <2>3. d \in Database /\ d # None /\ d.facts = db.facts
    BY <2>1, LogsAre, NoneIsNoFile
  <2>4. db'.facts = db.facts \cup {f} /\ db'.log = d.log \cup {f}
    BY <2>2, <2>3, WrittenTyped
  <2>5. Kept' = Kept \cup {f} /\ LogFile(db') = LogFile(d) \cup {f}
    BY <2>1, <2>3, <2>4 DEF Kept, LogFile
  <2>6. UNCHANGED <<evidence, recovery>>
    BY <1>4 DEF Write
  <2>7. recovery.pc = "preserving" => LogFile(db) \ LogFile(db') \subseteq late'
    BY <2>2, <2>5 DEF Escaping
  <2>8. Saved
    OBVIOUS
  <2> HIDE DEF IInv
  <2> QED BY <2>2, <2>5, <2>6, <2>7, <2>8, SavedAnew
<1>5. ASSUME NEW gen \in Nat, NEW facts \in SUBSET Fact, NEW baseline \in BOOLEAN,
             NEW inventory \in SUBSET Effect, Begin(gen, facts, baseline, inventory)
      PROVE  Saved'
  BY <1>5 DEF Begin, Saved, NothingIsDiscarded, Kept
<1>6. ASSUME Preserve PROVE Saved'
  <2>1. /\ recovery'.pc = "preserving" /\ evidence' = evidence \cup MainFile(db)
        /\ UNCHANGED <<db, written, late>>
    BY <1>6 DEF Preserve, TypeOK, Commands
  <2>2. Kept \subseteq MainFile(db) \cup LogFile(db)
    BY DEF Kept, MainFile, LogFile
  <2> QED BY <2>1, <2>2 DEF Saved, NothingIsDiscarded, Kept, LogFile
<1>7. ASSUME PreserveLog PROVE Saved'
  <2>1. /\ recovery'.pc = "preserved" /\ recovery.pc = "preserving"
        /\ evidence' = evidence \cup LogFile(db) /\ UNCHANGED <<db, written, late>>
    BY <1>7 DEF PreserveLog, TypeOK, Commands
  <2> QED BY <2>1 DEF Saved, NothingIsDiscarded, Kept
<1>8. ASSUME Remove PROVE Saved'
  BY <1>8 DEF Remove, Saved, NothingIsDiscarded, Kept, TypeOK, Commands
<1>9. ASSUME Install PROVE Saved'
  <2>1. db = None
    BY <1>9 DEF Install, Gated
  <2> QED BY <1>9, <2>1 DEF Install, Saved, NothingIsDiscarded, Kept, TypeOK, Commands
<1>10. ASSUME Record \/ Abandon PROVE Saved'
  BY <1>10 DEF Record, Abandon, NoCommand, Saved, NothingIsDiscarded, Kept
<1>11. ASSUME Advance PROVE Saved'
  <2>1. db \in Database /\ db # None /\ db' \in Database /\ db' # None
    BY <1>11, ChangedFile, NoneIsNoFile DEF Advance, TypeOK
  <2>2. PICK d \in Logs : db' = [d EXCEPT !.gen = @ + 1] /\ late' = late \cup Escaping(d)
    BY <1>11 DEF Advance
  <2>3. d \in Database /\ d # None /\ d.facts = db.facts
    BY <2>1, LogsAre, NoneIsNoFile
  <2>4. db'.facts = db.facts /\ db'.log = d.log
    BY <2>2, <2>3 DEF Database
  <2>5. Kept' = Kept /\ LogFile(db') = LogFile(d)
    BY <2>1, <2>3, <2>4 DEF Kept, LogFile
  <2> QED BY <1>3, <1>11, <2>2, <2>5 DEF Advance
<1>12. ASSUME DamageDatabase PROVE Saved'
  <2>1. db \in Database /\ db # None /\ db' # None
    BY <1>12, ChangedFile DEF DamageDatabase, SameDatabase, TypeOK
  <2>2. db'.facts = db.facts /\ db'.log = db.log
    BY <1>12, <2>1 DEF DamageDatabase, Database
  <2> QED BY <1>12, <2>1, <2>2 DEF DamageDatabase, Saved, NothingIsDiscarded, Kept, LogFile
<1>13. ASSUME NEW w \in Writer,
              Close(w) \/ BackupEnds(w) \/ \E b \in Backup : BackupBegins(w, b)
       PROVE  Saved'
  <2>1. \E d \in Logs : db' = d /\ late' = late \cup Escaping(d)
    BY <1>13 DEF Close, BackupEnds, BackupBegins, Leaves
  <2>2. Kept' = Kept /\ UNCHANGED <<recovery, evidence, written>>
    BY <1>13, SameGenerations DEF Alike, Kept
  <2> QED BY <1>3, <2>1, <2>2
<1>14. ASSUME DamageMarker \/ Complete \/ (\E e \in Effect : Reconcile(e))
                \/ (\E w \in Writer, pinned \in BOOLEAN : Open(w, pinned))
       PROVE  Saved'
  BY <1>1, <1>14 DEF Open, Reconcile, Complete, DamageMarker
<1> QED BY <1>2, <1>4, <1>5, <1>6, <1>7, <1>8, <1>9, <1>10, <1>11, <1>12, <1>13, <1>14, Begins
        DEF Next, Use, Recover, Fault

-----------------------------------------------------------------------------
(* Reconciliation.                                                           *)

LEMMA WaitingStep == IInv /\ Next => Waiting'
<1> SUFFICES ASSUME IInv, Next PROVE Waiting'
  OBVIOUS
<1> USE DEF IInv
<1>1. ASSUME MarkerRewritten \/ OpenFails PROVE Waiting'
  <2>1. /\ marker' # None /\ marker'.phase = "damaged-state" /\ recovery.pc = "idle"
        /\ UNCHANGED <<writer, owed, recovery>> /\ Alike
    BY <1>1, DamagedTyped, AlikeSteps, NoneIsNoFile
       DEF MarkerRewritten, OpenFails, PreserveDamaged, Damaged, Gated
  <2> QED BY <2>1 DEF Alike, Waiting, Unremoved, MutationsWaitForReconciliation, InUse
<1>2. ASSUME Advance \/ DamageDatabase \/ \E w \in Writer : Write(w) PROVE Waiting'
  BY <1>2, ChangedFile DEF SameDatabase, Waiting, Unremoved, MutationsWaitForReconciliation, InUse
<1>3. ASSUME NEW w \in Writer, NEW pinned \in BOOLEAN, Open(w, pinned) PROVE Waiting'
  BY <1>3, Present, NoneIsNoFile
     DEF Open, Gated, Waiting, Unremoved, MutationsWaitForReconciliation
<1>4. ASSUME NEW w \in Writer,
             Close(w) \/ BackupEnds(w) \/ \E b \in Backup : BackupBegins(w, b)
      PROVE  Waiting'
  <2>1. InUse
    BY <1>4, InUseBy DEF Close, BackupEnds, BackupBegins
  <2>2. Alike /\ UNCHANGED <<marker, recovery, built, owed>>
    BY <1>4, SameGenerations
  <2> QED BY <2>1, <2>2 DEF Alike, Waiting, Unremoved, MutationsWaitForReconciliation
<1>5. ASSUME NEW gen \in Nat, NEW facts \in SUBSET Fact, NEW baseline \in BOOLEAN,
             NEW inventory \in SUBSET Effect, Begin(gen, facts, baseline, inventory),
             baseline => inventory = {}
      PROVE  Waiting'
  <2>1. /\ recovery'.pc = "candidate" /\ built' = built + 1 /\ built \in Nat
        /\ recovery'.baseline = baseline /\ recovery'.inventory = inventory
        /\ UNCHANGED <<db, marker, writer, owed>>
    BY <1>5 DEF Begin, TypeOK
  <2>2. marker # None /\ marker.restored # None => marker.restored.id \in Nat
    BY MarkerTyped DEF Database
  <2> QED BY <1>5, <2>1, <2>2 DEF Waiting, Unremoved, MutationsWaitForReconciliation, InUse
<1>6. ASSUME Preserve \/ PreserveLog PROVE Waiting'
  <2>1. /\ recovery.pc \in {"candidate", "preserving"}
        /\ recovery'.pc \in {"preserving", "preserved"}
        /\ recovery'.baseline = recovery.baseline
        /\ recovery'.inventory = recovery.inventory
        /\ UNCHANGED <<db, marker, writer, built, owed>>
    BY <1>6 DEF Preserve, PreserveLog, TypeOK, Commands
  <2> QED BY <2>1 DEF Waiting, Unremoved, MutationsWaitForReconciliation, InUse
<1>7. ASSUME Remove PROVE Waiting'
  <2>1. /\ recovery.pc = "preserved" /\ recovery'.pc = "removed" /\ ~InUse /\ marker # None
        /\ recovery'.baseline = recovery.baseline
        /\ recovery'.inventory = recovery.inventory
        /\ UNCHANGED <<marker, writer, built, owed>>
    BY <1>7 DEF Remove, TypeOK, Commands, Gated
  <2> QED BY <2>1 DEF Waiting, Unremoved, MutationsWaitForReconciliation, InUse
<1>8. ASSUME Install PROVE Waiting'
  <2>1. /\ recovery.pc = "removed" /\ recovery'.pc = "installed" /\ ~InUse /\ marker # None
        /\ recovery'.baseline = recovery.baseline
        /\ recovery'.inventory = recovery.inventory
        /\ UNCHANGED <<marker, writer, built>>
    BY <1>8 DEF Install, TypeOK, Commands, Gated
  <2>2. owed' = [owed EXCEPT ![built] = recovery.inventory] /\ built \in 0 .. MaxDatabases
    <3>1. recovery.candidate.id = built /\ built \in 1 .. MaxDatabases
      BY <2>1, CandidateTyped
    <3> QED BY <1>8, <3>1, BoundsAreNatural DEF Install
  <2>3. owed'[built] = recovery.inventory /\ \A i \in 0 .. MaxDatabases :
            i # built => owed'[i] = owed[i]
    BY <2>2 DEF TypeOK
  <2>4. marker.restored # None => marker.restored.id \in Nat
    BY <2>1, MarkerTyped DEF Database
  <2>5. ASSUME marker.phase = "post-backup-reconciliation"
        PROVE  marker.restored.id \in 0 .. MaxDatabases /\ marker.restored.id # built
    BY <2>1, <2>2, <2>4, <2>5, BoundsAreNatural DEF Waiting, Unremoved
  <2> QED BY <2>1, <2>3, <2>5 DEF Waiting, Unremoved, MutationsWaitForReconciliation, InUse
<1>9. ASSUME Record PROVE Waiting'
  <2>1. /\ recovery.pc = "installed" /\ recovery'.pc = "idle"
        /\ UNCHANGED <<db, writer, built, owed>>
    BY <1>9 DEF Record, NoCommand
  <2>2. db # None /\ db.id = built /\ owed[built] = recovery.inventory
    BY <2>1 DEF Numbered, Waiting
  <2>3. CASE recovery.baseline
    BY <1>9, <2>1, <2>2, <2>3 DEF Record, Waiting, Unremoved, MutationsWaitForReconciliation
  <2>4. CASE ~recovery.baseline
    <3>1. marker \in Markers /\ marker' = Restored
      BY <1>9, <2>4, MarkerTyped DEF Record, Gated
    <3>2. /\ marker'.restored = recovery.candidate /\ marker'.inventory = recovery.inventory
          /\ marker'.reconciled = {}
      BY <3>1 DEF Restored, Markers
    <3>3. recovery.candidate # None /\ recovery.candidate.id = built /\ built \in Nat
      BY <2>1, CandidateTyped
    <3>5. marker' # None
      BY <3>1, NoneIsNoFile, RestoredTyped
    <3> QED BY <2>1, <2>2, <3>2, <3>3, <3>5
            DEF Waiting, Unremoved, MutationsWaitForReconciliation, InUse
  <2> QED BY <2>3, <2>4
<1>10. ASSUME NEW e \in Effect, Reconcile(e) PROVE Waiting'
  <2>1. marker \in Markers /\ marker # None /\ recovery.pc = "idle"
        /\ marker.phase = "post-backup-reconciliation"
    BY <1>10, MarkerTyped DEF Reconcile, Recovering
  <2>2. marker' = [marker EXCEPT !.reconciled = @ \cup {e}] /\ UNCHANGED <<db, writer, recovery, built>>
    BY <1>10 DEF Reconcile
  <2>3. /\ marker'.restored = marker.restored /\ marker'.inventory = marker.inventory
        /\ marker'.reconciled = marker.reconciled \cup {e}
        /\ marker'.phase = marker.phase
    BY <2>1, <2>2 DEF Markers
  <2>4. owed' = [owed EXCEPT ![marker.restored.id] = @ \ {e}]
    BY <1>10 DEF Reconcile
  <2>5. \A i \in 0 .. MaxDatabases : owed'[i] \subseteq owed[i]
    BY <2>4 DEF TypeOK
  <2>6. marker.restored.id \in 0 .. MaxDatabases /\ marker.restored # None
    BY <2>1, MarkerTyped, BoundsAreNatural DEF Waiting, Numbered, Database, TypeOK
  <2>7. owed'[marker.restored.id] \subseteq marker'.inventory \ marker'.reconciled
    BY <2>1, <2>3, <2>4, <2>6 DEF TypeOK, Waiting
  <2>8. marker' # None
    <3>1. marker' \in Markers
      BY <2>1, <2>2, <1>10 DEF Reconcile, Unreconciled, Markers
    <3> QED BY <3>1, NoneIsNoFile
  <2>9. InUse => db # None /\ owed'[db.id] = {}
    <3>1. ASSUME InUse PROVE db # None /\ db.id \in 0 .. MaxDatabases /\ owed[db.id] = {}
      BY <3>1, Present, NoneIsNoFile, BoundsAreNatural
         DEF Waiting, Unremoved, MutationsWaitForReconciliation, Numbered, TypeOK
    <3> QED BY <2>5, <3>1
  <2> QED BY <2>1, <2>2, <2>3, <2>6, <2>7, <2>8, <2>9
          DEF Waiting, Unremoved, MutationsWaitForReconciliation, InUse
<1>11. ASSUME Complete PROVE Waiting'
  <2>1. marker # None /\ marker.phase = "post-backup-reconciliation" /\ recovery.pc = "idle"
    BY <1>11 DEF Complete, Recovering
  <2>2. marker.inventory \ marker.reconciled = {} /\ db # None /\ db = marker.restored
    BY <1>11 DEF Complete, Unreconciled, IsRestored
  <2>3. owed[db.id] = {}
    BY <2>1, <2>2 DEF Waiting, Unremoved
  <2> QED BY <1>11, <2>1, <2>2, <2>3 DEF Complete, Waiting, Unremoved, MutationsWaitForReconciliation
<1>12. ASSUME Abandon PROVE Waiting'
  BY <1>12 DEF Abandon, NoCommand, Waiting, Unremoved, MutationsWaitForReconciliation, InUse
<1>13. ASSUME DamageMarker PROVE Waiting'
  <2>1. marker \in Markers /\ recovery.pc = "idle"
    BY <1>13, MarkerTyped DEF DamageMarker, Recovering
  <2>2. marker' \in Markers /\ marker'.phase = "unreadable"
    BY <1>13, <2>1 DEF DamageMarker, Markers, Phases
  <2> QED BY <1>13, <2>1, <2>2, NoneIsNoFile
          DEF DamageMarker, Waiting, Unremoved, MutationsWaitForReconciliation, InUse
<1> QED BY <1>1, <1>2, <1>3, <1>4, <1>5, <1>6, <1>7, <1>8, <1>9, <1>10, <1>11, <1>12, <1>13,
           Begins DEF Next, Use, Recover, Fault

-----------------------------------------------------------------------------
(* Backups.                                                                  *)

\* The facts of a copy that has as many as its row, and holds the row, are the
\* row's.
LEMMA SameCount ==
    ASSUME NEW row \in SUBSET Fact, NEW facts \in SUBSET Fact, row \subseteq facts,
           Cardinality(facts) = Cardinality(row)
    PROVE  facts = row
<1>1. IsFiniteSet(Fact)
  BY FS_Interval, BoundsAreNatural DEF Fact
<1>2. IsFiniteSet(facts)
  BY <1>1, FS_Subset
<1> QED BY <1>2, FS_Subset

LEMMA CopyingStep == IInv /\ Next => Copying'
<1> SUFFICES ASSUME IInv, Next PROVE Copying'
  OBVIOUS
<1> USE DEF IInv
<1>1. ASSUME Alike, UNCHANGED <<backup, writer>> PROVE Copying'
  BY <1>1 DEF Alike, Copying, BackupsAreExact
<1>2. ASSUME Advance \/ DamageDatabase \/ \E w \in Writer : Write(w) PROVE Copying'
  BY <1>2, ChangedFile DEF SameDatabase, Copying, BackupsAreExact
<1>3. ASSUME NEW w \in Writer, NEW pinned \in BOOLEAN, Open(w, pinned) PROVE Copying'
  <2>1. \A v \in Writer : writer'[v].pc = "copying" =>
           writer[v].pc = "copying" /\ writer'[v].backup = writer[v].backup
    BY <1>3 DEF Open, TypeOK, Writers
  <2>2. UNCHANGED <<db, backup>>
    BY <1>3 DEF Open
  <2> QED BY <2>1, <2>2 DEF Copying, BackupsAreExact
<1>4. ASSUME NEW w \in Writer, Close(w) PROVE Copying'
  <2>1. \A v \in Writer : writer'[v].pc = "copying" =>
           writer[v].pc = "copying" /\ writer'[v].backup = writer[v].backup
    BY <1>4 DEF Close, Leaves, TypeOK, Writers
  <2>2. UNCHANGED backup /\ db'.facts = db.facts
    BY <1>4, SameGenerations DEF Close, Alike
  <2> QED BY ZenonT(60), <2>1, <2>2 DEF Copying, BackupsAreExact
<1>5. ASSUME NEW w \in Writer, NEW b \in Backup, BackupBegins(w, b) PROVE Copying'
  <2>1. writer'[w].pc = "copying" /\ writer'[w].backup = b
        /\ \A v \in Writer : v # w => writer'[v] = writer[v]
    BY <1>5 DEF BackupBegins, TypeOK, Writers
  <2>2. \A v \in Writer : v # w /\ writer[v].pc = "copying" => writer[v].backup # b
    BY <1>5 DEF BackupBegins, Copying
  <2> DEFINE new == [facts |-> {}, row |-> db.facts, gen |-> db.gen, manifest |-> FALSE]
  <2>3. backup'[b] = new /\ \A c \in Backup : c # b => backup'[c] = backup[c]
    BY <1>5 DEF BackupBegins, TypeOK
  <2>. db.facts \in SUBSET Fact /\ db.gen \in Nat
    BY <1>5, Present, InUseBy DEF BackupBegins
  <2>4. new \in Copy /\ b # None
    BY NoneIsNoFile DEF Copy
  <2>5. /\ backup'[b] # None /\ ~backup'[b].manifest /\ backup'[b].row = db.facts
        /\ db'.facts = db.facts
    <3>1. new # None /\ ~new.manifest /\ new.row = db.facts
      BY <2>4, NoneIsNoFile
    <3> QED BY <1>5, <2>3, <3>1, SameGenerations DEF Alike
  <2>6. BackupsAreExact'
    BY <2>3, <2>5 DEF Copying, BackupsAreExact
  <2>7. \A v \in Writer : v # w /\ writer'[v].pc = "copying" =>
          /\ writer'[v].backup # None /\ writer'[v].backup \in Backup
          /\ backup'[writer'[v].backup] = backup[writer[v].backup]
    BY <2>1, <2>2, <2>3 DEF Copying, TypeOK, Writers
  <2> QED BY <2>1, <2>2, <2>4, <2>5, <2>6, <2>7 DEF Copying
<1>6. ASSUME NEW w \in Writer, BackupEnds(w) PROVE Copying'
  <2> DEFINE b == writer[w].backup
  <2>1. writer[w].pc = "copying" /\ b \in Backup /\ backup[b] \in Copy
        /\ backup[b].row \subseteq db.facts /\ db.facts \subseteq Fact
    BY <1>6, Present, InUseBy, NoneIsNoFile DEF BackupEnds, Copying, TypeOK, Writers
  <2>2. /\ \A v \in Writer : v # w => writer'[v] = writer[v]
        /\ writer'[w].pc = "closed"
    BY <1>6 DEF BackupEnds, Leaves, TypeOK, Writers
  <2>3. \A v \in Writer : v # w /\ writer[v].pc = "copying" => writer[v].backup # b
    BY <2>1 DEF Copying
  <2>4. /\ backup'[b] = IF Provenance(backup[b])
                        THEN [backup[b] EXCEPT !.facts = db.facts, !.manifest = TRUE]
                        ELSE None
        /\ \A c \in Backup : c # b => backup'[c] = backup[c]
    BY <1>6, <2>1 DEF BackupEnds, TypeOK
  <2>9. db'.facts = db.facts
    BY <1>6, SameGenerations DEF Alike
  <2>5. Provenance(backup[b]) => db.facts = backup[b].row
    BY <2>1, SameCount DEF Provenance, Copy
  <2>6. backup'[b] # None => backup'[b].facts = backup'[b].row
    BY <2>1, <2>4, <2>5 DEF Copy
  <2>7. BackupsAreExact'
    BY <2>4, <2>6 DEF Copying, BackupsAreExact
  <2>8. \A v \in Writer : writer'[v].pc = "copying" =>
          /\ v # w /\ writer[v].pc = "copying" /\ writer'[v].backup = writer[v].backup
          /\ writer[v].backup \in Backup
          /\ backup'[writer'[v].backup] = backup[writer[v].backup]
    BY <2>2, <2>3, <2>4 DEF Copying, TypeOK, Writers
  <2> QED BY <2>4, <2>7, <2>8, <2>9 DEF Copying
<1>7. ASSUME Remove \/ Install, \A w \in Writer : writer[w].pc = "closed" PROVE Copying'
  BY <1>7 DEF Remove, Install, Copying, BackupsAreExact
<1>8. Remove \/ Install => ~InUse
  BY DEF Remove, Install, Gated
<1>9. UNCHANGED db => Alike
  BY AlikeSteps
<1>10. ASSUME MarkerRewritten \/ OpenFails PROVE Copying'
  BY <1>1, <1>10, AlikeSteps DEF MarkerRewritten, OpenFails, PreserveDamaged
<1> QED BY <1>1, <1>2, <1>3, <1>4, <1>5, <1>6, <1>7, <1>8, <1>9, <1>10, Begins
        DEF Next, Use, Recover, Fault, Begin, Preserve, PreserveLog, Record, Reconcile,
            Complete, Abandon, DamageMarker, InUse

-----------------------------------------------------------------------------
LEMMA InitHolds == Init => IInv
<1> SUFFICES ASSUME Init PROVE IInv
  OBVIOUS
<1>0. db \in Database
  BY DEF Init, Database
<1>1. TypeOK /\ db # None
  BY <1>0, InitTyped, NoneIsNoFile
<1>2. recovery.pc = "idle" /\ \A w \in Writer : writer[w].pc = "closed"
  BY DEF Init, NoCommand
<1>4. Gated
  BY <1>1, <1>2 DEF Gated, InUse
<1>5. Saved
  BY <1>1, <1>2 DEF Init, Saved, NothingIsDiscarded
<1>6. Copying
  BY <1>2 DEF Init, Copying, BackupsAreExact
<1>3. Numbered /\ Behind /\ Waiting
  BY <1>1, BoundsAreNatural
     DEF Init, NoCommand, Numbered, Behind, Waiting, Unremoved, MutationsWaitForReconciliation
<1> QED BY <1>1, <1>3, <1>4, <1>5, <1>6 DEF IInv

LEMMA NextHolds == IInv /\ [Next]_vars => IInv'
<1> SUFFICES ASSUME IInv, [Next]_vars PROVE IInv'
  OBVIOUS
<1>1. CASE Next
  <2>1. TypeOK'
    BY <1>1, UseTyped, RecoverTyped, FaultTyped DEF Next, IInv
  <2> QED BY <1>1, <2>1, GatedStep, NumberedStep, BehindStep, SavedStep, WaitingStep,
             CopyingStep DEF IInv
<1>2. CASE UNCHANGED vars
  BY <1>2 DEF vars, IInv, TypeOK, Gated, Numbered, Behind, Waiting, Saved, Copying, InUse,
              Unremoved, MutationsWaitForReconciliation, NothingIsDiscarded, Kept, LogFile,
              BackupsAreExact
<1> QED BY <1>1, <1>2

LEMMA Invariant == Spec => []IInv
BY InitHolds, NextHolds, PTL DEF Spec

\* Every reachable state is well typed.
THEOREM TypeCorrect == Spec => []TypeOK
BY Invariant, PTL DEF IInv

\* Whatever fails or dies in a recovery, mutations are enabled only on a state
\* whose post-backup effects are reconciled: the gate of openAuthoritativeState
\* and the checks of completeAuthoritativeStateRecovery suffice.
THEOREM Reconciled == Spec => []MutationsWaitForReconciliation
<1>1. IInv => MutationsWaitForReconciliation
  BY DEF IInv, Waiting
<1> QED BY <1>1, Invariant, PTL

\* Two databases never share a write generation that a process has used.
THEOREM Fenced == Spec => []GenerationsAreNotReused
<1>1. IInv => GenerationsAreNotReused
  <2> SUFFICES ASSUME IInv, db # None, NEW w \in Writer, writer[w].gen = db.gen
               PROVE  writer[w].id = db.id
    BY DEF GenerationsAreNotReused
  <2>1. db.gen \in Nat /\ (writer[w].id # db.id => writer[w].gen < db.gen)
    BY DEF IInv, TypeOK, Database, Behind
  <2> QED BY <2>1
<1> QED BY <1>1, Invariant, PTL

\* A recovery displaces no fact that it has not copied, but for those that escape
\* its copies: moved from the log to the main file between the two, or written
\* after them.
THEOREM Preserving == Spec => []NothingIsDiscarded
<1>1. IInv => NothingIsDiscarded
  BY DEF IInv, Saved
<1> QED BY <1>1, Invariant, PTL

\* A backup with a manifest is the journal as it was when it was asked for.
THEOREM Exact == Spec => []BackupsAreExact
<1>1. IInv => BackupsAreExact
  BY DEF IInv, Copying
<1> QED BY <1>1, Invariant, PTL

-----------------------------------------------------------------------------
(* Backups that are finished.                                                *)

\* A process copies into a backup that has no manifest yet.
Unfinished ==
    \A w \in Writer : writer[w].pc = "copying" => ~backup[writer[w].backup].manifest

\* What has a manifest is not written again.
ManifestsStand ==
    \A b \in Backup : backup[b] # None /\ backup[b].manifest => backup'[b] = backup[b]

BackupsAreFinal == [][ManifestsStand]_vars

\* A step that begins no copy and writes none.
LEMMA NoCopyStep ==
    ASSUME Unfinished, UNCHANGED backup,
           \A w \in Writer : writer'[w].pc = "copying" =>
               writer[w].pc = "copying" /\ writer'[w].backup = writer[w].backup
    PROVE  Unfinished' /\ ManifestsStand
BY DEF Unfinished, ManifestsStand

LEMMA CopyStep == IInv /\ Unfinished /\ Next => Unfinished' /\ ManifestsStand
<1> SUFFICES ASSUME IInv, Unfinished, Next PROVE Unfinished' /\ ManifestsStand
  OBVIOUS
<1>0. TypeOK /\ Copying
  BY DEF IInv
<1>1. ASSUME UNCHANGED <<backup, writer>> PROVE Unfinished' /\ ManifestsStand
  BY <1>1, NoCopyStep
<1>2. ASSUME NEW w \in Writer,
             (\E pinned \in BOOLEAN : Open(w, pinned)) \/ Write(w) \/ Close(w)
      PROVE  Unfinished' /\ ManifestsStand
  <2>1. CASE \E pinned \in BOOLEAN : Open(w, pinned)
    <3>1. \A v \in Writer : writer'[v].pc = "copying" =>
              writer[v].pc = "copying" /\ writer'[v].backup = writer[v].backup
      BY <1>0, <2>1 DEF Open, TypeOK, Writers
    <3> QED BY <2>1, <3>1, NoCopyStep DEF Open
  <2>2. CASE Write(w)
    BY <2>2, <1>1 DEF Write
  <2>3. CASE Close(w)
    <3>1. \A v \in Writer : writer'[v].pc = "copying" =>
              writer[v].pc = "copying" /\ writer'[v].backup = writer[v].backup
      BY <1>0, <2>3 DEF Close, Leaves, TypeOK, Writers
    <3> QED BY <2>3, <3>1, NoCopyStep DEF Close
  <2> QED BY <1>2, <2>1, <2>2, <2>3
<1>3. ASSUME NEW w \in Writer, NEW b \in Backup, BackupBegins(w, b)
      PROVE  Unfinished' /\ ManifestsStand
  <2> DEFINE new == [facts |-> {}, row |-> db.facts, gen |-> db.gen, manifest |-> FALSE]
  <2>1. writer'[w].backup = b /\ \A v \in Writer : v # w => writer'[v] = writer[v]
    BY <1>0, <1>3 DEF BackupBegins, TypeOK, Writers
  <2>2. backup[b] = None /\ backup'[b] = new /\ \A c \in Backup : c # b => backup'[c] = backup[c]
    BY <1>0, <1>3 DEF BackupBegins, TypeOK
  <2>3. ~backup'[b].manifest
    BY <2>2
  <2>4. \A v \in Writer : v # w /\ writer[v].pc = "copying" =>
            writer[v].backup \in Backup /\ writer[v].backup # b
    BY <1>0, <2>2 DEF Copying, TypeOK, Writers
  <2>5. Unfinished'
    BY <2>1, <2>2, <2>3, <2>4 DEF Unfinished
  <2> QED BY <2>2, <2>5 DEF ManifestsStand
<1>4. ASSUME NEW w \in Writer, BackupEnds(w) PROVE Unfinished' /\ ManifestsStand
  <2> DEFINE b == writer[w].backup
  <2>1. writer[w].pc = "copying" /\ b \in Backup
    BY <1>0, <1>4 DEF BackupEnds, Copying, TypeOK, Writers
  <2>2. \A c \in Backup : c # b => backup'[c] = backup[c]
    BY <1>0, <1>4 DEF BackupEnds, TypeOK
  <2>3. writer'[w].pc = "closed" /\ \A v \in Writer : v # w => writer'[v] = writer[v]
    BY <1>0, <1>4 DEF BackupEnds, Leaves, TypeOK, Writers
  <2>4. \A v \in Writer : v # w /\ writer[v].pc = "copying" =>
            writer[v].backup \in Backup /\ writer[v].backup # b
    BY <1>0, <2>1 DEF Copying, TypeOK, Writers
  <2>5. Unfinished'
    BY <2>2, <2>3, <2>4 DEF Unfinished
  <2>6. ~backup[b].manifest
    BY <2>1 DEF Unfinished
  <2> QED BY <2>2, <2>5, <2>6 DEF ManifestsStand
<1>5. ASSUME MarkerRewritten \/ OpenFails \/ Advance PROVE UNCHANGED <<backup, writer>>
  BY <1>5 DEF MarkerRewritten, OpenFails, PreserveDamaged, Advance
<1>6. ASSUME Recover PROVE UNCHANGED <<backup, writer>>
  <2>1. CASE \/ \E b \in Backup, inventory \in SUBSET Effect : RestoreBegins(b, inventory)
             \/ BaselineBegins
    BY <2>1 DEF RestoreBegins, BaselineBegins, Begin
  <2> QED BY <1>6, <2>1 DEF Recover, Preserve, PreserveLog, Remove, Install, Record, Reconcile, Complete
<1>7. ASSUME Fault PROVE UNCHANGED <<backup, writer>>
  BY <1>7 DEF Fault, Abandon, DamageDatabase, DamageMarker
<1> QED BY <1>1, <1>2, <1>3, <1>4, <1>5, <1>6, <1>7 DEF Next, Use

\* A finished backup is never written again: the name of a copy in progress is
\* reserved before the copy begins, and no command but a backup writes there,
\* whichever processes back up, fail, restore and die meanwhile.
THEOREM FinishedStand == Spec => BackupsAreFinal
<1>1. Init => Unfinished
  BY DEF Init, Unfinished
<1>2. IInv /\ Unfinished /\ [Next]_vars => Unfinished' /\ (ManifestsStand \/ UNCHANGED vars)
  <2>1. Unfinished /\ UNCHANGED vars => Unfinished'
    BY DEF Unfinished, vars
  <2> QED BY <2>1, CopyStep
<1> QED BY <1>1, <1>2, Invariant, PTL DEF Spec, BackupsAreFinal
=============================================================================
