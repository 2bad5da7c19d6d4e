------------------------------- MODULE Migrations -------------------------------
(***************************************************************************)
(* The schema's migrations (db/migrations.ts): a process that boots, or    *)
(* the deployment tool, applies the files of its release that the ledger   *)
(* lacks, or only verifies that all of them are there.  Boots overlap, die *)
(* between two statements, and come from different releases; one advisory  *)
(* lock serializes those who apply, when it can be had.                    *)
(***************************************************************************)
EXTENDS Naturals, Sequences

CONSTANTS
  LastFile,          \* bound: migrations
  Boots,             \* processes
  Content,           \* what the release of each process has in each file, or
  NoFile,            \*   that it is not in its list
  OldFiles,          \* applied before the ledger had checksums
  OldContent,        \*   and what they were then
  NoBoot,            \* nobody holds the advisory lock
  MaxStarts          \* bound: times a process starts

\* Checksums are none of the marks the ledger uses below.
ASSUME FilesAreNumbered == LastFile \in Nat /\ OldFiles \subseteq 1..LastFile
ASSUME BootsAreKnown ==
  /\ NoBoot \notin Boots /\ MaxStarts \in Nat
  /\ \A p \in Boots, f \in 1..LastFile : Content[p][f] \notin {"absent", "unsigned"}

VARIABLES
  ledger,            \* schema_migrations: a checksum, "unsigned" or "absent"
  ran,               \* history: the contents committed for each file
  latch,             \* who holds MIGRATION_ADVISORY_LOCK_KEY
  boot,              \* what each process is doing, and with which file
  starts             \* counts starts

migrationVars == <<ledger, ran, latch, boot, starts>>

\* MIGRATIONS
Files == 1..LastFile

Down == [at |-> "down", file |-> 1]

Stage(p, at) == boot' = [boot EXCEPT ![p].at = at]
NextFile(p) == boot' = [boot EXCEPT ![p] = [at |-> "lookup", file |-> @.file + 1]]

\* The client ends, and the lock with it.
LetGo(p) == latch' = IF latch = p THEN NoBoot ELSE latch

\* initPool, in the mode apply or verify.
StartBoot(p) ==
  /\ boot[p].at = "down" /\ starts < MaxStarts
  /\ starts' = starts + 1
  /\ \E mode \in {"waiting", "verifying"} : Stage(p, mode)
  /\ UNCHANGED <<ledger, ran, latch>>

\* verifyMigrations, one query: every file has the checksum of the release, and
\* no other file is there.
Verified(p) ==
  \A f \in Files : ledger[f] = (IF Content[p][f] = NoFile THEN "absent" ELSE Content[p][f])

VerifyLedger(p) ==
  /\ boot[p].at = "verifying"
  /\ boot' = [boot EXCEPT ![p] = IF Verified(p) THEN [@ EXCEPT !.at = "up"] ELSE Down]
  /\ UNCHANGED <<ledger, ran, latch, starts>>

TakeLatch(p) ==
  /\ boot[p].at = "waiting" /\ latch = NoBoot
  /\ latch' = p
  /\ Stage(p, "lookup")
  /\ UNCHANGED <<ledger, ran, starts>>

\* The lock cannot be had: applyMigrations goes on without it.
MissLatch(p) ==
  /\ boot[p].at = "waiting"
  /\ Stage(p, "lookup")
  /\ UNCHANGED <<ledger, ran, latch, starts>>

\* Reads the file's row, and compares its checksum.
ReadRow(p) ==
  LET f == boot[p].file
      here == Content[p][f]
  IN
  /\ boot[p].at = "lookup" /\ f \in Files
  /\ \/ /\ here = NoFile \/ ledger[f] = here
        /\ NextFile(p) /\ UNCHANGED latch
     \/ /\ here # NoFile /\ ledger[f] = "absent"
        /\ Stage(p, "applying") /\ UNCHANGED latch
     \/ /\ here # NoFile /\ ledger[f] = "unsigned"
        /\ Stage(p, "signing") /\ UNCHANGED latch
     \/ /\ here # NoFile /\ ledger[f] \notin {here, "absent", "unsigned"}
        /\ boot' = [boot EXCEPT ![p] = Down] /\ LetGo(p)
  /\ UNCHANGED <<ledger, ran, starts>>

\* One transaction: the file's statements and its row, which another process
\* may have written since.
ApplyFile(p) ==
  LET f == boot[p].file IN
  /\ boot[p].at = "applying"
  /\ IF ledger[f] = "absent"
     THEN /\ ledger' = [ledger EXCEPT ![f] = Content[p][f]]
          /\ ran' = [ran EXCEPT ![f] = Append(@, Content[p][f])]
          /\ NextFile(p) /\ UNCHANGED latch
     ELSE boot' = [boot EXCEPT ![p] = Down] /\ LetGo(p) /\ UNCHANGED <<ledger, ran>>
  /\ UNCHANGED starts

\* The backfill of a row from before there were checksums.
SignFile(p) ==
  LET f == boot[p].file IN
  /\ boot[p].at = "signing"
  /\ ledger' = [ledger EXCEPT ![f] = Content[p][f]]
  /\ NextFile(p)
  /\ UNCHANGED <<ran, latch, starts>>

FinishBoot(p) ==
  /\ boot[p].at = "lookup" /\ boot[p].file \notin Files
  /\ Stage(p, "up") /\ LetGo(p)
  /\ UNCHANGED <<ledger, ran, starts>>

\* A statement fails, or the process stops.
BootEnds(p) ==
  /\ boot[p].at # "down"
  /\ boot' = [boot EXCEPT ![p] = Down] /\ LetGo(p)
  /\ UNCHANGED <<ledger, ran, starts>>

MigrationInit ==
  /\ ledger = [f \in Files |-> IF f \in OldFiles THEN "unsigned" ELSE "absent"]
  /\ ran = [f \in Files |-> IF f \in OldFiles THEN <<OldContent>> ELSE <<>>]
  /\ latch = NoBoot
  /\ boot = [p \in Boots |-> Down]
  /\ starts = 0

BootStep(p) ==
  \/ StartBoot(p) \/ VerifyLedger(p) \/ TakeLatch(p) \/ MissLatch(p)
  \/ ReadRow(p) \/ ApplyFile(p) \/ SignFile(p) \/ FinishBoot(p) \/ BootEnds(p)

MigrationNext == \E p \in Boots : BootStep(p)

MigrationSpec == MigrationInit /\ [][MigrationNext]_migrationVars

-----------------------------------------------------------------------------

Contents == {Content[p][f] : p \in Boots, f \in Files} \ {NoFile}

MigrationTypeOK ==
  /\ ledger \in [Files -> Contents \cup {"absent", "unsigned"}]
  /\ ran \in [Files -> Seq(Contents \cup {OldContent})]
  /\ latch \in Boots \cup {NoBoot}
  /\ boot \in [Boots -> [file : 1..(LastFile + 1),
       at : {"down", "waiting", "verifying", "lookup", "applying", "signing", "up"}]]
  /\ starts \in 0..MaxStarts

\* Whoever boots at once, with or without the lock, and wherever one dies: no
\* migration is committed twice, the ledger names what was committed, and a
\* process that is up, and none before it, has found its release applied.
MigrationsHold ==
  /\ \A f \in Files : Len(ran[f]) <= 1 /\ (ran[f] = <<>> <=> ledger[f] = "absent")
  /\ \A f \in Files \ OldFiles : ran[f] # <<>> => ledger[f] = ran[f][1]
  /\ \A p \in Boots, f \in Files :
       boot[p].at = "up" /\ Content[p][f] # NoFile =>
         ledger[f] = Content[p][f] \/ f \in OldFiles
=============================================================================
