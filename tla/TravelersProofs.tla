--------------------------- MODULE TravelersProofs ---------------------------
(***************************************************************************)
(* Proofs about five components of the travelers' side, for any number of  *)
(* processes, accounts, requests, travelers and items.                     *)
(*                                                                         *)
(* Migrations: nothing is committed twice although the advisory lock may   *)
(* be missed, because the ledger row is written in the transaction of the  *)
(* file.                                                                   *)
(*                                                                         *)
(* Accounts: who signs in owns what identifies them.  The invariant says   *)
(* of each request what it has still to do and what it has seen done.      *)
(*                                                                         *)
(* Cosmetics: the coins and the points are where the books say; sums over  *)
(* transfers and closets change as SumLemmas say.                          *)
(*                                                                         *)
(* Spots and Affiliates: what the memory serves is in the tables, because  *)
(* of the order in which requests write them; then the types of these two  *)
(* and of the migrations.                                                  *)
(***************************************************************************)
EXTENDS TravelersSide, SumLemmas

-----------------------------------------------------------------------------
(* Migrations: the ledger *)

\* A file the release of p has is recorded with its content, or is from before
\* there were checksums.
Settled(p, f) == Content[p][f] # NoFile => ledger[f] = Content[p][f] \/ f \in OldFiles

\* The files a process has behind it: none, those before its own, or all.
Behind(p) ==
  IF boot[p].at = "up" THEN Files
  ELSE IF boot[p].at \in {"lookup", "applying", "signing"} THEN {f \in Files : f < boot[p].file}
  ELSE {}

BootType ==
  boot \in [Boots -> [file : 1..(LastFile + 1),
    at : {"down", "waiting", "verifying", "lookup", "applying", "signing", "up"}]]

\* The types the argument needs: a checksum may be anything.
MigrationColumns ==
  /\ ledger = [f \in Files |-> ledger[f]]
  /\ ran = [f \in Files |-> ran[f]]
  /\ latch \in Boots \cup {NoBoot}
  /\ BootType

\* The ledger names what was committed, once.
LedgerInv ==
  \A f \in Files :
    /\ ledger[f] = "absent" => ran[f] = <<>>
    /\ ledger[f] # "absent" => Len(ran[f]) = 1 /\ ran[f] # <<>>
    /\ f \notin OldFiles => ledger[f] # "unsigned"
    /\ f \notin OldFiles /\ ledger[f] # "absent" => ran[f][1] = ledger[f]
    /\ f \in OldFiles => ledger[f] # "absent"

\* A process begins with the first file. What it is about to write is a file of
\* its release; it signs none but an old one, and what it has behind it is
\* settled.
BootInv ==
  \A p \in Boots :
    /\ boot[p].at \in {"down", "waiting", "verifying"} => boot[p].file = 1
    /\ boot[p].at \in {"applying", "signing"} => boot[p].file \in Files
    /\ boot[p].at = "signing" => boot[p].file \in OldFiles
    /\ \A f \in Behind(p) : Settled(p, f)

MigrationInv == MigrationColumns /\ LedgerInv /\ BootInv

LEMMA InitMigrations == MigrationInit => MigrationInv
  BY FilesAreNumbered
     DEF MigrationInit, MigrationInv, MigrationColumns, BootType, LedgerInv, BootInv,
         Behind, Down, Files

\* A step leaves the settled files of every process settled.
LEMMA SettledStays ==
  ASSUME MigrationInv, MigrationNext, NEW f \in Files, ledger[f] # "absent", f \notin OldFiles
  PROVE  ledger'[f] = ledger[f]
<1>1. PICK p \in Boots : BootStep(p)
  BY DEF MigrationNext
<1>2. CASE ApplyFile(p)
  BY <1>2 DEF ApplyFile, MigrationInv, MigrationColumns
<1>3. CASE SignFile(p)
  BY <1>3 DEF SignFile, MigrationInv, MigrationColumns, BootInv
<1>4. CASE ~ApplyFile(p) /\ ~SignFile(p)
  BY <1>1, <1>4 DEF BootStep, StartBoot, VerifyLedger, TakeLatch, MissLatch, ReadRow,
                    FinishBoot, BootEnds
<1> QED BY <1>2, <1>3, <1>4

-----------------------------------------------------------------------------

LEMMA ColumnsStay ==
  ASSUME MigrationInv, NEW p \in Boots, BootStep(p)
  PROVE  MigrationColumns'
<1> USE FilesAreNumbered DEF MigrationInv, MigrationColumns, BootType
<1>1. CASE StartBoot(p)
  BY <1>1 DEF StartBoot, Stage
<1>2. CASE VerifyLedger(p)
  BY <1>2 DEF VerifyLedger, Down
<1>3. CASE TakeLatch(p)
  BY <1>3 DEF TakeLatch, Stage
<1>4. CASE MissLatch(p)
  BY <1>4 DEF MissLatch, Stage
<1>5. CASE ReadRow(p)
  <2>1. boot[p].file \in Nat /\ boot[p].file + 1 \in 1..(LastFile + 1)
    BY <1>5 DEF ReadRow, Files
  <2>2. latch' \in Boots \cup {NoBoot}
    BY <1>5 DEF ReadRow, LetGo
  <2>3. BootType'
    BY <1>5, <2>1 DEF ReadRow, NextFile, Stage, Down
  <2> QED BY <1>5, <2>2, <2>3 DEF ReadRow
<1>6. CASE ApplyFile(p)
  <2>1. boot[p].file \in Files /\ boot[p].file + 1 \in 1..(LastFile + 1)
    BY <1>6 DEF ApplyFile, Files, BootInv
  <2>2. latch' \in Boots \cup {NoBoot}
    BY <1>6 DEF ApplyFile, LetGo
  <2>3. BootType'
    BY <1>6, <2>1, SMTT(40) DEF ApplyFile, NextFile, Down
  <2>4. ledger' = [f \in Files |-> ledger'[f]] /\ ran' = [f \in Files |-> ran'[f]]
    BY <1>6, <2>1 DEF ApplyFile
  <2> QED BY <2>2, <2>3, <2>4
<1>7. CASE SignFile(p)
  <2>1. boot[p].file \in Files /\ boot[p].file + 1 \in 1..(LastFile + 1)
    BY <1>7 DEF SignFile, Files, BootInv
  <2>2. BootType'
    BY <1>7, <2>1 DEF SignFile, NextFile
  <2> QED BY <1>7, <2>1, <2>2 DEF SignFile
<1>8. CASE FinishBoot(p)
  BY <1>8 DEF FinishBoot, Stage, LetGo
<1>9. CASE BootEnds(p)
  BY <1>9 DEF BootEnds, LetGo, Down
<1> QED
  BY <1>1, <1>2, <1>3, <1>4, <1>5, <1>6, <1>7, <1>8, <1>9 DEF BootStep

\* The row of a file is written with its statements, and only where there is
\* none: the ledger alone keeps a file from being committed twice.
LEMMA LedgerStays ==
  ASSUME MigrationInv, NEW p \in Boots, BootStep(p)
  PROVE  LedgerInv'
<1> DEFINE f == boot[p].file
<1>1. CASE ApplyFile(p)
  <2>1. f \in Files
    BY <1>1 DEF ApplyFile, MigrationInv, BootInv
  <2>2. CASE ledger[f] = "absent"
    <3>1. Content[p][f] \notin {"absent", "unsigned"}
      BY <2>1, BootsAreKnown DEF Files
    <3>2. ran[f] = <<>> /\ f \notin OldFiles
      BY <2>1, <2>2 DEF MigrationInv, LedgerInv
    <3>3. ran' = [ran EXCEPT ![f] = <<Content[p][f]>>]
      BY <1>1, <2>2, <3>2 DEF ApplyFile
    <3>4. ledger' = [ledger EXCEPT ![f] = Content[p][f]]
      BY <1>1, <2>2 DEF ApplyFile
    <3>5. ran'[f] = <<Content[p][f]>> /\ ledger'[f] = Content[p][f]
      BY <2>1, <3>3, <3>4 DEF MigrationInv, MigrationColumns
    <3>6. \A g \in Files : g # f => ran'[g] = ran[g] /\ ledger'[g] = ledger[g]
      BY <3>3, <3>4 DEF MigrationInv, MigrationColumns
    <3>7. Len(ran'[f]) = 1 /\ ran'[f] # <<>> /\ ran'[f][1] = ledger'[f]
      BY <3>5
    <3> QED BY <3>1, <3>2, <3>5, <3>6, <3>7 DEF MigrationInv, LedgerInv
  <2>3. CASE ledger[f] # "absent"
    BY <1>1, <2>3 DEF ApplyFile, MigrationInv, LedgerInv
  <2> QED BY <2>2, <2>3
<1>2. CASE SignFile(p)
  <2>1. f \in OldFiles /\ f \in Files
    BY <1>2 DEF SignFile, MigrationInv, BootInv
  <2>2. Content[p][f] \notin {"absent", "unsigned"}
    BY <2>1, BootsAreKnown DEF Files
  <2>3. /\ ledger'[f] = Content[p][f] /\ ran' = ran
        /\ \A g \in Files : g # f => ledger'[g] = ledger[g]
    BY <1>2, <2>1 DEF SignFile, MigrationInv, MigrationColumns
  <2> QED BY <2>1, <2>2, <2>3 DEF MigrationInv, LedgerInv
<1>3. CASE UNCHANGED <<ledger, ran>>
  BY <1>3 DEF MigrationInv, LedgerInv
<1>4. ApplyFile(p) \/ SignFile(p) \/ UNCHANGED <<ledger, ran>>
  BY DEF BootStep, StartBoot, VerifyLedger, TakeLatch, MissLatch, ReadRow, FinishBoot,
         BootEnds
<1> QED BY <1>1, <1>2, <1>3, <1>4

\* What a process has behind it stays settled, whatever the others write.
LEMMA SettledForAll ==
  ASSUME MigrationInv, MigrationNext, NEW p \in Boots, NEW f \in Files, Settled(p, f)
  PROVE  Settled(p, f)'
<1>1. CASE Content[p][f] = NoFile \/ f \in OldFiles
  BY <1>1 DEF Settled
<1>2. CASE Content[p][f] # NoFile /\ f \notin OldFiles
  <2>1. ledger[f] = Content[p][f] /\ ledger[f] # "absent"
    BY <1>2, BootsAreKnown DEF Settled, Files
  <2> QED BY <1>2, <2>1, SettledStays DEF Settled
<1> QED BY <1>1, <1>2

\* One process moves; the others only see the ledger grow.
LEMMA BootsStay ==
  ASSUME MigrationInv, NEW p \in Boots, BootStep(p)
  PROVE  BootInv'
<1> DEFINE f == boot[p].file
           Kept(q) ==
             /\ boot[q].at \in {"down", "waiting", "verifying"} => boot[q].file = 1
             /\ boot[q].at \in {"applying", "signing"} => boot[q].file \in Files
             /\ boot[q].at = "signing" => boot[q].file \in OldFiles
             /\ \A g \in Behind(q) : Settled(q, g)
<1>1. MigrationNext
  BY DEF MigrationNext
<1>2. ASSUME NEW q \in Boots, q # p
      PROVE  boot'[q] = boot[q]
  BY <1>2 DEF MigrationInv, MigrationColumns, BootType, BootStep, StartBoot, VerifyLedger,
              TakeLatch, MissLatch, ReadRow, ApplyFile, SignFile, FinishBoot, BootEnds,
              NextFile, Stage
<1>3. ASSUME NEW q \in Boots, q # p
      PROVE  Kept(q)'
  <2>1. Behind(q)' = Behind(q) /\ Behind(q) \subseteq Files
    BY <1>2, <1>3 DEF Behind
  <2> QED BY <1>1, <1>2, <1>3, <2>1, SettledForAll DEF MigrationInv, BootInv
<1>4. Kept(p)'
  <2> USE DEF MigrationInv, MigrationColumns, BootType
  <2>0. Behind(p) \subseteq Files /\ \A g \in Behind(p) : Settled(p, g)'
    BY <1>1, SettledForAll DEF BootInv, Behind
  <2>1. CASE boot'[p] = Down
    BY <2>1 DEF Behind, Down
  <2>2. CASE StartBoot(p) \/ BootEnds(p)
    <3>1. CASE StartBoot(p)
      BY <3>1 DEF StartBoot, Stage, Behind, BootInv
    <3> QED BY <2>1, <2>2, <3>1 DEF BootEnds, Down
  <2>3. CASE VerifyLedger(p)
    <3>1. CASE Verified(p)
      <4>1. boot'[p].at = "up" /\ \A g \in Files : Settled(p, g)'
        BY <2>3, <3>1 DEF VerifyLedger, Verified, Settled
      <4> QED BY <4>1 DEF Behind
    <3>2. CASE ~Verified(p)
      BY <2>1, <2>3, <3>2 DEF VerifyLedger, Down
    <3> QED BY <3>1, <3>2
  <2>4. CASE TakeLatch(p) \/ MissLatch(p)
    <3>1. boot'[p].at = "lookup" /\ boot'[p].file = 1
      BY <2>4 DEF TakeLatch, MissLatch, Stage, BootInv
    <3> QED BY <3>1, FilesAreNumbered DEF Behind, Files
  <2>5. ASSUME NextFile(p), boot[p].at \in {"lookup", "applying", "signing"},
               f \in Files,
               Content[p][f] # NoFile => ledger'[f] = Content[p][f] \/ f \in OldFiles
        PROVE  Kept(p)'
    <3>1. boot'[p].file = f + 1 /\ boot'[p].at = "lookup"
      BY <2>5 DEF NextFile
    <3>2. \A g \in Behind(p)' : g \in Behind(p) \/ g = f
      BY <2>5, <3>1, FilesAreNumbered DEF Behind, Files
    <3>3. \A g \in Behind(p)' : Settled(p, g)'
      BY <2>0, <2>5, <3>2 DEF Settled
    <3> QED BY <3>1, <3>3
  <2>6. CASE ReadRow(p)
    <3>1. f \in Files /\ boot[p].at = "lookup"
      BY <2>6 DEF ReadRow
    <3>2. CASE NextFile(p) /\ (Content[p][f] = NoFile \/ ledger[f] = Content[p][f])
      BY <2>5, <2>6, <3>1, <3>2 DEF ReadRow
    <3>3. CASE Stage(p, "applying")
      <4>1. boot'[p].at = "applying" /\ boot'[p].file = f
        BY <3>3 DEF Stage
      <4> QED BY <2>0, <3>1, <4>1 DEF Behind
    <3>4. CASE Stage(p, "signing") /\ ledger[f] = "unsigned"
      <4>1. boot'[p].at = "signing" /\ boot'[p].file = f
        BY <3>4 DEF Stage
      <4>2. f \in OldFiles
        BY <3>1, <3>4 DEF LedgerInv
      <4> QED BY <2>0, <3>1, <4>1, <4>2 DEF Behind
    <3>5. CASE boot'[p] = Down
      BY <2>1, <3>5
    <3>6. CASE boot' = [boot EXCEPT ![p] = Down]
      BY <3>5, <3>6
    <3> QED BY <2>6, <3>2, <3>3, <3>4, <3>6 DEF ReadRow
  <2>7. CASE ApplyFile(p)
    <3>1. f \in Files /\ boot[p].at = "applying"
      BY <2>7 DEF ApplyFile, BootInv
    <3>2. CASE ledger[f] = "absent"
      <4>1. NextFile(p) /\ ledger'[f] = Content[p][f]
        BY <2>7, <3>1, <3>2 DEF ApplyFile
      <4> QED BY <2>5, <3>1, <4>1
    <3>3. CASE ledger[f] # "absent"
      <4>1. boot' = [boot EXCEPT ![p] = Down]
        BY <2>7, <3>3 DEF ApplyFile
      <4> QED BY <2>1, <4>1
    <3> QED BY <3>2, <3>3
  <2>8. CASE SignFile(p)
    <3>1. f \in Files /\ f \in OldFiles /\ boot[p].at = "signing" /\ NextFile(p)
      BY <2>8 DEF SignFile, BootInv
    <3>2. ledger'[f] = Content[p][f]
      BY <2>8, <3>1 DEF SignFile
    <3> QED BY <2>5, <3>1, <3>2
  <2>9. CASE FinishBoot(p)
    <3>1. boot'[p].at = "up"
      BY <2>9 DEF FinishBoot, Stage
    <3>2. Behind(p) = Files
      BY <2>9, FilesAreNumbered DEF FinishBoot, Behind, Files
    <3> QED BY <2>0, <3>1, <3>2 DEF Behind
  <2> QED BY <2>2, <2>3, <2>4, <2>6, <2>7, <2>8, <2>9 DEF BootStep
<1> QED BY <1>3, <1>4 DEF BootInv

LEMMA NextMigrations == MigrationInv /\ [MigrationNext]_migrationVars => MigrationInv'
<1>1. ASSUME MigrationInv, MigrationNext PROVE MigrationInv'
  BY <1>1, ColumnsStay, LedgerStays, BootsStay DEF MigrationNext, MigrationInv
<1>2. ASSUME MigrationInv, UNCHANGED migrationVars PROVE MigrationInv'
  BY <1>2 DEF MigrationInv, MigrationColumns, BootType, LedgerInv, BootInv, Behind, Settled,
              migrationVars
<1> QED BY <1>1, <1>2

\* No migration is committed twice, the ledger names what was committed, and a
\* process that is up has found its release applied, with any number of
\* processes and releases and without the advisory lock (applyMigrations,
\* verifyMigrations).
THEOREM MigrationsCorrect == MigrationSpec => []MigrationsHold
<1>1. MigrationInv => MigrationsHold
  <2>1. ASSUME MigrationInv, NEW p \in Boots, boot[p].at = "up", NEW f \in Files,
               Content[p][f] # NoFile
        PROVE  ledger[f] = Content[p][f] \/ f \in OldFiles
    BY <2>1 DEF MigrationInv, BootInv, Behind, Settled
  <2>2. ASSUME MigrationInv, NEW f \in Files
        PROVE  /\ Len(ran[f]) <= 1 /\ (ran[f] = <<>> <=> ledger[f] = "absent")
               /\ f \notin OldFiles /\ ran[f] # <<>> => ledger[f] = ran[f][1]
    <3>1. CASE ledger[f] = "absent"
      BY <2>2, <3>1 DEF MigrationInv, LedgerInv
    <3>2. CASE ledger[f] # "absent"
      <4>1. /\ Len(ran[f]) = 1 /\ ran[f] # <<>>
            /\ f \notin OldFiles => ran[f][1] = ledger[f]
        BY <2>2, <3>2 DEF MigrationInv, LedgerInv
      <4> QED BY <3>2, <4>1
    <3> QED BY <3>1, <3>2
  <2> QED BY <2>1, <2>2 DEF MigrationsHold
<1> QED BY <1>1, InitMigrations, NextMigrations, PTL DEF MigrationSpec

-----------------------------------------------------------------------------
(* Accounts: what a request has still to do *)

MailOps == {"register", "resend", "forgot", "verify", "verifyCode", "reset", "google", "complete"}
WalletOps == {"wallet", "complete"}

\* The lists of statements a request of each kind goes through.
RegisterTodos ==
  {<<"free", "email", "password", "record", "retire", "code">>,
   <<"email", "password", "record", "retire", "code">>,
   <<"password", "record", "retire", "code">>, <<"record", "retire", "code">>,
   <<"retire", "code">>, <<"code">>}
AskTodos == {<<"owner", "retire", "code">>, <<"retire", "code">>, <<"code">>}
VerifyTodos == {<<"consume", "verified">>, <<"verified">>}
VerifyCodeTodos == {<<"consume", "code">>, <<"code">>}
ResetTodos == {<<"consume", "password">>, <<"password">>}
GoogleTodos ==
  {<<"byGoogle", "readRecord", "byEmail">>, <<"readRecord", "byEmail">>, <<"byEmail">>,
   <<"linkGoogle">>, <<"google", "email", "record">>, <<"email", "record">>, <<"record">>}
WalletTodos ==
  {<<"byWallet", "bySeed", "bindSeed", "completed", "code">>,
   <<"bySeed", "bindSeed", "completed", "code">>, <<"bindSeed", "completed", "code">>,
   <<"completed", "code">>, <<"code">>}
CompleteTodos ==
  {<<"consume", "byWallet", "bySeed", "bindSeed", "join">>,
   <<"byWallet", "bySeed", "bindSeed", "join">>, <<"bySeed", "bindSeed", "join">>,
   <<"bindSeed", "join">>, <<"join">>, <<"bind", "walletId">>, <<"walletId">>,
   <<"create", "email", "password", "record", "walletId">>,
   <<"setEmail", "email", "password", "record", "walletId">>,
   <<"email", "password", "record", "walletId">>, <<"password", "record", "walletId">>,
   <<"record", "walletId">>}

Todos(op) ==
  CASE op = "register" -> RegisterTodos
    [] op \in {"resend", "forgot"} -> AskTodos
    [] op = "verify" -> VerifyTodos
    [] op = "verifyCode" -> VerifyCodeTodos
    [] op = "reset" -> ResetTodos
    [] op = "google" -> GoogleTodos
    [] op = "wallet" -> WalletTodos
    [] op = "complete" -> CompleteTodos

\* The statement s of op is followed by one of those in then, or ends it.
Leads(op, todo, s, ops, then) ==
  Head(todo) = s =>
    /\ op \in ops
    /\ \/ Tail(todo) = <<>> /\ "end" \in then
       \/ Tail(todo) \in Todos(op) /\ Tail(todo) # <<>> /\ Head(Tail(todo)) \in then

Onward(op, todo) ==
  /\ todo # <<>>
  /\ Leads(op, todo, "free", {"register"}, {"email"})
  /\ Leads(op, todo, "email", {"register", "google", "complete"}, {"password", "record"})
  /\ Leads(op, todo, "google", {"google"}, {"email"})
  /\ Leads(op, todo, "linkGoogle", {"google"}, {"end"})
  /\ Leads(op, todo, "byGoogle", {"google"}, {"readRecord"})
  /\ Leads(op, todo, "readRecord", {"google"}, {"byEmail"})
  /\ Leads(op, todo, "byEmail", {"google"}, {"end"})
  /\ Leads(op, todo, "setEmail", {"complete"}, {"email"})
  /\ Leads(op, todo, "create", {"complete"}, {"email"})
  /\ Leads(op, todo, "bind", {"complete"}, {"walletId"})
  /\ Leads(op, todo, "walletId", {"complete"}, {"end"})
  /\ Leads(op, todo, "join", {"complete"}, {"end"})
  /\ Leads(op, todo, "byWallet", WalletOps, {"bySeed"})
  /\ Leads(op, todo, "bySeed", WalletOps, {"bindSeed"})
  /\ Leads(op, todo, "bindSeed", WalletOps, {"completed", "join"})
  /\ Leads(op, todo, "completed", {"wallet"}, {"code"})
  /\ Leads(op, todo, "owner", {"resend", "forgot"}, {"retire"})
  /\ Leads(op, todo, "retire", {"register", "resend", "forgot"}, {"code"})
  /\ Leads(op, todo, "code", {"register", "resend", "forgot", "verifyCode", "wallet"}, {"end"})
  /\ Leads(op, todo, "verified", {"verify"}, {"end"})
  /\ Leads(op, todo, "password", {"register", "reset", "complete"}, {"record", "end"})
  /\ Head(todo) = "password" => (op = "reset" <=> Tail(todo) = <<>>)
  /\ Leads(op, todo, "record", {"register", "google", "complete"}, {"retire", "walletId", "end"})
  /\ Leads(op, todo, "consume", {"verify", "verifyCode", "reset", "complete"},
           {"verified", "code", "password", "byWallet"})
  /\ Head(todo) = "consume" =>
       /\ op # "reset" => Head(Tail(todo)) # "password"
       /\ op # "verifyCode" => Head(Tail(todo)) # "code"

LEMMA RegisterFollows == \A todo \in RegisterTodos : Onward("register", todo)
  <1>. USE DEF RegisterTodos, Onward, Leads, WalletOps
  <1>1. /\ Tail(<<"free", "email", "password", "record", "retire", "code">>) =
             <<"email", "password", "record", "retire", "code">>
        /\ Tail(<<"email", "password", "record", "retire", "code">>) =
             <<"password", "record", "retire", "code">>
        /\ Tail(<<"password", "record", "retire", "code">>) = <<"record", "retire", "code">>
        /\ Tail(<<"record", "retire", "code">>) = <<"retire", "code">>
        /\ Tail(<<"retire", "code">>) = <<"code">>
        /\ Tail(<<"code">>) = <<>>
    BY SMT
  <1>2. Todos("register") = RegisterTodos
    BY DEF Todos
  <1>3. Onward("register", <<"free", "email", "password", "record", "retire", "code">>)
    BY <1>1, <1>2, SMT
  <1>4. Onward("register", <<"email", "password", "record", "retire", "code">>)
    BY <1>1, <1>2, SMT
  <1>5. Onward("register", <<"password", "record", "retire", "code">>)
    BY <1>1, <1>2, SMT
  <1>6. Onward("register", <<"record", "retire", "code">>)
    BY <1>1, <1>2, SMT
  <1>7. Onward("register", <<"retire", "code">>)
    BY <1>1, <1>2, SMT
  <1>8. Onward("register", <<"code">>)
    BY <1>1, <1>2, SMT
  <1>. HIDE DEF Onward
  <1>. QED  BY <1>3, <1>4, <1>5, <1>6, <1>7, <1>8

LEMMA AskFollows == \A op \in {"resend", "forgot"} : \A todo \in AskTodos : Onward(op, todo)
  <1>. USE DEF AskTodos, Onward, Leads, WalletOps
  <1>1. /\ Tail(<<"owner", "retire", "code">>) = <<"retire", "code">>
        /\ Tail(<<"retire", "code">>) = <<"code">>
        /\ Tail(<<"code">>) = <<>>
    BY SMT
  <1>2. Todos("resend") = AskTodos /\ Todos("forgot") = AskTodos
    BY DEF Todos
  <1>3. \A op \in {"resend", "forgot"} : Onward(op, <<"owner", "retire", "code">>)
    BY <1>1, <1>2, SMT
  <1>4. \A op \in {"resend", "forgot"} : Onward(op, <<"retire", "code">>)
    BY <1>1, <1>2, SMT
  <1>5. \A op \in {"resend", "forgot"} : Onward(op, <<"code">>)
    BY <1>1, <1>2, SMT
  <1>. HIDE DEF Onward
  <1>. QED  BY <1>3, <1>4, <1>5

LEMMA VerifyFollows == \A todo \in VerifyTodos : Onward("verify", todo)
  <1>. USE DEF VerifyTodos, Onward, Leads, WalletOps
  <1>1. /\ Tail(<<"consume", "verified">>) = <<"verified">>
        /\ Tail(<<"verified">>) = <<>>
    BY SMT
  <1>2. Todos("verify") = VerifyTodos
    BY DEF Todos
  <1>3. Onward("verify", <<"consume", "verified">>)
    BY <1>1, <1>2, SMT
  <1>4. Onward("verify", <<"verified">>)
    BY <1>1, <1>2, SMT
  <1>. HIDE DEF Onward
  <1>. QED  BY <1>3, <1>4

LEMMA VerifyCodeFollows == \A todo \in VerifyCodeTodos : Onward("verifyCode", todo)
  <1>. USE DEF VerifyCodeTodos, Onward, Leads, WalletOps
  <1>1. /\ Tail(<<"consume", "code">>) = <<"code">>
        /\ Tail(<<"code">>) = <<>>
    BY SMT
  <1>2. Todos("verifyCode") = VerifyCodeTodos
    BY DEF Todos
  <1>3. Onward("verifyCode", <<"consume", "code">>)
    BY <1>1, <1>2, SMT
  <1>4. Onward("verifyCode", <<"code">>)
    BY <1>1, <1>2, SMT
  <1>. HIDE DEF Onward
  <1>. QED  BY <1>3, <1>4

LEMMA ResetFollows == \A todo \in ResetTodos : Onward("reset", todo)
  <1>. USE DEF ResetTodos, Onward, Leads, WalletOps
  <1>1. /\ Tail(<<"consume", "password">>) = <<"password">>
        /\ Tail(<<"password">>) = <<>>
    BY SMT
  <1>2. Todos("reset") = ResetTodos
    BY DEF Todos
  <1>3. Onward("reset", <<"consume", "password">>)
    BY <1>1, <1>2, SMT
  <1>4. Onward("reset", <<"password">>)
    BY <1>1, <1>2, SMT
  <1>. HIDE DEF Onward
  <1>. QED  BY <1>3, <1>4

LEMMA GoogleFollows == \A todo \in GoogleTodos : Onward("google", todo)
  <1>. USE DEF GoogleTodos, Onward, Leads, WalletOps
  <1>1. /\ Tail(<<"byGoogle", "readRecord", "byEmail">>) = <<"readRecord", "byEmail">>
        /\ Tail(<<"readRecord", "byEmail">>) = <<"byEmail">>
        /\ Tail(<<"byEmail">>) = <<>>
        /\ Tail(<<"linkGoogle">>) = <<>>
        /\ Tail(<<"google", "email", "record">>) = <<"email", "record">>
        /\ Tail(<<"email", "record">>) = <<"record">>
        /\ Tail(<<"record">>) = <<>>
    BY SMT
  <1>2. Todos("google") = GoogleTodos
    BY DEF Todos
  <1>3. Onward("google", <<"byGoogle", "readRecord", "byEmail">>)
    BY <1>1, <1>2, SMT
  <1>4. Onward("google", <<"readRecord", "byEmail">>)
    BY <1>1, <1>2, SMT
  <1>5. Onward("google", <<"byEmail">>)
    BY <1>1, <1>2, SMT
  <1>6. Onward("google", <<"linkGoogle">>)
    BY <1>1, <1>2, SMT
  <1>7. Onward("google", <<"google", "email", "record">>)
    BY <1>1, <1>2, SMT
  <1>8. Onward("google", <<"email", "record">>)
    BY <1>1, <1>2, SMT
  <1>9. Onward("google", <<"record">>)
    BY <1>1, <1>2, SMT
  <1>. HIDE DEF Onward
  <1>. QED  BY <1>3, <1>4, <1>5, <1>6, <1>7, <1>8, <1>9

LEMMA WalletFollows == \A todo \in WalletTodos : Onward("wallet", todo)
  <1>. USE DEF WalletTodos, Onward, Leads, WalletOps
  <1>1. /\ Tail(<<"byWallet", "bySeed", "bindSeed", "completed", "code">>) =
             <<"bySeed", "bindSeed", "completed", "code">>
        /\ Tail(<<"bySeed", "bindSeed", "completed", "code">>) =
             <<"bindSeed", "completed", "code">>
        /\ Tail(<<"bindSeed", "completed", "code">>) = <<"completed", "code">>
        /\ Tail(<<"completed", "code">>) = <<"code">>
        /\ Tail(<<"code">>) = <<>>
    BY SMT
  <1>2. Todos("wallet") = WalletTodos
    BY DEF Todos
  <1>3. Onward("wallet", <<"byWallet", "bySeed", "bindSeed", "completed", "code">>)
    BY <1>1, <1>2, SMT
  <1>4. Onward("wallet", <<"bySeed", "bindSeed", "completed", "code">>)
    BY <1>1, <1>2, SMT
  <1>5. Onward("wallet", <<"bindSeed", "completed", "code">>)
    BY <1>1, <1>2, SMT
  <1>6. Onward("wallet", <<"completed", "code">>)
    BY <1>1, <1>2, SMT
  <1>7. Onward("wallet", <<"code">>)
    BY <1>1, <1>2, SMT
  <1>. HIDE DEF Onward
  <1>. QED  BY <1>3, <1>4, <1>5, <1>6, <1>7

LEMMA CompleteFollows == \A todo \in CompleteTodos : Onward("complete", todo)
  <1>. USE DEF CompleteTodos, Onward, Leads, WalletOps
  <1>1. /\ Tail(<<"consume", "byWallet", "bySeed", "bindSeed", "join">>) =
             <<"byWallet", "bySeed", "bindSeed", "join">>
        /\ Tail(<<"byWallet", "bySeed", "bindSeed", "join">>) =
             <<"bySeed", "bindSeed", "join">>
        /\ Tail(<<"bySeed", "bindSeed", "join">>) = <<"bindSeed", "join">>
        /\ Tail(<<"bindSeed", "join">>) = <<"join">>
        /\ Tail(<<"join">>) = <<>>
        /\ Tail(<<"bind", "walletId">>) = <<"walletId">>
        /\ Tail(<<"walletId">>) = <<>>
        /\ Tail(<<"create", "email", "password", "record", "walletId">>) =
             <<"email", "password", "record", "walletId">>
        /\ Tail(<<"email", "password", "record", "walletId">>) =
             <<"password", "record", "walletId">>
        /\ Tail(<<"password", "record", "walletId">>) = <<"record", "walletId">>
        /\ Tail(<<"record", "walletId">>) = <<"walletId">>
        /\ Tail(<<"setEmail", "email", "password", "record", "walletId">>) =
             <<"email", "password", "record", "walletId">>
    BY SMT
  <1>2. Todos("complete") = CompleteTodos
    BY DEF Todos
  <1>3. Onward("complete", <<"consume", "byWallet", "bySeed", "bindSeed", "join">>)
    BY <1>1, <1>2, SMT
  <1>4. Onward("complete", <<"byWallet", "bySeed", "bindSeed", "join">>)
    BY <1>1, <1>2, SMT
  <1>5. Onward("complete", <<"bySeed", "bindSeed", "join">>)
    BY <1>1, <1>2, SMT
  <1>6. Onward("complete", <<"bindSeed", "join">>)
    BY <1>1, <1>2, SMT
  <1>7. Onward("complete", <<"join">>)
    BY <1>1, <1>2, SMT
  <1>8. Onward("complete", <<"bind", "walletId">>)
    BY <1>1, <1>2, SMT
  <1>9. Onward("complete", <<"walletId">>)
    BY <1>1, <1>2, SMT
  <1>10. Onward("complete", <<"create", "email", "password", "record", "walletId">>)
    BY <1>1, <1>2, SMT
  <1>11. Onward("complete", <<"email", "password", "record", "walletId">>)
    BY <1>1, <1>2, SMT
  <1>12. Onward("complete", <<"password", "record", "walletId">>)
    BY <1>1, <1>2, SMT
  <1>13. Onward("complete", <<"record", "walletId">>)
    BY <1>1, <1>2, SMT
  <1>14. Onward("complete", <<"setEmail", "email", "password", "record", "walletId">>)
    BY <1>1, <1>2, SMT
  <1>. HIDE DEF Onward
  <1>. QED  BY <1>3, <1>4, <1>5, <1>6, <1>7, <1>8, <1>9, <1>10, <1>11, <1>12, <1>13, <1>14

LEMMA TodosFollow ==
  ASSUME NEW op \in MailOps \cup WalletOps, NEW todo \in Todos(op)
  PROVE  Onward(op, todo)
  <1>1. CASE op = "register"
    BY <1>1, RegisterFollows DEF Todos
  <1>2. CASE op \in {"resend", "forgot"}
    BY <1>2, AskFollows DEF Todos
  <1>3. CASE op = "verify"
    BY <1>3, VerifyFollows DEF Todos
  <1>4. CASE op = "verifyCode"
    BY <1>4, VerifyCodeFollows DEF Todos
  <1>5. CASE op = "reset"
    BY <1>5, ResetFollows DEF Todos
  <1>6. CASE op = "google"
    BY <1>6, GoogleFollows DEF Todos
  <1>7. CASE op = "wallet"
    BY <1>7, WalletFollows DEF Todos
  <1>8. CASE op = "complete"
    BY <1>8, CompleteFollows DEF Todos
  <1>. QED  BY <1>1, <1>2, <1>3, <1>4, <1>5, <1>6, <1>7, <1>8 DEF MailOps, WalletOps

-----------------------------------------------------------------------------
(* Accounts: the invariant *)

AccountIds == {NoOne} \cup Rows

Lists == {<<>>} \cup RegisterTodos \cup AskTodos \cup VerifyTodos \cup VerifyCodeTodos
         \cup ResetTodos \cup GoogleTodos \cup WalletTodos \cup CompleteTodos

VisitRows ==
  [op : MailOps \cup WalletOps \cup {"none"}, todo : Lists, mail : Emails \cup {"none"},
   wal : Wallets \cup {NoWallet}, who : AccountIds, bound : AccountIds, note : BOOLEAN]

CodeRows ==
  [purpose : {"none", "signup", "reset", "grant", "onboarding"},
   about : Emails \cup Wallets \cup {"none"}, user : AccountIds, open : BOOLEAN,
   fresh : BOOLEAN, tries : 0..MaxTries, uses : {0, 1}]

\* What holds of a request when the statement s is next: it knows an account
\* before it names one, and the account of its address before it writes the
\* address's record or a code.
Ready(op, s, mail, who, own) ==
  /\ \/ s \in {"retire", "record"}
     \/ s = "code" /\ op # "wallet"
     \/ s = "password" /\ op # "reset"
     => who # NoOne /\ own[mail] = who
  /\ s \in {"email", "password", "setEmail", "google"} => who # NoOne

Sound(v, n, own) ==
  /\ v.op \in MailOps => v.mail \in Emails
  /\ v.op \in WalletOps => v.wal \in Wallets
  /\ v.who <= n /\ v.bound <= n
  /\ \/ v = NoVisit
     \/ /\ v.op \in MailOps \cup WalletOps /\ v.todo \in Todos(v.op)
        /\ Ready(v.op, Head(v.todo), v.mail, v.who, own)

\* A code sent to an address belongs to its account, and works once.
Addressed(c, n, own) ==
  /\ c.user <= n
  /\ c.purpose \in {"signup", "reset", "grant"} =>
       c.about \in Emails /\ c.user # NoOne /\ c.user = own[c.about]
  /\ c.open => c.uses = 0

VisitsOK ==
  /\ visit \in [Visits -> VisitRows]
  /\ \A r \in Visits : Sound(visit[r], accounts, owner)

CodesOK ==
  /\ code \in [Codes -> CodeRows]
  /\ \A c \in Codes : Addressed(code[c], accounts, owner)

RecordsOK ==
  /\ record \in [Emails -> [user : AccountIds, verified : BOOLEAN]]
  /\ \A e \in Emails : record[e].user \in {NoOne, owner[e]}

\* Only accounts that exist are named.
AccountRowsOK ==
  /\ accounts \in 0..MaxAccount
  /\ owner \in [Emails -> AccountIds] /\ \A e \in Emails : owner[e] <= accounts
  /\ google \in [Emails -> AccountIds] /\ walletId \in [Wallets -> AccountIds]
  /\ wallet \in [Rows -> Wallets \cup {NoWallet}] /\ seed \in [Rows -> Wallets \cup {NoWallet}]
  /\ \A u \in Rows : wallet[u] # NoWallet \/ seed[u] # NoWallet => u <= accounts
  /\ realMail \subseteq 1..accounts /\ password \subseteq 1..accounts
  /\ nonce \subseteq Wallets /\ breaks \in 0..MaxBreaks

AccountsInv == AccountRowsOK /\ RecordsOK /\ CodesOK /\ VisitsOK

LEMMA AccountNumbers ==
  /\ MaxAccount \in Nat \ {0} /\ MaxCode \in Nat \ {0} /\ MaxTries \in Nat \ {0}
  /\ MaxBreaks \in Nat /\ NoWallet \notin Wallets
  /\ NoOne = 0 /\ Rows = 1..MaxAccount /\ Codes = 1..MaxCode /\ AccountIds = 0..MaxAccount
  BY AccountsAssumption DEF NoOne, Rows, Codes, AccountIds

LEMMA TodosAreLists ==
  ASSUME NEW op \in MailOps \cup WalletOps
  PROVE  Todos(op) \subseteq Lists
  BY DEF Todos, Lists, MailOps, WalletOps

\* Accounts are added, and an address keeps its account.
RecordGrown ==
  /\ accounts \in Nat /\ accounts' \in Nat /\ accounts <= accounts'
  /\ \A e \in Emails : owner[e] # NoOne => owner'[e] = owner[e]

LEMMA SoundStays ==
  ASSUME RecordGrown, NEW v \in VisitRows, Sound(v, accounts, owner)
  PROVE  Sound(v, accounts', owner')
  <1>1. v.who \in Nat /\ v.bound \in Nat
    BY AccountNumbers DEF VisitRows
  <1>2. v.who <= accounts' /\ v.bound <= accounts'
    BY <1>1 DEF RecordGrown, Sound
  <1>3. ASSUME v.op \in MailOps \cup WalletOps, v.todo \in Todos(v.op),
               Ready(v.op, Head(v.todo), v.mail, v.who, owner)
        PROVE  Ready(v.op, Head(v.todo), v.mail, v.who, owner')
    <2>1. Onward(v.op, v.todo)
      BY <1>3, TodosFollow
    <2>2. \/ Head(v.todo) \in {"retire", "record"}
          \/ Head(v.todo) = "code" /\ v.op # "wallet"
          \/ Head(v.todo) = "password" /\ v.op # "reset"
          => v.mail \in Emails
      BY <2>1, SMT DEF Onward, Leads, Sound, MailOps
    <2>. QED  BY <1>3, <2>2 DEF Ready, RecordGrown
  <1>. QED  BY <1>2, <1>3 DEF Sound

LEMMA VisitsStay ==
  ASSUME VisitsOK, RecordGrown, visit' = visit
  PROVE  VisitsOK'
  BY SoundStays DEF VisitsOK

LEMMA CodesStay ==
  ASSUME CodesOK, RecordGrown, code' = code
  PROVE  CodesOK'
  <1>1. \A c \in Codes : code[c] \in CodeRows /\ code[c].user \in Nat
    BY AccountNumbers DEF CodesOK, CodeRows
  <1>2. \A c \in Codes : Addressed(code[c], accounts', owner')
    BY <1>1 DEF CodesOK, Addressed, RecordGrown
  <1>. QED  BY <1>2 DEF CodesOK

LEMMA RecordsStay ==
  ASSUME RecordsOK, RecordGrown, record' = record
  PROVE  RecordsOK'
  BY DEF RecordsOK, RecordGrown

\* What a request is after a statement.
Turned(v, todo, who, note) ==
  IF todo = <<>> THEN NoVisit ELSE [v EXCEPT !.todo = todo, !.who = who, !.note = note]

\* The request may go on with todo, for who.
MayGoOn(v, todo, who, n, own) ==
  \/ todo = <<>>
  \/ todo \in Todos(v.op) /\ who <= n /\ Ready(v.op, Head(todo), v.mail, who, own)

LEMMA NoVisitIsSound ==
  ASSUME NEW n \in Nat, NEW own
  PROVE  NoVisit \in VisitRows /\ Sound(NoVisit, n, own)
  BY AccountNumbers DEF NoVisit, VisitRows, Sound, Lists, MailOps, WalletOps

LEMMA TurnedIsSound ==
  ASSUME NEW v \in VisitRows, v # NoVisit, NEW todo, NEW who \in AccountIds, NEW note \in BOOLEAN,
         NEW n \in Nat, NEW own, Sound(v, accounts, owner), accounts <= n,
         accounts \in Nat, MayGoOn(v, todo, who, n, own)
  PROVE  Turned(v, todo, who, note) \in VisitRows /\ Sound(Turned(v, todo, who, note), n, own)
  <1>1. CASE todo = <<>>
    BY <1>1, NoVisitIsSound DEF Turned
  <1>2. CASE todo # <<>>
    <2>1. v.op \in MailOps \cup WalletOps /\ v.bound <= n /\ v.bound \in Nat
      BY AccountNumbers DEF Sound, VisitRows
    <2>2. todo \in Lists
      BY <1>2, <2>1, TodosAreLists DEF MayGoOn
    <2>3. PICK w : w = [v EXCEPT !.todo = todo, !.who = who, !.note = note]
      OBVIOUS
    <2>4. /\ w \in VisitRows /\ w.op = v.op /\ w.todo = todo /\ w.mail = v.mail /\ w.wal = v.wal
          /\ w.who = who /\ w.bound = v.bound
      BY <2>2, <2>3 DEF VisitRows
    <2>5. Sound(w, n, own)
      BY <1>2, <2>1, <2>4 DEF Sound, MayGoOn
    <2>. QED  BY <1>2, <2>3, <2>4, <2>5 DEF Turned
  <1>. QED  BY <1>1, <1>2

LEMMA TurnKeeps ==
  ASSUME VisitsOK, RecordGrown, NEW r \in Visits, visit[r] # NoVisit, NEW todo, NEW who \in AccountIds,
         NEW note \in BOOLEAN, Turn(r, todo, who, note),
         MayGoOn(visit[r], todo, who, accounts', owner')
  PROVE  VisitsOK'
  <1>1. visit[r] \in VisitRows /\ Sound(visit[r], accounts, owner)
    BY DEF VisitsOK
  <1>2. visit' = [visit EXCEPT ![r] = Turned(visit[r], todo, who, note)]
    BY DEF Turn, Turned
  <1>3. /\ Turned(visit[r], todo, who, note) \in VisitRows
        /\ Sound(Turned(visit[r], todo, who, note), accounts', owner')
    BY <1>1, TurnedIsSound DEF RecordGrown
  <1>4. \A q \in Visits : Sound(visit[q], accounts', owner')
    BY SoundStays DEF VisitsOK
  <1>. QED  BY <1>2, <1>3, <1>4 DEF VisitsOK

LEMMA EndKeeps ==
  ASSUME VisitsOK, RecordGrown, NEW r \in Visits, End(r)
  PROVE  VisitsOK'
  <1>1. \A q \in Visits : Sound(visit[q], accounts', owner')
    BY SoundStays DEF VisitsOK
  <1>2. NoVisit \in VisitRows /\ Sound(NoVisit, accounts', owner')
    BY NoVisitIsSound DEF RecordGrown
  <1>. QED  BY <1>1, <1>2 DEF VisitsOK, End

\* What a busy request may do next.
LEMMA BusyFollows ==
  ASSUME VisitsOK, NEW r \in Visits, NEW s, Busy(r, s)
  PROVE  /\ visit[r] \in VisitRows /\ visit[r] # NoVisit
         /\ visit[r].op \in MailOps \cup WalletOps
         /\ Head(visit[r].todo) = s /\ Onward(visit[r].op, visit[r].todo)
         /\ visit[r].op \in MailOps => visit[r].mail \in Emails
         /\ visit[r].op \in WalletOps => visit[r].wal \in Wallets
         /\ visit[r].who \in AccountIds /\ visit[r].who <= accounts
         /\ Ready(visit[r].op, s, visit[r].mail, visit[r].who, owner)
  <1>1. visit[r] \in VisitRows /\ Sound(visit[r], accounts, owner)
    BY DEF VisitsOK
  <1>2. visit[r] # NoVisit
    BY DEF Busy, NoVisit
  <1>. QED  BY <1>1, <1>2, TodosFollow DEF Busy, Sound, VisitRows

\* Which requests come to a statement, and what they know by then.
LEMMA StatementsOfRequests ==
  ASSUME NEW op, NEW todo, Onward(op, todo)
  PROVE  /\ Head(todo) \in {"free", "email", "record", "owner", "byEmail", "linkGoogle",
                            "google"} => op \in MailOps
         /\ Head(todo) \in {"byEmail", "linkGoogle", "google"} => op = "google"
         /\ Head(todo) = "walletId" => op \in WalletOps
         /\ Head(todo) = "consume" => op \in {"verify", "verifyCode", "reset", "complete"}
  BY DEF Onward, Leads, MailOps, WalletOps

LEMMA BusyKnows ==
  ASSUME VisitsOK, NEW r \in Visits, NEW s, Busy(r, s)
  PROVE  /\ Sound(visit[r], accounts, owner) /\ visit[r].note \in BOOLEAN
         /\ s \in {"free", "email", "record", "owner", "byEmail", "linkGoogle", "google"} =>
              visit[r].mail \in Emails
         /\ s \in {"byEmail", "linkGoogle", "google"} => visit[r].op = "google"
         /\ s = "walletId" => visit[r].wal \in Wallets
         /\ s = "consume" => visit[r].op \in {"verify", "verifyCode", "reset", "complete"}
         /\ s \in {"email", "password"} => visit[r].who # NoOne
         /\ s = "record" => owner[visit[r].mail] = visit[r].who
  <1>1. visit[r] \in VisitRows /\ Sound(visit[r], accounts, owner)
    BY DEF VisitsOK
  <1>2. Onward(visit[r].op, visit[r].todo) /\ Head(visit[r].todo) = s
    BY BusyFollows
  <1>3. Ready(visit[r].op, s, visit[r].mail, visit[r].who, owner)
    BY BusyFollows
  <1>4. /\ visit[r].op \in MailOps => visit[r].mail \in Emails
        /\ visit[r].op \in WalletOps => visit[r].wal \in Wallets
    BY <1>1 DEF Sound
  <1>5. visit[r].note \in BOOLEAN
    BY <1>1 DEF VisitRows
  <1>6. /\ s \in {"email", "password"} => visit[r].who # NoOne
        /\ s = "record" => visit[r].who # NoOne /\ owner[visit[r].mail] = visit[r].who
    BY <1>3 DEF Ready
  <1>. QED  BY <1>1, <1>2, <1>4, <1>5, <1>6, StatementsOfRequests

-----------------------------------------------------------------------------
(* Accounts: every statement keeps the invariant *)

\* Nothing is linked and nobody added.
LEMMA Unmoved ==
  ASSUME AccountRowsOK, accounts' = accounts, owner' = owner
  PROVE  RecordGrown
  BY AccountNumbers DEF AccountRowsOK, RecordGrown

LEMMA FreeKeeps ==
  ASSUME AccountsInv, NEW r \in Visits, Free(r)
  PROVE  AccountsInv'
  <1>. DEFINE v == visit[r]
  <1>0. Busy(r, "free") /\ VisitsOK
    BY DEF AccountsInv, Free
  <1>1. /\ v # NoVisit /\ Onward(v.op, v.todo) /\ v.mail \in Emails
        /\ Head(v.todo) = "free"
    BY <1>0, BusyFollows, BusyKnows
  <1>2. CASE End(r) /\ UNCHANGED users
    BY <1>2, Unmoved, EndKeeps, CodesStay, RecordsStay
       DEF AccountsInv, AccountRowsOK, Free, users, identities
  <1>3. CASE /\ owner[v.mail] = NoOne /\ accounts < MaxAccount
             /\ accounts' = accounts + 1 /\ realMail' = realMail \cup {accounts + 1}
             /\ Turn(r, Tail(v.todo), accounts + 1, FALSE)
             /\ UNCHANGED <<wallet, seed>>
    <2>1. RecordGrown /\ accounts' \in AccountIds /\ accounts' # NoOne /\ owner' = owner
      BY <1>3, AccountNumbers DEF AccountsInv, AccountRowsOK, RecordGrown, Free, identities
    <2>2. MayGoOn(v, Tail(v.todo), accounts', accounts', owner')
      BY <1>1, <2>1, AccountNumbers DEF Onward, Leads, MayGoOn, Ready, RecordGrown, NoOne
    <2>3. VisitsOK'
      BY <1>1, <1>3, <2>1, <2>2, TurnKeeps DEF AccountsInv
    <2>4. CodesOK' /\ RecordsOK'
      BY <2>1, CodesStay, RecordsStay DEF AccountsInv, Free
    <2>5. AccountRowsOK'
      BY <1>3, <2>1, AccountNumbers DEF AccountsInv, AccountRowsOK, Free, identities
    <2>. QED  BY <2>3, <2>4, <2>5 DEF AccountsInv
  <1>. QED  BY <1>2, <1>3 DEF Free

LEMMA LinkEmailKeeps ==
  ASSUME AccountsInv, NEW r \in Visits, LinkEmail(r)
  PROVE  AccountsInv'
  <1>. DEFINE v == visit[r]
  <1>0. Busy(r, "email") /\ VisitsOK
    BY DEF AccountsInv, LinkEmail
  <1>1. /\ v # NoVisit /\ Onward(v.op, v.todo) /\ v.mail \in Emails
        /\ Head(v.todo) = "email" /\ v.who \in AccountIds /\ v.who <= accounts /\ v.who # NoOne
        /\ v.note \in BOOLEAN
    BY <1>0, BusyFollows, BusyKnows
  <1>2. CASE End(r) /\ UNCHANGED owner
    BY <1>2, Unmoved, EndKeeps, CodesStay, RecordsStay
       DEF AccountsInv, AccountRowsOK, LinkEmail, users, identities
  <1>3. CASE /\ MayLink(owner[v.mail], v.who)
             /\ owner' = [owner EXCEPT ![v.mail] = v.who] /\ Go(r)
    <2>1. RecordGrown /\ accounts' = accounts /\ owner'[v.mail] = v.who
      BY <1>1, <1>3, AccountNumbers
         DEF AccountsInv, AccountRowsOK, RecordGrown, LinkEmail, users, MayLink
    <2>2. MayGoOn(v, Tail(v.todo), v.who, accounts', owner')
      BY <1>1, <2>1 DEF Onward, Leads, MayGoOn, Ready
    <2>3. VisitsOK'
      BY <1>1, <1>3, <2>1, <2>2, TurnKeeps DEF AccountsInv, Go
    <2>4. CodesOK' /\ RecordsOK'
      BY <2>1, CodesStay, RecordsStay DEF AccountsInv, LinkEmail
    <2>5. AccountRowsOK'
      BY <1>1, <1>3, <2>1, AccountNumbers DEF AccountsInv, AccountRowsOK, LinkEmail, users
    <2>. QED  BY <2>3, <2>4, <2>5 DEF AccountsInv
  <1>. QED  BY <1>2, <1>3 DEF LinkEmail

LEMMA LinkWalletKeeps ==
  ASSUME AccountsInv, NEW r \in Visits, LinkWallet(r)
  PROVE  AccountsInv'
  <1>. DEFINE v == visit[r]
  <1>0. Busy(r, "walletId") /\ VisitsOK
    BY DEF AccountsInv, LinkWallet
  <1>1. /\ v # NoVisit /\ Onward(v.op, v.todo) /\ v.wal \in Wallets
        /\ Head(v.todo) = "walletId" /\ v.who \in AccountIds /\ v.who <= accounts
        /\ v.note \in BOOLEAN
    BY <1>0, BusyFollows, BusyKnows
  <1>2. RecordGrown /\ CodesOK' /\ RecordsOK' /\ accounts' = accounts
    BY Unmoved, CodesStay, RecordsStay DEF AccountsInv, LinkWallet, users
  <1>3. AccountRowsOK'
    BY <1>1 DEF AccountsInv, AccountRowsOK, LinkWallet, users
  <1>4. CASE End(r)
    BY <1>2, <1>3, <1>4, EndKeeps DEF AccountsInv
  <1>5. CASE Go(r)
    <2>1. MayGoOn(v, Tail(v.todo), v.who, accounts', owner')
      BY <1>1, <1>2 DEF Onward, Leads, MayGoOn, Ready
    <2>. QED  BY <1>1, <1>2, <1>3, <1>5, <2>1, TurnKeeps DEF AccountsInv, Go
  <1>. QED  BY <1>4, <1>5 DEF LinkWallet

LEMMA SetPasswordKeeps ==
  ASSUME AccountsInv, NEW r \in Visits, SetPassword(r)
  PROVE  AccountsInv'
  <1>. DEFINE v == visit[r]
  <1>0. Busy(r, "password") /\ VisitsOK
    BY DEF AccountsInv, SetPassword
  <1>1. /\ v # NoVisit /\ Onward(v.op, v.todo)
        /\ Head(v.todo) = "password" /\ v.who \in AccountIds /\ v.who <= accounts /\ v.who # NoOne
        /\ v.note \in BOOLEAN /\ Ready(v.op, "password", v.mail, v.who, owner)
    BY <1>0, BusyFollows, BusyKnows
  <1>2. RecordGrown /\ CodesOK' /\ RecordsOK' /\ owner' = owner /\ accounts' = accounts
    BY Unmoved, CodesStay, RecordsStay DEF AccountsInv, SetPassword, users, identities
  <1>3. AccountRowsOK'
    <2>1. v.who \in 1..accounts
      BY <1>1, AccountNumbers DEF AccountsInv, AccountRowsOK
    <2>2. password' \subseteq 1..accounts
      BY <2>1 DEF AccountsInv, AccountRowsOK, SetPassword
    <2>. QED  BY <1>2, <2>2 DEF AccountsInv, AccountRowsOK, SetPassword, users, identities
  <1>4. MayGoOn(v, Tail(v.todo), v.who, accounts', owner')
    BY <1>1, <1>2 DEF Onward, Leads, MayGoOn, Ready
  <1>5. VisitsOK'
    BY <1>1, <1>2, <1>4, TurnKeeps DEF AccountsInv, Go, SetPassword
  <1>. QED  BY <1>2, <1>3, <1>5 DEF AccountsInv

LEMMA RecordAccountEmailKeeps ==
  ASSUME AccountsInv, NEW r \in Visits, RecordAccountEmail(r)
  PROVE  AccountsInv'
  <1>. DEFINE v == visit[r]
  <1>0. Busy(r, "record") /\ VisitsOK
    BY DEF AccountsInv, RecordAccountEmail
  <1>1. /\ v # NoVisit /\ Onward(v.op, v.todo) /\ v.mail \in Emails
        /\ Head(v.todo) = "record" /\ v.who \in AccountIds /\ v.who <= accounts
        /\ owner[v.mail] = v.who
        /\ v.note \in BOOLEAN /\ Ready(v.op, "record", v.mail, v.who, owner)
    BY <1>0, BusyFollows, BusyKnows
  <1>2. RecordGrown /\ CodesOK' /\ owner' = owner /\ accounts' = accounts
    BY Unmoved, CodesStay DEF AccountsInv, RecordAccountEmail, users, identities
  <1>3. AccountRowsOK'
    BY DEF AccountsInv, AccountRowsOK, RecordAccountEmail, users, identities
  <1>4. RecordsOK'
    BY <1>1, <1>2 DEF AccountsInv, RecordsOK, RecordAccountEmail
  <1>5. MayGoOn(v, Tail(v.todo), v.who, accounts', owner')
    BY <1>1, <1>2 DEF Onward, Leads, MayGoOn, Ready
  <1>6. VisitsOK'
    BY <1>1, <1>2, <1>5, TurnKeeps DEF AccountsInv, Go, RecordAccountEmail
  <1>. QED  BY <1>2, <1>3, <1>4, <1>6 DEF AccountsInv

LEMMA FindOwnerKeeps ==
  ASSUME AccountsInv, NEW r \in Visits, FindOwner(r)
  PROVE  AccountsInv'
  <1>. DEFINE v == visit[r]
             u == owner[v.mail]
  <1>0. Busy(r, "owner") /\ VisitsOK
    BY DEF AccountsInv, FindOwner
  <1>1. /\ v # NoVisit /\ Onward(v.op, v.todo) /\ v.mail \in Emails
        /\ Head(v.todo) = "owner"
    BY <1>0, BusyFollows, BusyKnows
  <1>2. RecordGrown /\ CodesOK' /\ RecordsOK' /\ owner' = owner /\ accounts' = accounts
    BY Unmoved, CodesStay, RecordsStay DEF AccountsInv, FindOwner, users, identities
  <1>3. AccountRowsOK'
    BY DEF AccountsInv, AccountRowsOK, FindOwner, users, identities
  <1>4. CASE End(r)
    BY <1>2, <1>3, <1>4, EndKeeps DEF AccountsInv
  <1>5. CASE u # NoOne /\ Turn(r, Tail(v.todo), u, FALSE)
    <2>1. u \in AccountIds /\ u <= accounts
      BY <1>1 DEF AccountsInv, AccountRowsOK
    <2>2. MayGoOn(v, Tail(v.todo), u, accounts', owner')
      BY <1>1, <1>2, <1>5, <2>1 DEF Onward, Leads, MayGoOn, Ready
    <2>. QED  BY <1>1, <1>2, <1>3, <1>5, <2>1, <2>2, TurnKeeps DEF AccountsInv
  <1>. QED  BY <1>4, <1>5 DEF FindOwner

LEMMA RetireKeeps ==
  ASSUME AccountsInv, NEW r \in Visits, Retire(r)
  PROVE  AccountsInv'
  <1>. DEFINE v == visit[r]
  <1>0. Busy(r, "retire") /\ VisitsOK
    BY DEF AccountsInv, Retire
  <1>1. /\ v # NoVisit /\ Onward(v.op, v.todo)
        /\ Head(v.todo) = "retire" /\ v.who \in AccountIds /\ v.who <= accounts
        /\ v.note \in BOOLEAN /\ Ready(v.op, "retire", v.mail, v.who, owner)
    BY <1>0, BusyFollows, BusyKnows
  <1>2. RecordGrown /\ RecordsOK' /\ owner' = owner /\ accounts' = accounts
    BY Unmoved, RecordsStay DEF AccountsInv, Retire, users, identities
  <1>3. AccountRowsOK'
    BY DEF AccountsInv, AccountRowsOK, Retire, users, identities
  <1>4. \A c \in Codes : LET closed == [code[c] EXCEPT !.open = FALSE]
                         IN  closed \in CodeRows /\ Addressed(closed, accounts, owner)
    BY ZenonT(40) DEF AccountsInv, CodesOK, CodeRows, Addressed
  <1>5. CodesOK'
    BY <1>2, <1>4 DEF AccountsInv, CodesOK, Retire
  <1>6. MayGoOn(v, Tail(v.todo), v.who, accounts', owner')
    BY <1>1, <1>2 DEF Onward, Leads, MayGoOn, Ready
  <1>7. VisitsOK'
    BY <1>1, <1>2, <1>6, TurnKeeps DEF AccountsInv, Go, Retire
  <1>. QED  BY <1>2, <1>3, <1>5, <1>7 DEF AccountsInv

\* A new code, and the columns of it.
NewCode(purpose, about, user) ==
  [purpose |-> purpose, about |-> about, user |-> user, open |-> TRUE, fresh |-> TRUE,
   tries |-> 0, uses |-> 0]

LEMMA NewCodeRows ==
  ASSUME NEW purpose \in {"signup", "reset", "grant", "onboarding"},
         NEW about \in Emails \cup Wallets, NEW user \in AccountIds
  PROVE  /\ NewCode(purpose, about, user) \in CodeRows
         /\ NewCode(purpose, about, user).purpose = purpose
         /\ NewCode(purpose, about, user).about = about
         /\ NewCode(purpose, about, user).user = user
         /\ NewCode(purpose, about, user).uses = 0
  BY AccountNumbers DEF NewCode, CodeRows

\* A code is made for the account of the address it is sent to.
LEMMA MadeIsAddressed ==
  ASSUME NEW v \in VisitRows, NEW n \in Nat, NEW own, v.who <= n,
         v.op \in {"register", "resend", "forgot", "verifyCode", "wallet"},
         v.op \in MailOps => v.mail \in Emails, v.op \in WalletOps => v.wal \in Wallets,
         Ready(v.op, "code", v.mail, v.who, own), NEW c,
         c = [NoCode EXCEPT !.purpose = Makes(v.op), !.user = v.who,
                            !.about = IF v.op = "wallet" THEN v.wal ELSE v.mail,
                            !.open = TRUE, !.fresh = TRUE]
  PROVE  c \in CodeRows /\ Addressed(c, n, own)
  <1>1. PICK purpose : purpose = Makes(v.op)
    OBVIOUS
  <1>2. PICK about : about = IF v.op = "wallet" THEN v.wal ELSE v.mail
    OBVIOUS
  <1>3. /\ purpose \in {"signup", "reset", "grant", "onboarding"}
        /\ purpose = "onboarding" <=> v.op = "wallet"
    BY <1>1 DEF Makes
  <1>4. about \in Emails \cup Wallets /\ v.who \in AccountIds
        /\ (v.op # "wallet" => about \in Emails /\ v.who # NoOne /\ own[about] = v.who)
    BY <1>2 DEF MailOps, WalletOps, VisitRows, Ready
  <1>5. c = NewCode(purpose, about, v.who)
    BY <1>1, <1>2 DEF NoCode, NewCode
  <1>6. PICK who \in AccountIds : who = v.who
    BY <1>4
  <1>7. /\ c \in CodeRows /\ c.purpose = purpose /\ c.about = about /\ c.user = who
        /\ c.uses = 0
    <2>1. purpose \in {"signup", "reset", "grant", "onboarding"} /\ about \in Emails \cup Wallets
      BY <1>3, <1>4
    <2>2. LET d == NewCode(purpose, about, who) IN
          d \in CodeRows /\ d.purpose = purpose /\ d.about = about /\ d.user = who /\ d.uses = 0
      BY <2>1, NewCodeRows
    <2>. QED  BY <1>5, <1>6, <2>2
  <1>. QED  BY <1>3, <1>4, <1>6, <1>7 DEF Addressed

LEMMA MakeCodeKeeps ==
  ASSUME AccountsInv, NEW r \in Visits, MakeCode(r)
  PROVE  AccountsInv'
  <1>. DEFINE v == visit[r]
  <1>0. Busy(r, "code") /\ VisitsOK
    BY DEF AccountsInv, MakeCode
  <1>1. /\ v \in VisitRows /\ v # NoVisit /\ Onward(v.op, v.todo)
        /\ Head(v.todo) = "code" /\ v.who \in AccountIds /\ v.who <= accounts
        /\ v.note \in BOOLEAN /\ Ready(v.op, "code", v.mail, v.who, owner)
        /\ v.op \in MailOps => v.mail \in Emails
        /\ v.op \in WalletOps => v.wal \in Wallets
    BY <1>0, BusyFollows, BusyKnows
  <1>2. RecordGrown /\ RecordsOK' /\ owner' = owner /\ accounts' = accounts
    BY Unmoved, RecordsStay DEF AccountsInv, MakeCode, users, identities
  <1>3. AccountRowsOK'
    BY DEF AccountsInv, AccountRowsOK, MakeCode, users, identities
  <1>4. PICK c \in Codes :
          code' = [code EXCEPT ![c] =
            [NoCode EXCEPT !.purpose = Makes(v.op), !.user = v.who,
                           !.about = IF v.op = "wallet" THEN v.wal ELSE v.mail,
                           !.open = TRUE, !.fresh = TRUE]]
    BY DEF MakeCode
  <1>5. v.op \in {"register", "resend", "forgot", "verifyCode", "wallet"}
    BY <1>1 DEF Onward, Leads
  <1>6. PICK new : new = [NoCode EXCEPT !.purpose = Makes(v.op), !.user = v.who,
                           !.about = IF v.op = "wallet" THEN v.wal ELSE v.mail,
                           !.open = TRUE, !.fresh = TRUE]
    OBVIOUS
  <1>7. new \in CodeRows /\ Addressed(new, accounts, owner)
    <2>1. accounts \in Nat
      BY DEF AccountsInv, AccountRowsOK
    <2>. QED  BY <1>1, <1>5, <1>6, <2>1, MadeIsAddressed
  <1>8. CodesOK'
    BY <1>2, <1>4, <1>6, <1>7 DEF AccountsInv, CodesOK
  <1>9. MayGoOn(v, Tail(v.todo), v.who, accounts', owner')
    BY <1>1, <1>2 DEF Onward, Leads, MayGoOn, Ready
  <1>10. VisitsOK'
    BY <1>1, <1>2, <1>9, TurnKeeps DEF AccountsInv, Go, MakeCode
  <1>. QED  BY <1>2, <1>3, <1>8, <1>10 DEF AccountsInv

\* A code may be closed or expire, a try counted, or the code spent.
LEMMA CodeRowsChange ==
  ASSUME NEW c \in CodeRows, NEW n, NEW own, Addressed(c, n, own),
         NEW tries \in 0..MaxTries, NEW uses \in {0, 1}
  PROVE  /\ LET d == [c EXCEPT !.open = FALSE] IN d \in CodeRows /\ Addressed(d, n, own)
         /\ LET d == [c EXCEPT !.fresh = FALSE] IN d \in CodeRows /\ Addressed(d, n, own)
         /\ LET d == [c EXCEPT !.tries = tries] IN d \in CodeRows /\ Addressed(d, n, own)
         /\ LET d == [c EXCEPT !.open = FALSE, !.tries = tries, !.uses = uses]
            IN  d \in CodeRows /\ Addressed(d, n, own)
  BY DEF CodeRows, Addressed

LEMMA Tries ==
  ASSUME NEW c \in CodeRows, NEW n, NEW own, Addressed(c, n, own), c.tries < MaxTries
  PROVE  c.tries + 1 \in 0..MaxTries /\ (c.open => c.uses + 1 \in {0, 1})
  BY AccountNumbers DEF CodeRows, Addressed

LEMMA CodesChange ==
  ASSUME CodesOK, UNCHANGED <<owner, accounts>>, NEW c \in Codes, NEW d \in CodeRows,
         Addressed(d, accounts, owner), code' = [code EXCEPT ![c] = d]
  PROVE  CodesOK'
  BY DEF CodesOK

LEMMA CodeExpiresKeeps ==
  ASSUME AccountsInv, NEW c \in Codes, CodeExpires(c)
  PROVE  AccountsInv'
  <1>1. RecordGrown /\ RecordsOK' /\ VisitsOK' /\ UNCHANGED <<owner, accounts>>
    BY Unmoved, RecordsStay, VisitsStay DEF AccountsInv, CodeExpires, users, identities
  <1>2. AccountRowsOK'
    BY DEF AccountsInv, AccountRowsOK, CodeExpires, users, identities
  <1>3. PICK d : d = [code[c] EXCEPT !.fresh = FALSE]
    OBVIOUS
  <1>4. d \in CodeRows /\ Addressed(d, accounts, owner)
    <2>1. 0 \in 0..MaxTries /\ code[c] \in CodeRows /\ Addressed(code[c], accounts, owner)
      BY AccountNumbers DEF AccountsInv, CodesOK
    <2>. QED  BY <1>3, <2>1, CodeRowsChange
  <1>5. CodesOK'
    BY <1>1, <1>3, <1>4, CodesChange DEF AccountsInv, CodeExpires
  <1>. QED  BY <1>1, <1>2, <1>5 DEF AccountsInv

LEMMA ConsumeKeeps ==
  ASSUME AccountsInv, NEW r \in Visits, Consume(r)
  PROVE  AccountsInv'
  <1>. DEFINE v == visit[r]
  <1>0. Busy(r, "consume") /\ VisitsOK
    BY DEF AccountsInv, Consume
  <1>1. /\ v \in VisitRows /\ v # NoVisit /\ Onward(v.op, v.todo)
        /\ Head(v.todo) = "consume" /\ v.note \in BOOLEAN
        /\ v.op \in {"verify", "verifyCode", "reset", "complete"}
        /\ v.op \in MailOps => v.mail \in Emails
        /\ v.op \in WalletOps => v.wal \in Wallets
        /\ Sound(v, accounts, owner)
    BY <1>0, BusyFollows, BusyKnows
  <1>2. RecordGrown /\ RecordsOK' /\ UNCHANGED <<owner, accounts>>
    BY Unmoved, RecordsStay DEF AccountsInv, Consume, users, identities
  <1>3. AccountRowsOK'
    BY DEF AccountsInv, AccountRowsOK, Consume, users, identities
  <1>4. CASE (\A c \in Codes : ~Locked(r, c)) /\ End(r) /\ UNCHANGED code
    BY <1>2, <1>3, <1>4, EndKeeps, CodesStay DEF AccountsInv
  <1>5. ASSUME NEW c \in Codes, Locked(r, c),
               ~code[c].fresh \/ code[c].tries >= MaxTries,
               code' = [code EXCEPT ![c].open = FALSE], End(r)
        PROVE  AccountsInv'
    <2>1. PICK d : d = [code[c] EXCEPT !.open = FALSE]
      OBVIOUS
    <2>2. 0 \in 0..MaxTries /\ code[c] \in CodeRows /\ Addressed(code[c], accounts, owner)
      BY AccountNumbers DEF AccountsInv, CodesOK
    <2>3. d \in CodeRows /\ Addressed(d, accounts, owner)
      BY <2>1, <2>2, CodeRowsChange
    <2>4. CodesOK'
      BY <1>2, <1>5, <2>1, <2>3, CodesChange DEF AccountsInv
    <2>. QED  BY <1>2, <1>3, <1>5, <2>4, EndKeeps DEF AccountsInv
  <1>6. ASSUME NEW c \in Codes, Locked(r, c), code[c].tries < MaxTries,
               code' = [code EXCEPT ![c].tries = @ + 1], End(r)
        PROVE  AccountsInv'
    <2>1. code[c] \in CodeRows /\ Addressed(code[c], accounts, owner)
      BY DEF AccountsInv, CodesOK
    <2>2. PICK tries \in 0..MaxTries : tries = code[c].tries + 1
      BY <1>6, <2>1, Tries
    <2>3. PICK d : d = [code[c] EXCEPT !.tries = tries]
      OBVIOUS
    <2>4. d \in CodeRows /\ Addressed(d, accounts, owner)
      BY <2>1, <2>3, CodeRowsChange
    <2>5. code' = [code EXCEPT ![c] = d]
      BY <1>6, <2>2, <2>3
    <2>6. CodesOK'
      BY <1>2, <2>4, <2>5, CodesChange DEF AccountsInv
    <2>. QED  BY <1>2, <1>3, <1>6, <2>6, EndKeeps DEF AccountsInv
  <1>7. ASSUME NEW c \in Codes, Locked(r, c), code[c].tries < MaxTries,
               code' = [code EXCEPT ![c] = Spent(c)], Granted(r, code[c].user)
        PROVE  AccountsInv'
    <2>1. code[c] \in CodeRows /\ Addressed(code[c], accounts, owner) /\ code[c].open
      BY <1>7 DEF AccountsInv, CodesOK, Locked
    <2>2. PICK tries \in 0..MaxTries : tries = code[c].tries + 1
      BY <1>7, <2>1, Tries
    <2>3. PICK uses \in {0, 1} : uses = code[c].uses + 1
      BY <1>7, <2>1, Tries
    <2>4. PICK d : d = [code[c] EXCEPT !.open = FALSE, !.tries = tries, !.uses = uses]
      OBVIOUS
    <2>5. d \in CodeRows /\ Addressed(d, accounts, owner)
      BY <2>1, <2>4, CodeRowsChange
    <2>6. code' = [code EXCEPT ![c] = d]
      BY <1>7, <2>2, <2>3, <2>4 DEF Spent
    <2>7. CodesOK'
      BY <1>2, <2>5, <2>6, CodesChange DEF AccountsInv
    <2>8. PICK u : u = code[c].user
      OBVIOUS
    <2>9. u \in AccountIds /\ u <= accounts
      BY <2>1, <2>8 DEF CodeRows, Addressed
    <2>10. /\ Tail(v.todo) # <<>> /\ Tail(v.todo) \in Todos(v.op)
           /\ Ready(v.op, Head(Tail(v.todo)), v.mail, u, owner)
      <3>1. v.op \in {"verifyCode", "reset"} => u # NoOne
        BY <1>7, <2>1, <2>8 DEF Locked, Takes, Addressed
      <3>2. v.op = "verifyCode" => u = owner[v.mail]
        BY <1>7, <2>1, <2>8 DEF Locked, Takes, Addressed
      <3>. QED  BY <1>1, <3>1, <3>2, SMT DEF Onward, Leads, Ready
    <2>11. PICK w : w = [v EXCEPT !.todo = Tail(@), !.who = u, !.bound = u]
      OBVIOUS
    <2>12. /\ w \in VisitRows /\ w.op = v.op /\ w.todo = Tail(v.todo) /\ w.mail = v.mail
           /\ w.wal = v.wal /\ w.who = u /\ w.bound = u
      <3>1. PICK rest \in Lists : rest = Tail(v.todo)
        BY <1>1, <2>10, TodosAreLists DEF MailOps
      <3>2. w = [v EXCEPT !.todo = rest, !.who = u, !.bound = u]
        BY <2>11, <3>1
      <3>. QED  BY <1>1, <2>9, <3>1, <3>2 DEF VisitRows
    <2>13. Sound(w, accounts, owner)
      BY <1>1, <2>9, <2>10, <2>12 DEF Sound, MailOps
    <2>14. visit' = [visit EXCEPT ![r] = w]
      BY <1>7, <2>8, <2>11 DEF Granted, AccountsInv, VisitsOK
    <2>15. VisitsOK'
      BY <1>2, <2>12, <2>13, <2>14 DEF AccountsInv, VisitsOK
    <2>. QED  BY <1>2, <1>3, <2>7, <2>15 DEF AccountsInv
  <1>8. \A c \in Codes : ~(code[c].tries >= MaxTries) => code[c].tries < MaxTries
    BY AccountNumbers DEF AccountsInv, CodesOK, CodeRows
  <1>. QED  BY <1>4, <1>5, <1>6, <1>7, <1>8 DEF Consume

\* The statements that only read, or write what no other row depends on.
LEMMA GoKeeps ==
  ASSUME AccountsInv, AccountRowsOK', RecordsOK', UNCHANGED <<owner, accounts, code>>,
         NEW r \in Visits, NEW s, Busy(r, s), Go(r) \/ End(r),
         s \in {"verified", "byGoogle", "linkGoogle", "google", "bindSeed", "bind", "completed",
               "setEmail"}
  PROVE  AccountsInv'
  <1>. DEFINE v == visit[r]
  <1>1. /\ v # NoVisit /\ Onward(v.op, v.todo) /\ Head(v.todo) = s
        /\ v.who \in AccountIds /\ v.who <= accounts /\ v.note \in BOOLEAN
        /\ Ready(v.op, s, v.mail, v.who, owner)
    BY BusyFollows, SMT DEF AccountsInv, VisitRows
  <1>2. RecordGrown /\ CodesOK'
    BY Unmoved, CodesStay DEF AccountsInv
  <1>3. CASE End(r)
    BY <1>2, <1>3, EndKeeps DEF AccountsInv
  <1>4. CASE Go(r)
    <2>1. MayGoOn(v, Tail(v.todo), v.who, accounts', owner')
      BY <1>1, SMT DEF Onward, Leads, MayGoOn, Ready, WalletOps
    <2>. QED  BY <1>1, <1>2, <1>4, <2>1, TurnKeeps DEF AccountsInv, Go
  <1>. QED  BY <1>3, <1>4

LEMMA MarkEmailVerifiedKeeps ==
  ASSUME AccountsInv, NEW r \in Visits, MarkEmailVerified(r)
  PROVE  AccountsInv'
  <1>1. AccountRowsOK' /\ UNCHANGED <<owner, accounts, code>>
    BY DEF AccountsInv, AccountRowsOK, MarkEmailVerified, users, identities
  <1>2. RecordsOK'
    BY <1>1 DEF AccountsInv, RecordsOK, MarkEmailVerified
  <1>. QED  BY <1>1, <1>2, GoKeeps DEF MarkEmailVerified

LEMMA ByGoogleKeeps ==
  ASSUME AccountsInv, NEW r \in Visits, ByGoogle(r)
  PROVE  AccountsInv'
  <1>1. AccountRowsOK' /\ RecordsOK' /\ UNCHANGED <<owner, accounts, code>>
    BY DEF AccountsInv, AccountRowsOK, RecordsOK, ByGoogle, users, identities
  <1>. QED  BY <1>1, GoKeeps DEF ByGoogle

LEMMA ReadRecordKeeps ==
  ASSUME AccountsInv, NEW r \in Visits, ReadRecord(r)
  PROVE  AccountsInv'
  <1>. DEFINE v == visit[r]
  <1>1. /\ v # NoVisit /\ Onward(v.op, v.todo) /\ v.mail \in Emails
        /\ Head(v.todo) = "readRecord"
    <2>1. Busy(r, "readRecord") /\ VisitsOK
      BY DEF AccountsInv, ReadRecord
    <2>2. v # NoVisit /\ Onward(v.op, v.todo) /\ Head(v.todo) = "readRecord"
      BY <2>1, BusyFollows
    <2>3. v.op = "google"
      BY <2>2 DEF Onward, Leads
    <2>. QED  BY <2>1, <2>2, <2>3, BusyFollows DEF MailOps
  <1>2. RecordGrown /\ CodesOK' /\ RecordsOK' /\ UNCHANGED <<owner, accounts>>
    BY Unmoved, CodesStay, RecordsStay DEF AccountsInv, ReadRecord, users, identities
  <1>3. AccountRowsOK'
    BY DEF AccountsInv, AccountRowsOK, ReadRecord, users, identities
  <1>4. (~record[v.mail].verified) \in BOOLEAN /\ NoOne \in AccountIds /\ NoOne <= accounts
    BY AccountNumbers DEF AccountsInv, AccountRowsOK
  <1>5. MayGoOn(v, Tail(v.todo), NoOne, accounts', owner')
    BY <1>1, <1>2, <1>4 DEF Onward, Leads, MayGoOn, Ready
  <1>6. VisitsOK'
    BY <1>1, <1>2, <1>4, <1>5, TurnKeeps DEF AccountsInv, ReadRecord
  <1>. QED  BY <1>2, <1>3, <1>6 DEF AccountsInv

LEMMA GoogleTodo == <<"linkGoogle">> \in Todos("google") /\ Head(<<"linkGoogle">>) = "linkGoogle"
                    /\ <<"google", "email", "record">> \in Todos("google")
                    /\ Head(<<"google", "email", "record">>) = "google"
  BY SMT DEF Todos, GoogleTodos

LEMMA ByEmailKeeps ==
  ASSUME AccountsInv, NEW r \in Visits, ByEmail(r)
  PROVE  AccountsInv'
  <1>. DEFINE v == visit[r]
              u == owner[v.mail]
  <1>0. Busy(r, "byEmail") /\ VisitsOK
    BY DEF AccountsInv, ByEmail
  <1>1. /\ v # NoVisit /\ v.op = "google" /\ v.mail \in Emails /\ v.note \in BOOLEAN
    BY <1>0, BusyFollows, BusyKnows
  <1>2. CASE u # NoOne /\ Turn(r, <<"linkGoogle">>, u, v.note) /\ UNCHANGED users
    <2>1. RecordGrown /\ CodesOK' /\ RecordsOK' /\ UNCHANGED <<owner, accounts>>
      BY <1>2, Unmoved, CodesStay, RecordsStay DEF AccountsInv, ByEmail, users, identities
    <2>2. AccountRowsOK'
      BY <1>2 DEF AccountsInv, AccountRowsOK, ByEmail, users, identities
    <2>3. u \in AccountIds /\ u <= accounts
      BY <1>1 DEF AccountsInv, AccountRowsOK
    <2>4. MayGoOn(v, <<"linkGoogle">>, u, accounts', owner')
      BY <1>1, <1>2, <2>1, <2>3, GoogleTodo DEF MayGoOn, Ready
    <2>5. VisitsOK'
      BY <1>1, <1>2, <2>1, <2>3, <2>4, TurnKeeps DEF AccountsInv
    <2>. QED  BY <2>1, <2>2, <2>5 DEF AccountsInv
  <1>3. CASE u = NoOne /\ End(r) /\ UNCHANGED users
    BY <1>3, Unmoved, EndKeeps, CodesStay, RecordsStay
       DEF AccountsInv, AccountRowsOK, ByEmail, users, identities
  <1>4. CASE /\ u = NoOne /\ accounts < MaxAccount
             /\ accounts' = accounts + 1 /\ realMail' = realMail \cup {accounts + 1}
             /\ Turn(r, <<"google", "email", "record">>, accounts + 1, FALSE)
             /\ UNCHANGED <<wallet, seed>>
    <2>1. RecordGrown /\ accounts' \in AccountIds /\ accounts' # NoOne /\ owner' = owner
      BY <1>4, AccountNumbers DEF AccountsInv, AccountRowsOK, RecordGrown, ByEmail, identities
    <2>2. MayGoOn(v, <<"google", "email", "record">>, accounts', accounts', owner')
      BY <1>1, <2>1, AccountNumbers, GoogleTodo DEF MayGoOn, Ready, RecordGrown
    <2>3. VisitsOK'
      BY <1>1, <1>4, <2>1, <2>2, TurnKeeps DEF AccountsInv
    <2>4. CodesOK' /\ RecordsOK'
      BY <2>1, CodesStay, RecordsStay DEF AccountsInv, ByEmail
    <2>5. AccountRowsOK'
      BY <1>4, <2>1, AccountNumbers DEF AccountsInv, AccountRowsOK, ByEmail, identities
    <2>. QED  BY <2>3, <2>4, <2>5 DEF AccountsInv
  <1>. QED  BY <1>2, <1>3, <1>4 DEF ByEmail

LEMMA LinkGoogleToAccountKeeps ==
  ASSUME AccountsInv, NEW r \in Visits, LinkGoogleToAccount(r)
  PROVE  AccountsInv'
  <1>. DEFINE v == visit[r]
  <1>0. Busy(r, "linkGoogle") /\ VisitsOK
    BY DEF AccountsInv, LinkGoogleToAccount
  <1>1. v.mail \in Emails /\ v.who \in AccountIds
    BY <1>0, BusyFollows, BusyKnows
  <1>2. UNCHANGED <<owner, accounts, code>>
    BY DEF LinkGoogleToAccount, users
  <1>3. AccountRowsOK'
    BY <1>1 DEF AccountsInv, AccountRowsOK, LinkGoogleToAccount, users
  <1>4. RecordsOK'
    BY <1>1, <1>2 DEF AccountsInv, RecordsOK, LinkGoogleToAccount
  <1>. QED  BY <1>2, <1>3, <1>4, GoKeeps DEF LinkGoogleToAccount

LEMMA LinkGoogleKeeps ==
  ASSUME AccountsInv, NEW r \in Visits, LinkGoogle(r)
  PROVE  AccountsInv'
  <1>. DEFINE v == visit[r]
  <1>0. Busy(r, "google") /\ VisitsOK
    BY DEF AccountsInv, LinkGoogle
  <1>1. v.mail \in Emails /\ v.who \in AccountIds
    BY <1>0, BusyFollows, BusyKnows
  <1>2. UNCHANGED <<owner, accounts, code>> /\ RecordsOK'
    BY DEF AccountsInv, RecordsOK, LinkGoogle, users
  <1>3. AccountRowsOK'
    BY <1>1 DEF AccountsInv, AccountRowsOK, LinkGoogle, users
  <1>. QED  BY <1>2, <1>3, GoKeeps DEF LinkGoogle

\* A wallet is held, or named in a seed, only by an account there is.
LEMMA WalletHolders ==
  ASSUME AccountRowsOK, NEW w \in Wallets
  PROVE  /\ HolderOf(w) \in AccountIds /\ HolderOf(w) <= accounts
         /\ SeededBy(w) \in AccountIds /\ SeededBy(w) <= accounts
  <1>1. w # NoWallet /\ accounts \in Nat /\ NoOne \in AccountIds /\ NoOne <= accounts
    BY AccountNumbers DEF AccountRowsOK
  <1>2. HolderOf(w) = NoOne \/ (HolderOf(w) \in Rows /\ wallet[HolderOf(w)] = w)
    BY DEF HolderOf
  <1>3. SeededBy(w) = NoOne \/ (SeededBy(w) \in Rows /\ seed[SeededBy(w)] = w)
    BY DEF SeededBy
  <1>. QED  BY <1>1, <1>2, <1>3 DEF AccountRowsOK, AccountIds

LEMMA FoundTodos ==
  /\ Found("wallet") \in Todos("wallet") /\ Head(Found("wallet")) = "completed"
  /\ Found("complete") \in Todos("complete") /\ Head(Found("complete")) = "join"
  /\ Found("wallet") # <<>> /\ Found("complete") # <<>>
  BY SMT DEF Found, Todos, WalletTodos, CompleteTodos

\* The lookups of a wallet's account change nothing but the request.
LEMMA LookupKeeps ==
  ASSUME AccountsInv, NEW r \in Visits, NEW s \in {"byWallet", "bySeed"}, Busy(r, s),
         UNCHANGED <<users, identities, password, record, code, nonce, breaks>>,
         NEW u \in AccountIds, u <= accounts, NEW todo \in {Tail(visit[r].todo), Found(visit[r].op)},
         Turn(r, todo, u, FALSE)
  PROVE  AccountsInv'
  <1>. DEFINE v == visit[r]
  <1>1. /\ v # NoVisit /\ Onward(v.op, v.todo) /\ Head(v.todo) = s
    BY BusyFollows DEF AccountsInv
  <1>2. /\ v.op \in WalletOps /\ Tail(v.todo) \in Todos(v.op) \cup {<<>>}
        /\ Tail(v.todo) # <<>> => Head(Tail(v.todo)) \in {"bySeed", "bindSeed", "completed", "join"}
    BY <1>1, SMT DEF Onward, Leads
  <1>3. RecordGrown /\ CodesOK' /\ RecordsOK' /\ UNCHANGED <<owner, accounts>>
    BY Unmoved, CodesStay, RecordsStay DEF AccountsInv, users, identities
  <1>4. AccountRowsOK'
    BY DEF AccountsInv, AccountRowsOK, users, identities
  <1>5. MayGoOn(v, todo, u, accounts', owner')
    <2>1. CASE todo = Found(v.op)
      BY <1>2, <1>3, <2>1, FoundTodos DEF MayGoOn, Ready, WalletOps
    <2>2. CASE todo = Tail(v.todo)
      BY <1>2, <1>3, <2>2, SMT DEF MayGoOn, Ready
    <2>. QED  BY <2>1, <2>2
  <1>6. VisitsOK'
    BY <1>1, <1>3, <1>5, TurnKeeps DEF AccountsInv
  <1>. QED  BY <1>3, <1>4, <1>6 DEF AccountsInv

LEMMA ByWalletKeeps ==
  ASSUME AccountsInv, NEW r \in Visits, ByWallet(r)
  PROVE  AccountsInv'
  <1>1. Busy(r, "byWallet") /\ VisitsOK /\ AccountRowsOK
    BY DEF AccountsInv, ByWallet
  <1>2. visit[r].wal \in Wallets
    BY <1>1, BusyFollows, SMT DEF Onward, Leads
  <1>3. PICK u : u = HolderOf(visit[r].wal)
    OBVIOUS
  <1>4. u \in AccountIds /\ u <= accounts
    BY <1>1, <1>2, <1>3, WalletHolders
  <1>5. PICK todo \in {Tail(visit[r].todo), Found(visit[r].op)} : Turn(r, todo, u, FALSE)
    BY <1>3 DEF ByWallet
  <1>. QED  BY <1>1, <1>4, <1>5, LookupKeeps DEF ByWallet

LEMMA BySeedKeeps ==
  ASSUME AccountsInv, NEW r \in Visits, BySeed(r)
  PROVE  AccountsInv'
  <1>1. Busy(r, "bySeed") /\ VisitsOK /\ AccountRowsOK
    BY DEF AccountsInv, BySeed
  <1>2. visit[r].wal \in Wallets
    BY <1>1, BusyFollows, SMT DEF Onward, Leads
  <1>3. PICK u : u = SeededBy(visit[r].wal)
    OBVIOUS
  <1>4. u \in AccountIds /\ u <= accounts
    BY <1>1, <1>2, <1>3, WalletHolders
  <1>5. PICK todo \in {Tail(visit[r].todo), Found(visit[r].op)} : Turn(r, todo, u, FALSE)
    BY <1>3 DEF BySeed
  <1>. QED  BY <1>1, <1>4, <1>5, LookupKeeps DEF BySeed

LEMMA BindSeedKeeps ==
  ASSUME AccountsInv, NEW r \in Visits, BindSeed(r)
  PROVE  AccountsInv'
  <1>. DEFINE v == visit[r]
  <1>1. PICK s \in {"bindSeed", "bind"} : Busy(r, s)
    BY DEF BindSeed
  <1>2. VisitsOK
    BY DEF AccountsInv
  <1>3. v.wal \in Wallets /\ v.who \in AccountIds /\ v.who <= accounts
    <2>1. Head(v.todo) = s /\ Onward(v.op, v.todo)
      BY <1>1, <1>2, BusyFollows
    <2>2. v.op \in WalletOps
      BY <2>1 DEF Onward, Leads, WalletOps
    <2>. QED  BY <1>1, <1>2, <2>2, BusyFollows
  <1>4. UNCHANGED <<owner, accounts, code>> /\ RecordsOK'
    BY DEF AccountsInv, RecordsOK, BindSeed, identities
  <1>5. AccountRowsOK'
    BY <1>3 DEF AccountsInv, AccountRowsOK, BindSeed, identities
  <1>6. Go(r) \/ End(r)
    BY DEF BindSeed
  <1>. QED  BY <1>1, <1>4, <1>5, <1>6, GoKeeps

LEMMA WalletSignInKeeps ==
  ASSUME AccountsInv, NEW r \in Visits, WalletSignIn(r)
  PROVE  AccountsInv'
  <1>1. AccountRowsOK' /\ RecordsOK' /\ UNCHANGED <<owner, accounts, code>>
    BY DEF AccountsInv, AccountRowsOK, RecordsOK, WalletSignIn, users, identities
  <1>. QED  BY <1>1, GoKeeps DEF WalletSignIn

LEMMA SetUserEmailKeeps ==
  ASSUME AccountsInv, NEW r \in Visits, SetUserEmail(r)
  PROVE  AccountsInv'
  <1>. DEFINE v == visit[r]
  <1>1. Busy(r, "setEmail") /\ VisitsOK /\ accounts \in Nat
    BY DEF AccountsInv, AccountRowsOK, SetUserEmail
  <1>2. v.who \in 1..accounts
    BY <1>1, BusyFollows, AccountNumbers DEF Ready
  <1>3. RecordsOK' /\ UNCHANGED <<owner, accounts, code>>
    BY DEF AccountsInv, RecordsOK, SetUserEmail, identities
  <1>4. AccountRowsOK'
    <2>1. realMail' \subseteq 1..accounts
      BY <1>2 DEF AccountsInv, AccountRowsOK, SetUserEmail
    <2>. QED  BY <1>3, <2>1 DEF AccountsInv, AccountRowsOK, SetUserEmail, identities
  <1>. QED  BY <1>3, <1>4, GoKeeps DEF SetUserEmail

\* complete-registration goes on with the account of the address, its own or a
\* new one.
LEMMA JoinTodos ==
  /\ <<"walletId">> \in Todos("complete") /\ Head(<<"walletId">>) = "walletId"
  /\ <<"bind", "walletId">> \in Todos("complete") /\ Head(<<"bind", "walletId">>) = "bind"
  /\ <<"create", "email", "password", "record", "walletId">> \in Todos("complete")
  /\ Head(<<"create", "email", "password", "record", "walletId">>) = "create"
  /\ <<"setEmail", "email", "password", "record", "walletId">> \in Todos("complete")
  /\ Head(<<"setEmail", "email", "password", "record", "walletId">>) = "setEmail"
  BY SMT DEF Todos, CompleteTodos

LEMMA JoinKeeps ==
  ASSUME AccountsInv, NEW r \in Visits, Join(r)
  PROVE  AccountsInv'
  <1>. DEFINE v == visit[r]
              u == v.who
              o == owner[v.mail]
  <1>1. /\ v # NoVisit /\ v.op = "complete" /\ v.mail \in Emails
        /\ u \in AccountIds /\ u <= accounts
    <2>1. Busy(r, "join") /\ VisitsOK
      BY DEF AccountsInv, Join
    <2>2. Head(v.todo) = "join" /\ Onward(v.op, v.todo)
      BY <2>1, BusyFollows
    <2>3. v.op = "complete"
      BY <2>2 DEF Onward, Leads
    <2>. QED  BY <2>1, <2>3, BusyFollows DEF MailOps
  <1>2. RecordGrown /\ CodesOK' /\ RecordsOK' /\ UNCHANGED <<owner, accounts>>
    BY Unmoved, CodesStay, RecordsStay DEF AccountsInv, Join, users, identities
  <1>3. AccountRowsOK'
    BY DEF AccountsInv, AccountRowsOK, Join, users, identities
  <1>4. CASE End(r)
    BY <1>2, <1>3, <1>4, EndKeeps DEF AccountsInv
  <1>5. CASE Turn(r, IF wallet[o] = v.wal THEN <<"walletId">> ELSE <<"bind", "walletId">>,
                  o, FALSE)
    <2>1. PICK todo \in {<<"walletId">>, <<"bind", "walletId">>} : Turn(r, todo, o, FALSE)
      BY <1>5
    <2>2. o \in AccountIds /\ o <= accounts
      BY <1>1 DEF AccountsInv, AccountRowsOK
    <2>3. MayGoOn(v, todo, o, accounts', owner')
      BY <1>1, <1>2, <2>2, JoinTodos DEF MayGoOn, Ready
    <2>4. VisitsOK'
      BY <1>1, <1>2, <2>1, <2>2, <2>3, TurnKeeps DEF AccountsInv
    <2>. QED  BY <1>2, <1>3, <2>4 DEF AccountsInv
  <1>6. CASE u = NoOne /\ Turn(r, <<"create", "email", "password", "record", "walletId">>, u, FALSE)
    <2>1. MayGoOn(v, <<"create", "email", "password", "record", "walletId">>, u, accounts', owner')
      BY <1>1, <1>2, JoinTodos DEF MayGoOn, Ready
    <2>2. VisitsOK'
      BY <1>1, <1>2, <1>6, <2>1, TurnKeeps DEF AccountsInv
    <2>. QED  BY <1>2, <1>3, <2>2 DEF AccountsInv
  <1>7. CASE /\ u # NoOne
             /\ Turn(r, <<"setEmail", "email", "password", "record", "walletId">>, u, FALSE)
    <2>1. MayGoOn(v, <<"setEmail", "email", "password", "record", "walletId">>, u, accounts',
                  owner')
      BY <1>1, <1>2, <1>7, JoinTodos DEF MayGoOn, Ready
    <2>2. VisitsOK'
      BY <1>1, <1>2, <1>7, <2>1, TurnKeeps DEF AccountsInv
    <2>. QED  BY <1>2, <1>3, <2>2 DEF AccountsInv
  <1>8. \/ End(r)
        \/ Turn(r, IF wallet[o] = v.wal THEN <<"walletId">> ELSE <<"bind", "walletId">>,
                o, FALSE)
        \/ Turn(r, <<IF u = NoOne THEN "create" ELSE "setEmail", "email", "password", "record",
                     "walletId">>, u, FALSE)
    BY DEF Join
  <1>. QED  BY <1>4, <1>5, <1>6, <1>7, <1>8

LEMMA CreateWalletUserKeeps ==
  ASSUME AccountsInv, NEW r \in Visits, CreateWalletUser(r)
  PROVE  AccountsInv'
  <1>. DEFINE v == visit[r]
              w == v.wal
              u == SeededBy(w)
  <1>1. /\ v # NoVisit /\ v.op = "complete" /\ v.mail \in Emails /\ w \in Wallets
        /\ Head(v.todo) = "create" /\ Onward(v.op, v.todo)
    <2>1. Busy(r, "create") /\ VisitsOK
      BY DEF AccountsInv, CreateWalletUser
    <2>2. Head(v.todo) = "create" /\ Onward(v.op, v.todo)
      BY <2>1, BusyFollows
    <2>3. v.op = "complete"
      BY <2>2 DEF Onward, Leads
    <2>. QED  BY <2>1, <2>2, <2>3, BusyFollows DEF MailOps, WalletOps
  <1>2. u \in AccountIds /\ u <= accounts
    BY <1>1, WalletHolders DEF AccountsInv
  <1>3. \/ Tail(v.todo) \in Todos(v.op) /\ Head(Tail(v.todo)) = "email"
        \/ Tail(v.todo) = <<>>
    BY <1>1, SMT DEF Onward, Leads
  <1>4. CASE End(r) /\ UNCHANGED users
    BY <1>4, Unmoved, EndKeeps, CodesStay, RecordsStay
       DEF AccountsInv, AccountRowsOK, CreateWalletUser, users, identities
  <1>5. CASE /\ accounts < MaxAccount
             /\ accounts' = accounts + 1 /\ realMail' = realMail \cup {accounts + 1}
             /\ wallet' = [wallet EXCEPT ![accounts + 1] = w]
             /\ seed' = [seed EXCEPT ![accounts + 1] = w]
             /\ Turn(r, Tail(v.todo), accounts + 1, FALSE)
    <2>1. RecordGrown /\ accounts' \in AccountIds /\ accounts' # NoOne /\ owner' = owner
          /\ accounts' \in Rows
      BY <1>5, AccountNumbers DEF AccountsInv, AccountRowsOK, RecordGrown, CreateWalletUser, identities
    <2>2. MayGoOn(v, Tail(v.todo), accounts', accounts', owner')
      <3>1. accounts' \in Nat /\ accounts' <= accounts'
        BY <2>1 DEF RecordGrown
      <3>2. Ready(v.op, "email", v.mail, accounts', owner')
        BY <2>1 DEF Ready
      <3>. QED  BY <1>3, <3>1, <3>2 DEF MayGoOn
    <2>3. VisitsOK'
      BY <1>1, <1>5, <2>1, <2>2, TurnKeeps DEF AccountsInv
    <2>4. CodesOK' /\ RecordsOK'
      BY <2>1, CodesStay, RecordsStay DEF AccountsInv, CreateWalletUser
    <2>5. AccountRowsOK'
      <3>1. /\ wallet' \in [Rows -> Wallets \cup {NoWallet}]
            /\ seed' \in [Rows -> Wallets \cup {NoWallet}]
        BY <1>1, <1>5 DEF AccountsInv, AccountRowsOK
      <3>2. \A x \in Rows : wallet'[x] # NoWallet \/ seed'[x] # NoWallet => x <= accounts'
        BY <1>5, <2>1, AccountNumbers DEF AccountsInv, AccountRowsOK
      <3>3. /\ accounts' \in 0..MaxAccount /\ \A e \in Emails : owner'[e] <= accounts'
            /\ realMail' \subseteq 1..accounts' /\ password \subseteq 1..accounts'
        BY <1>5, <2>1, AccountNumbers DEF AccountsInv, AccountRowsOK
      <3>. QED  BY <2>1, <3>1, <3>2, <3>3
                DEF AccountsInv, AccountRowsOK, CreateWalletUser, identities
    <2>. QED  BY <2>3, <2>4, <2>5 DEF AccountsInv
  <1>6. CASE /\ u # NoOne /\ wallet' = [wallet EXCEPT ![u] = IF @ = NoWallet THEN w ELSE @]
             /\ Turn(r, Tail(v.todo), u, FALSE)
             /\ UNCHANGED <<accounts, seed, realMail>>
    <2>1. RecordGrown /\ UNCHANGED <<owner, accounts>>
      BY <1>6, Unmoved DEF AccountsInv, CreateWalletUser, identities
    <2>2. MayGoOn(v, Tail(v.todo), u, accounts', owner')
      BY <1>1, <1>2, <1>3, <1>6, <2>1 DEF MayGoOn, Ready
    <2>3. VisitsOK'
      BY <1>1, <1>2, <1>6, <2>1, <2>2, TurnKeeps DEF AccountsInv
    <2>4. CodesOK' /\ RecordsOK'
      BY <2>1, CodesStay, RecordsStay DEF AccountsInv, CreateWalletUser
    <2>5. AccountRowsOK'
      BY <1>1, <1>2, <1>6 DEF AccountsInv, AccountRowsOK, CreateWalletUser, identities, AccountIds
    <2>. QED  BY <2>3, <2>4, <2>5 DEF AccountsInv
  <1>. QED  BY <1>4, <1>5, <1>6 DEF CreateWalletUser

LEMMA CutShortKeeps ==
  ASSUME AccountsInv, NEW r \in Visits, CutShort(r)
  PROVE  AccountsInv'
  <1>1. RecordGrown /\ CodesOK' /\ RecordsOK'
    BY Unmoved, CodesStay, RecordsStay DEF AccountsInv, CutShort, users, identities
  <1>2. AccountRowsOK'
    BY AccountNumbers DEF AccountsInv, AccountRowsOK, CutShort, users, identities
  <1>. QED  BY <1>1, <1>2, EndKeeps DEF AccountsInv, CutShort

LEMMA StatementKeeps ==
  ASSUME AccountsInv, NEW r \in Visits, Statement(r)
  PROVE  AccountsInv'
  BY FreeKeeps, LinkEmailKeeps, LinkWalletKeeps, SetPasswordKeeps, RecordAccountEmailKeeps,
     FindOwnerKeeps, RetireKeeps, MakeCodeKeeps, ConsumeKeeps, MarkEmailVerifiedKeeps,
     ByGoogleKeeps, ReadRecordKeeps, ByEmailKeeps, LinkGoogleToAccountKeeps, LinkGoogleKeeps,
     ByWalletKeeps, BySeedKeeps, BindSeedKeeps, WalletSignInKeeps, JoinKeeps, SetUserEmailKeeps,
     CreateWalletUserKeeps, CutShortKeeps
  DEF Statement

LEMMA FirstStatements ==
  ASSUME NEW op \in MailOps \cup WalletOps
  PROVE  /\ Statements(op) \in Todos(op) /\ Statements(op) # <<>>
         /\ Head(Statements(op)) \in {"free", "owner", "consume", "byGoogle", "byWallet"}
  <1>. USE DEF Statements, Todos
  <1>1. CASE op = "register"
    BY <1>1, SMT DEF RegisterTodos
  <1>2. CASE op \in {"resend", "forgot"}
    <2>1. Statements(op) = <<"owner", "retire", "code">> /\ Todos(op) = AskTodos
      BY <1>2
    <2>. HIDE DEF Statements, Todos
    <2>. QED  BY <2>1, SMT DEF AskTodos
  <1>3. CASE op = "verify"
    BY <1>3, SMT DEF VerifyTodos
  <1>4. CASE op = "verifyCode"
    BY <1>4, SMT DEF VerifyCodeTodos
  <1>5. CASE op = "reset"
    BY <1>5, SMT DEF ResetTodos
  <1>6. CASE op = "google"
    BY <1>6, SMT DEF GoogleTodos
  <1>7. CASE op = "wallet"
    BY <1>7, SMT DEF WalletTodos
  <1>8. CASE op = "complete"
    BY <1>8, SMT DEF CompleteTodos
  <1>. QED  BY <1>1, <1>2, <1>3, <1>4, <1>5, <1>6, <1>7, <1>8 DEF MailOps, WalletOps

LEMMA ArriveKeeps ==
  ASSUME AccountsInv, NEW r \in Visits, NEW op \in MailOps \cup WalletOps,
         NEW e \in Emails \cup {"none"}, NEW w \in Wallets \cup {NoWallet},
         op \in MailOps => e \in Emails, op \in WalletOps => w \in Wallets, Arrive(r, op, e, w)
  PROVE  AccountsInv'
  <1>1. RecordGrown /\ CodesOK' /\ RecordsOK' /\ UNCHANGED <<accounts, owner>>
    BY Unmoved, CodesStay, RecordsStay DEF AccountsInv, Arrive, users, identities
  <1>2. AccountRowsOK'
    BY DEF AccountsInv, AccountRowsOK, Arrive, users, identities
  <1>3. PICK todo \in Lists : todo = Statements(op)
    BY FirstStatements, TodosAreLists
  <1>4. PICK v : v = [NoVisit EXCEPT !.op = op, !.todo = todo, !.mail = e, !.wal = w]
    OBVIOUS
  <1>5. /\ v \in VisitRows /\ v.op = op /\ v.todo = todo /\ v.mail = e /\ v.wal = w
        /\ v.who = NoOne /\ v.bound = NoOne
    <2>1. v = [op |-> op, todo |-> todo, mail |-> e, wal |-> w, who |-> NoOne, bound |-> NoOne,
               note |-> FALSE]
      BY <1>4, Zenon DEF NoVisit
    <2>. QED  BY <2>1 DEF VisitRows, AccountIds
  <1>6. Sound(v, accounts, owner)
    <2>1. NoOne <= accounts
      BY AccountNumbers DEF AccountsInv, AccountRowsOK
    <2>2. Ready(op, Head(todo), e, NoOne, owner) /\ todo \in Todos(op)
      BY <1>3, FirstStatements, SMT DEF Ready
    <2>. QED  BY <1>5, <2>1, <2>2 DEF Sound
  <1>7. visit' = [visit EXCEPT ![r] = v]
    BY <1>3, <1>4 DEF Arrive
  <1>8. VisitsOK'
    BY <1>1, <1>5, <1>6, <1>7 DEF AccountsInv, VisitsOK
  <1>. QED  BY <1>1, <1>2, <1>8 DEF AccountsInv

\* Wallets are bound and unbound, and the server restarts, beside the requests.
LEMMA OthersKeep ==
  ASSUME AccountsInv,
         \/ \E w \in Wallets : WalletChallenge(w) \/ \E u \in Rows : Bind(u, w)
         \/ \E u \in Rows : Unbind(u)
         \/ ServerRestarts
  PROVE  AccountsInv'
  <1>1. RecordGrown /\ CodesOK' /\ RecordsOK' /\ UNCHANGED <<accounts, owner>>
    BY Unmoved, CodesStay, RecordsStay
       DEF AccountsInv, WalletChallenge, Bind, Unbind, ServerRestarts, users, identities
  <1>2. ASSUME NEW w \in Wallets, WalletChallenge(w)
        PROVE  AccountsInv'
    <2>1. AccountRowsOK' /\ VisitsOK'
      BY <1>1, <1>2, VisitsStay DEF AccountsInv, AccountRowsOK, WalletChallenge, users, identities
    <2>. QED  BY <1>1, <2>1 DEF AccountsInv
  <1>3. ASSUME NEW w \in Wallets, NEW u \in Rows, Bind(u, w)
        PROVE  AccountsInv'
    <2>1. AccountRowsOK' /\ VisitsOK'
      BY <1>1, <1>3, VisitsStay, AccountNumbers
         DEF AccountsInv, AccountRowsOK, Bind, identities
    <2>. QED  BY <1>1, <2>1 DEF AccountsInv
  <1>4. ASSUME NEW u \in Rows, Unbind(u)
        PROVE  AccountsInv'
    <2>1. AccountRowsOK' /\ VisitsOK'
      BY <1>1, <1>4, VisitsStay DEF AccountsInv, AccountRowsOK, Unbind, identities
    <2>. QED  BY <1>1, <2>1 DEF AccountsInv
  <1>5. CASE ServerRestarts
    <2>1. AccountRowsOK'
      BY <1>5, AccountNumbers DEF AccountsInv, AccountRowsOK, ServerRestarts, users, identities
    <2>2. NoVisit \in VisitRows /\ Sound(NoVisit, accounts', owner')
      BY <1>1, NoVisitIsSound DEF RecordGrown
    <2>3. VisitsOK'
      BY <1>5, <2>2 DEF VisitsOK, ServerRestarts
    <2>. QED  BY <1>1, <2>1, <2>3 DEF AccountsInv
  <1>. QED  BY <1>2, <1>3, <1>4, <1>5

LEMMA AccountsStep ==
  ASSUME AccountsInv, [AccountsNext]_accountVars
  PROVE  AccountsInv'
  <1>1. CASE UNCHANGED accountVars
    BY <1>1 DEF accountVars, AccountsInv, AccountRowsOK, RecordsOK, CodesOK, VisitsOK
  <1>2. ASSUME NEW r \in Visits, NEW e \in Emails,
               NEW op \in {"register", "resend", "forgot", "verify", "verifyCode", "reset", "google"},
               Arrive(r, op, e, NoWallet)
        PROVE  AccountsInv'
    BY <1>2, ArriveKeeps DEF MailOps, WalletOps
  <1>3. ASSUME NEW r \in Visits, NEW e \in Emails, NEW w \in Wallets,
               Arrive(r, "wallet", "none", w) \/ Arrive(r, "complete", e, w)
        PROVE  AccountsInv'
    BY <1>3, ArriveKeeps DEF MailOps, WalletOps
  <1>. QED  BY <1>1, <1>2, <1>3, StatementKeeps, CodeExpiresKeeps, OthersKeep DEF AccountsNext

LEMMA AccountsBegin ==
  ASSUME AccountsInit
  PROVE  AccountsInv
  <1>1. PICK old \in {{}} \cup {{w} : w \in Wallets} :
          /\ accounts = Cardinality(old)
          /\ wallet = [u \in Rows |-> IF u = 1 /\ old # {} THEN CHOOSE w \in old : TRUE
                                      ELSE NoWallet]
    BY DEF AccountsInit
  <1>2. accounts \in {0, 1} /\ (old # {} => accounts = 1 /\ \A w \in old : w \in Wallets)
    BY <1>1, FS_EmptySet, FS_Singleton
  <1>3. /\ wallet \in [Rows -> Wallets \cup {NoWallet}]
        /\ \A u \in Rows : wallet[u] # NoWallet => u <= accounts
    BY <1>1, <1>2, AccountNumbers
  <1>4. AccountRowsOK
    BY <1>2, <1>3, AccountNumbers DEF AccountsInit, AccountRowsOK
  <1>5. RecordsOK
    BY AccountNumbers DEF AccountsInit, RecordsOK
  <1>6. NoCode \in CodeRows /\ Addressed(NoCode, accounts, owner)
    BY <1>2, AccountNumbers DEF NoCode, CodeRows, Addressed
  <1>7. CodesOK
    BY <1>6 DEF AccountsInit, CodesOK
  <1>8. NoVisit \in VisitRows /\ Sound(NoVisit, accounts, owner)
    BY <1>2, NoVisitIsSound
  <1>9. VisitsOK
    BY <1>8 DEF AccountsInit, VisitsOK
  <1>. QED  BY <1>4, <1>5, <1>7, <1>9 DEF AccountsInv

\* However registrations, codes, Google sign-ins and wallets interleave, and
\* wherever requests are cut short, an address, its record and every code sent
\* to it belong to one account and a code works once: for any number of
\* accounts, addresses, wallets, requests and codes (routes/auth.ts,
\* auth/identityService.ts, auth/challengeService.ts).
THEOREM OwnersCorrect == AccountsSpec => [](AccountsTypeOK /\ OwnersAgree)
  <1>1. AccountsInv => AccountsTypeOK /\ OwnersAgree
    <2>1. ASSUME AccountsInv PROVE AccountsTypeOK
      BY <2>1 DEF AccountsInv, AccountRowsOK, RecordsOK, CodesOK, CodeRows, AccountsTypeOK,
                  AccountIds
    <2>2. ASSUME AccountsInv PROVE OwnersAgree
      BY <2>2 DEF AccountsInv, RecordsOK, CodesOK, CodeRows, Addressed, OwnersAgree
    <2>. QED  BY <2>1, <2>2
  <1>. QED  BY <1>1, AccountsBegin, AccountsStep, PTL DEF AccountsSpec

-----------------------------------------------------------------------------
(* Cosmetics: coins *)

Events ==
  {<<"reward", u, n>> : u \in Shoppers, n \in 1..Income}
  \cup {<<"cosmetic", u, p>> : u \in Shoppers, p \in Pieces}
  \cup {<<"refund", u, p>> : u \in Shoppers, p \in Pieces}

Transfers == [event : Events, from : CoinAccounts, to : CoinAccounts, amount : Nat]

\* What some transfers brought to an account, and took from it.
Brought(a, S) == SumFunctionOnSet([t \in S |-> IF t.to = a THEN t.amount ELSE 0], S)
Took(a, S) == SumFunctionOnSet([t \in S |-> IF t.from = a THEN t.amount ELSE 0], S)

\* The pieces travelers hold, and their price.
Holdings == {h \in Shoppers \X Pieces : entitlements[h[1]][h[2]] = "held"}
Worth == [h \in Shoppers \X Pieces |-> PieceCost[h[2]]]

CoinTypes ==
  /\ balances \in [CoinAccounts -> Int]
  /\ \A a \in CoinAccounts \ {"issuance"} : balances[a] >= 0
  /\ transfers \subseteq Transfers /\ IsFiniteSet(transfers)
  /\ entitlements \in [Shoppers -> [Pieces -> {"none", "held", "refunded"}]]
  /\ spendKeys \in [Shoppers -> [PurchaseKeys -> Pieces \cup {NoItem}]]
  /\ refundKeys \in [PurchaseKeys -> Pieces \cup {NoItem}]
  /\ \A r \in Refunds : refund[r].at = "looked" =>
       refund[r].by \in Shoppers /\ refund[r].of \in Pieces /\ refund[r].key \in PurchaseKeys
  /\ refund = [r \in Refunds |-> refund[r]]

\* One transfer for one event; a purchase took its price, and a piece is held or
\* refunded only with the transfers that say so.
TransfersTell ==
  /\ \A t, s \in transfers : t.event = s.event => t = s
  /\ \A t \in transfers : \A u \in Shoppers, p \in Pieces :
       t.event = <<"cosmetic", u, p>> =>
         t.from = u /\ t.to = "retired" /\ t.amount = PieceCost[p]
  /\ \A u \in Shoppers, p \in Pieces :
       /\ entitlements[u][p] = "held" => Posted(<<"cosmetic", u, p>>)
       /\ Posted(<<"refund", u, p>>) <=> entitlements[u][p] = "refunded"

CoinBooks ==
  /\ \A a \in CoinAccounts : balances[a] = Brought(a, transfers) - Took(a, transfers)
  /\ balances["retired"] = SumFunctionOnSet(Worth, Holdings)

CoinInv == CoinTypes /\ TransfersTell /\ CoinBooks

LEMMA Sold ==
  /\ PieceCost \in [Pieces -> Nat \ {0}] /\ ItemPrices \subseteq Nat \ {0} /\ Income \in Nat
  /\ CoinReward \in Nat \ {0} /\ BadgeItems \subseteq Items
  /\ IsFiniteSet(Shoppers) /\ IsFiniteSet(Pieces) /\ IsFiniteSet(Items)
  /\ "issuance" \notin Shoppers /\ "retired" \notin Shoppers
  BY CosmeticsAssumption

\* One more transfer.
LEMMA OneMore ==
  ASSUME NEW S, S \subseteq Transfers, IsFiniteSet(S), NEW t \in Transfers, t \notin S, NEW a
  PROVE  /\ Brought(a, S \cup {t}) = Brought(a, S) + (IF t.to = a THEN t.amount ELSE 0)
         /\ Took(a, S \cup {t}) = Took(a, S) + (IF t.from = a THEN t.amount ELSE 0)
         /\ Brought(a, S) \in Int /\ Took(a, S) \in Int
  <1>. DEFINE to == [x \in S \cup {t} |-> IF x.to = a THEN x.amount ELSE 0]
              from == [x \in S \cup {t} |-> IF x.from = a THEN x.amount ELSE 0]
  <1>1. \A x \in S \cup {t} : x.amount \in Nat
    BY DEF Transfers
  <1>2. \A x \in S \cup {t} : to[x] \in Int /\ from[x] \in Int
    BY <1>1
  <1>3. SumFunctionOnSet(to, S \cup {t}) = to[t] + SumFunctionOnSet(to, S)
    BY <1>2, SumWith
  <1>4. SumFunctionOnSet(from, S \cup {t}) = from[t] + SumFunctionOnSet(from, S)
    BY <1>2, SumWith
  <1>5. SumFunctionOnSet(to, S) = Brought(a, S) /\ Brought(a, S) \in Int
    <2>. DEFINE old == [x \in S |-> IF x.to = a THEN x.amount ELSE 0]
    <2>1. \A x \in S : to[x] = old[x] /\ old[x] \in Int
      BY <1>1
    <2>2. SumFunctionOnSet(to, S) = SumFunctionOnSet(old, S)
      BY <2>1, SumOfEqual
    <2>3. SumFunctionOnSet(old, S) \in Int
      BY <2>1, SumIsInt
    <2>. QED  BY <2>2, <2>3 DEF Brought
  <1>6. SumFunctionOnSet(from, S) = Took(a, S) /\ Took(a, S) \in Int
    <2>. DEFINE old == [x \in S |-> IF x.from = a THEN x.amount ELSE 0]
    <2>1. \A x \in S : from[x] = old[x] /\ old[x] \in Int
      BY <1>1
    <2>2. SumFunctionOnSet(from, S) = SumFunctionOnSet(old, S)
      BY <2>1, SumOfEqual
    <2>3. SumFunctionOnSet(old, S) \in Int
      BY <2>1, SumIsInt
    <2>. QED  BY <2>2, <2>3 DEF Took
  <1>. HIDE DEF to, from
  <1>7. to[t] = (IF t.to = a THEN t.amount ELSE 0) /\ from[t] = (IF t.from = a THEN t.amount ELSE 0)
    BY DEF to, from
  <1>8. /\ Brought(a, S \cup {t}) = SumFunctionOnSet(to, S \cup {t})
        /\ Took(a, S \cup {t}) = SumFunctionOnSet(from, S \cup {t})
    BY DEF Brought, Took, to, from
  <1>9. to[t] \in Int /\ from[t] \in Int
    BY <1>2
  <1>. QED  BY <1>3, <1>4, <1>5, <1>6, <1>7, <1>8, <1>9

LEMMA HoldingsSum ==
  /\ \A h \in Shoppers \X Pieces : Worth[h] \in Int /\ Worth[h] = PieceCost[h[2]]
  /\ Holdings \subseteq Shoppers \X Pieces /\ IsFiniteSet(Holdings)
  <1>1. IsFiniteSet(Shoppers \X Pieces)
    BY Sold, FS_Product
  <1>2. Holdings \subseteq Shoppers \X Pieces
    BY DEF Holdings
  <1>. QED  BY <1>1, <1>2, Sold, FS_Subset DEF Worth

\* One transfer keeps the accounts' books.
LEMMA PostKeepsBooks ==
  ASSUME CoinTypes, NEW event \in Events, NEW from \in CoinAccounts, NEW to \in CoinAccounts,
         from # to, NEW amount \in Nat, PostTransfer(event, from, to, amount),
         \A a \in CoinAccounts : balances[a] = Brought(a, transfers) - Took(a, transfers)
  PROVE  /\ \A a \in CoinAccounts : balances'[a] = Brought(a, transfers') - Took(a, transfers')
         /\ balances' \in [CoinAccounts -> Int]
         /\ \A a \in CoinAccounts \ {"issuance"} : balances'[a] >= 0
         /\ transfers' \subseteq Transfers /\ IsFiniteSet(transfers')
         /\ balances'[from] = balances[from] - amount /\ balances'[to] = balances[to] + amount
         /\ \A a \in CoinAccounts \ {from, to} : balances'[a] = balances[a]
  <1>1. PICK t : t = [event |-> event, from |-> from, to |-> to, amount |-> amount]
    OBVIOUS
  <1>2. t \in Transfers /\ t.from = from /\ t.to = to /\ t.amount = amount /\ t.event = event
    BY <1>1 DEF Transfers
  <1>3. transfers' = transfers \cup {t} /\ t \notin transfers
    BY <1>1, <1>2 DEF PostTransfer, Posted
  <1>4. /\ balances' \in [CoinAccounts -> Int]
        /\ balances'[from] = balances[from] - amount /\ balances'[to] = balances[to] + amount
        /\ \A a \in CoinAccounts \ {from, to} : balances'[a] = balances[a]
    BY DEF CoinTypes, PostTransfer
  <1>5. \A a \in CoinAccounts \ {"issuance"} : balances'[a] >= 0
    BY <1>4 DEF CoinTypes, PostTransfer
  <1>6. transfers' \subseteq Transfers /\ IsFiniteSet(transfers')
    BY <1>2, <1>3, FS_AddElement DEF CoinTypes
  <1>7. ASSUME NEW a \in CoinAccounts
        PROVE  balances'[a] = Brought(a, transfers') - Took(a, transfers')
    <2>1. transfers \subseteq Transfers /\ IsFiniteSet(transfers)
      BY DEF CoinTypes
    <2>2. /\ Brought(a, transfers \cup {t}) = Brought(a, transfers) + (IF t.to = a THEN t.amount ELSE 0)
          /\ Took(a, transfers \cup {t}) = Took(a, transfers) + (IF t.from = a THEN t.amount ELSE 0)
          /\ Brought(a, transfers) \in Int /\ Took(a, transfers) \in Int
      BY <1>2, <1>3, <2>1, OneMore, Zenon
    <2>3. /\ Brought(a, transfers') = Brought(a, transfers) + (IF to = a THEN amount ELSE 0)
          /\ Took(a, transfers') = Took(a, transfers) + (IF from = a THEN amount ELSE 0)
      BY <1>2, <1>3, <2>2
    <2>4. balances[a] \in Int /\ balances[a] = Brought(a, transfers) - Took(a, transfers)
      BY DEF CoinTypes
    <2>5. CASE a = from
      BY <1>4, <2>2, <2>3, <2>4, <2>5
    <2>6. CASE a = to
      BY <1>4, <2>2, <2>3, <2>4, <2>6
    <2>7. CASE a # from /\ a # to
      BY <1>4, <2>2, <2>3, <2>4, <2>7
    <2>. QED  BY <2>5, <2>6, <2>7
  <1>. QED  BY <1>4, <1>5, <1>6, <1>7

\* Events of different kinds, travelers or pieces are different.
LEMMA EventsDiffer ==
  ASSUME NEW u \in Shoppers, NEW p, NEW v \in Shoppers, NEW q
  PROVE  /\ <<"cosmetic", u, p>> # <<"refund", v, q>> /\ <<"reward", u, p>> # <<"refund", v, q>>
         /\ <<"reward", u, p>> # <<"cosmetic", v, q>>
         /\ <<"cosmetic", u, p>> = <<"cosmetic", v, q>> => u = v /\ p = q
         /\ <<"refund", u, p>> = <<"refund", v, q>> => u = v /\ p = q
  OBVIOUS

\* What one more transfer makes known.
LEMMA PostTells ==
  ASSUME NEW event, NEW from, NEW to, NEW amount, PostTransfer(event, from, to, amount),
         \A t, s \in transfers : t.event = s.event => t = s
  PROVE  /\ \A t, s \in transfers' : t.event = s.event => t = s
         /\ \A e : Posted(e)' <=> Posted(e) \/ e = event
         /\ ~Posted(event)
         /\ \A t \in transfers' : \/ t \in transfers
                                  \/ t.event = event /\ t.from = from /\ t.to = to /\ t.amount = amount
  <1>1. PICK t : t = [event |-> event, from |-> from, to |-> to, amount |-> amount]
    OBVIOUS
  <1>2. t.from = from /\ t.to = to /\ t.amount = amount /\ t.event = event
    BY <1>1
  <1>3. transfers' = transfers \cup {t} /\ ~Posted(event)
    BY <1>1 DEF PostTransfer
  <1>4. \A s \in transfers : s.event # event
    BY <1>3 DEF Posted
  <1>5. \A s, x \in transfers' : s.event = x.event => s = x
    BY <1>2, <1>3, <1>4
  <1>6. ASSUME NEW e
        PROVE  Posted(e)' <=> Posted(e) \/ e = event
    BY <1>2, <1>3 DEF Posted
  <1>. QED  BY <1>2, <1>3, <1>5, <1>6

LEMMA EarnKeepsCoins ==
  ASSUME CoinInv, NEW u \in Shoppers, NEW n \in 1..Income, EarnCoins(u, n)
  PROVE  CoinInv'
  <1>. DEFINE event == <<"reward", u, n>>
  <1>1. event \in Events /\ "issuance" \in CoinAccounts /\ u \in CoinAccounts /\ "issuance" # u /\ CoinReward \in Nat
    BY Sold DEF Events, CoinAccounts
  <1>2. PostTransfer(event, "issuance", u, CoinReward)
    BY DEF EarnCoins
  <1>3. CoinTypes /\ TransfersTell /\ CoinBooks
    BY DEF CoinInv
  <1>4. \A v \in Shoppers, p \in Pieces : event # <<"cosmetic", v, p>> /\ event # <<"refund", v, p>>
    BY EventsDiffer
  <1>. HIDE DEF event
  <1>5. /\ \A a \in CoinAccounts : balances'[a] = Brought(a, transfers') - Took(a, transfers')
        /\ balances' \in [CoinAccounts -> Int]
        /\ \A a \in CoinAccounts \ {"issuance"} : balances'[a] >= 0
        /\ transfers' \subseteq Transfers /\ IsFiniteSet(transfers')
        /\ \A a \in CoinAccounts \ {"issuance", u} : balances'[a] = balances[a]
    BY <1>1, <1>2, <1>3, PostKeepsBooks DEF CoinBooks
  <1>6. /\ \A t, s \in transfers' : t.event = s.event => t = s
        /\ \A e : Posted(e)' <=> Posted(e) \/ e = event
        /\ \A t \in transfers' : t \in transfers \/ t.event = event
    BY <1>2, <1>3, PostTells DEF TransfersTell
  <1>7. UNCHANGED <<entitlements, spendKeys, refundKeys, refund>>
    BY DEF EarnCoins
  <1>8. CoinTypes'
    BY <1>3, <1>5, <1>7 DEF CoinTypes
  <1>9. TransfersTell'
    <2>1. \A t \in transfers' : \A v \in Shoppers, p \in Pieces :
            t.event = <<"cosmetic", v, p>> => t.from = v /\ t.to = "retired" /\ t.amount = PieceCost[p]
      BY <1>3, <1>4, <1>6, ZenonT(40) DEF TransfersTell
    <2>2. \A v \in Shoppers, p \in Pieces :
            /\ entitlements[v][p] = "held" => Posted(<<"cosmetic", v, p>>)'
            /\ Posted(<<"refund", v, p>>)' <=> entitlements[v][p] = "refunded"
      BY <1>3, <1>4, <1>6 DEF TransfersTell
    <2>. QED  BY <1>6, <1>7, <2>1, <2>2 DEF TransfersTell
  <1>10. CoinBooks'
    <2>1. "retired" \in CoinAccounts \ {"issuance", u}
      BY Sold DEF CoinAccounts
    <2>2. balances'["retired"] = SumFunctionOnSet(Worth, Holdings)
      BY <1>3, <1>5, <2>1 DEF CoinBooks
    <2>3. Holdings' = Holdings /\ Worth' = Worth
      BY <1>7 DEF Holdings, Worth
    <2>. QED  BY <1>5, <2>2, <2>3 DEF CoinBooks
  <1>. QED  BY <1>8, <1>9, <1>10 DEF CoinInv

LEMMA PurchaseKeepsCoins ==
  ASSUME CoinInv, NEW u \in Shoppers, NEW p \in Pieces, NEW k \in PurchaseKeys, PurchasePiece(u, p, k)
  PROVE  CoinInv'
  <1>. DEFINE event == <<"cosmetic", u, p>>
  <1>1. event \in Events /\ "retired" \in CoinAccounts /\ u \in CoinAccounts /\ "retired" # u /\ PieceCost[p] \in Nat
    BY Sold DEF Events, CoinAccounts
  <1>2. PostTransfer(event, u, "retired", PieceCost[p])
    BY DEF PurchasePiece
  <1>3. CoinTypes /\ TransfersTell /\ CoinBooks
    BY DEF CoinInv
  <1>4. \A v \in Shoppers, q \in Pieces :
          (event = <<"cosmetic", v, q>> => v = u /\ q = p) /\ event # <<"refund", v, q>>
    BY EventsDiffer
  <1>5. event = <<"cosmetic", u, p>>
    OBVIOUS
  <1>. HIDE DEF event
  <1>6. /\ \A a \in CoinAccounts : balances'[a] = Brought(a, transfers') - Took(a, transfers')
        /\ balances' \in [CoinAccounts -> Int]
        /\ \A a \in CoinAccounts \ {"issuance"} : balances'[a] >= 0
        /\ transfers' \subseteq Transfers /\ IsFiniteSet(transfers')
        /\ balances'["retired"] = balances["retired"] + PieceCost[p]
    BY <1>1, <1>2, <1>3, PostKeepsBooks DEF CoinBooks
  <1>7. /\ \A t, s \in transfers' : t.event = s.event => t = s
        /\ \A e : Posted(e)' <=> Posted(e) \/ e = event
        /\ \A t \in transfers' : \/ t \in transfers
                                 \/ t.event = event /\ t.from = u /\ t.to = "retired" /\ t.amount = PieceCost[p]
    BY <1>2, <1>3, PostTells DEF TransfersTell
  <1>8. /\ entitlements[u][p] = "none" /\ entitlements' = [entitlements EXCEPT ![u][p] = "held"]
        /\ spendKeys' = [spendKeys EXCEPT ![u][k] = p]
        /\ UNCHANGED <<refundKeys, refund>>
    BY DEF PurchasePiece
  <1>9. /\ entitlements' \in [Shoppers -> [Pieces -> {"none", "held", "refunded"}]]
        /\ entitlements'[u][p] = "held"
        /\ \A v \in Shoppers, q \in Pieces : v # u \/ q # p => entitlements'[v][q] = entitlements[v][q]
    BY <1>3, <1>8 DEF CoinTypes
  <1>10. CoinTypes'
    BY <1>3, <1>6, <1>8, <1>9 DEF CoinTypes
  <1>11. TransfersTell'
    <2>1. \A t \in transfers' : \A v \in Shoppers, q \in Pieces :
            t.event = <<"cosmetic", v, q>> => t.from = v /\ t.to = "retired" /\ t.amount = PieceCost[q]
      <3>1. TAKE t \in transfers'
      <3>2. TAKE v \in Shoppers, q \in Pieces
      <3>3. HAVE t.event = <<"cosmetic", v, q>>
      <3>4. CASE t \in transfers
        BY <1>3, <3>3, <3>4 DEF TransfersTell
      <3>5. CASE t.event = event /\ t.from = u /\ t.to = "retired" /\ t.amount = PieceCost[p]
        <4>1. v = u /\ q = p
          BY <1>4, <3>3, <3>5
        <4>. QED  BY <3>5, <4>1
      <3>. QED  BY <1>7, <3>4, <3>5
    <2>2. ASSUME NEW v \in Shoppers, NEW q \in Pieces
          PROVE  /\ entitlements'[v][q] = "held" => Posted(<<"cosmetic", v, q>>)'
                 /\ Posted(<<"refund", v, q>>)' <=> entitlements'[v][q] = "refunded"
      <3>1. CASE v = u /\ q = p
        BY <1>3, <1>4, <1>5, <1>7, <1>8, <1>9, <3>1 DEF TransfersTell
      <3>2. CASE v # u \/ q # p
        BY <1>3, <1>4, <1>7, <1>9, <3>2 DEF TransfersTell
      <3>. QED  BY <3>1, <3>2
    <2>. QED  BY <1>7, <2>1, <2>2 DEF TransfersTell
  <1>12. CoinBooks'
    <2>. DEFINE h == <<u, p>>
    <2>1. h \in Shoppers \X Pieces /\ h[1] = u /\ h[2] = p /\ h \notin Holdings
      BY <1>8 DEF Holdings
    <2>2. Holdings' = Holdings \cup {h}
      <3>1. \A x \in Shoppers \X Pieces : x \in Holdings' <=> x \in Holdings \cup {h}
        <4>1. TAKE x \in Shoppers \X Pieces
        <4>2. PICK v \in Shoppers, q \in Pieces : x = <<v, q>> /\ x[1] = v /\ x[2] = q
          OBVIOUS
        <4>3. x = h <=> v = u /\ q = p
          BY <4>2
        <4>. QED  BY <1>9, <4>2, <4>3 DEF Holdings
      <3>. QED  BY <2>1, <3>1 DEF Holdings
    <2>. HIDE DEF h
    <2>3. SumFunctionOnSet(Worth, Holdings \cup {h}) = Worth[h] + SumFunctionOnSet(Worth, Holdings)
      BY <2>1, HoldingsSum, SumWith
    <2>4. Worth[h] = PieceCost[p] /\ Worth' = Worth
      BY <2>1, HoldingsSum DEF Worth
    <2>5. balances["retired"] = SumFunctionOnSet(Worth, Holdings) /\ balances["retired"] \in Int
      BY <1>1, <1>3 DEF CoinBooks, CoinTypes
    <2>6. balances'["retired"] = SumFunctionOnSet(Worth, Holdings)'
      BY <1>1, <1>6, <2>2, <2>3, <2>4, <2>5
    <2>. QED  BY <1>6, <2>6 DEF CoinBooks
  <1>. QED  BY <1>10, <1>11, <1>12 DEF CoinInv

LEMMA LookUpKeepsCoins ==
  ASSUME CoinInv, NEW r \in Refunds, NEW u \in Shoppers, NEW p \in Pieces, NEW k \in PurchaseKeys,
         LookUpRefund(r, u, p, k)
  PROVE  CoinInv'
  <1>1. CoinTypes /\ TransfersTell /\ CoinBooks
    BY DEF CoinInv
  <1>2. /\ UNCHANGED <<balances, transfers, entitlements, spendKeys, refundKeys>>
        /\ refund' = [refund EXCEPT ![r] = [at |-> "looked", of |-> p, by |-> u, key |-> k]]
    BY DEF LookUpRefund
  <1>3. CoinTypes'
    <2>1. /\ refund' = [x \in Refunds |-> refund'[x]]
          /\ \A x \in Refunds : x # r => refund'[x] = refund[x]
          /\ refund'[r].by = u /\ refund'[r].of = p /\ refund'[r].key = k
      BY <1>1, <1>2 DEF CoinTypes
    <2>. QED  BY <1>1, <1>2, <2>1 DEF CoinTypes
  <1>4. TransfersTell'
    BY <1>1, <1>2, ZenonT(40) DEF TransfersTell, Posted
  <1>5. CoinBooks'
    <2>1. Holdings' = Holdings /\ Worth' = Worth
      BY <1>2 DEF Holdings, Worth
    <2>. QED  BY <1>1, <1>2, <2>1 DEF CoinBooks
  <1>. QED  BY <1>3, <1>4, <1>5 DEF CoinInv

\* A refund that finds its rows changed only ends.
LEMMA RefundEnds ==
  ASSUME CoinInv, NEW r \in Refunds, refund' = [refund EXCEPT ![r] = NoRefund],
         UNCHANGED <<balances, transfers, entitlements, spendKeys, refundKeys>>
  PROVE  CoinInv'
  <1>1. CoinTypes /\ TransfersTell /\ CoinBooks
    BY DEF CoinInv
  <1>2. CoinTypes'
    <2>1. /\ refund' = [x \in Refunds |-> refund'[x]]
          /\ \A x \in Refunds : x # r => refund'[x] = refund[x]
          /\ refund'[r].at # "looked"
      BY <1>1 DEF CoinTypes, NoRefund
    <2>. QED  BY <1>1, <2>1 DEF CoinTypes
  <1>3. TransfersTell'
    BY <1>1, ZenonT(40) DEF TransfersTell, Posted
  <1>4. CoinBooks'
    <2>1. Holdings' = Holdings /\ Worth' = Worth
      BY DEF Holdings, Worth
    <2>. QED  BY <1>1, <2>1 DEF CoinBooks
  <1>. QED  BY <1>2, <1>3, <1>4 DEF CoinInv

\* One that is paid gives back what the purchase took.
LEMMA RefundPays ==
  ASSUME CoinInv, NEW r \in Refunds, refund' = [refund EXCEPT ![r] = NoRefund],
         NEW u \in Shoppers, NEW p \in Pieces, NEW k \in PurchaseKeys, NEW source \in transfers,
         source.event = <<"cosmetic", u, p>>, entitlements[u][p] = "held",
         PostTransfer(<<"refund", u, p>>, source.to, source.from, source.amount),
         entitlements' = [entitlements EXCEPT ![u][p] = "refunded"],
         refundKeys' = [refundKeys EXCEPT ![k] = p], UNCHANGED spendKeys
  PROVE  CoinInv'
  <1>. DEFINE event == <<"refund", u, p>>
  <1>1. CoinTypes /\ TransfersTell /\ CoinBooks
    BY DEF CoinInv
  <1>2. source.from = u /\ source.to = "retired" /\ source.amount = PieceCost[p]
    BY <1>1 DEF TransfersTell
  <1>3. event \in Events /\ "retired" \in CoinAccounts /\ u \in CoinAccounts /\ "retired" # u /\ PieceCost[p] \in Nat
    BY Sold DEF Events, CoinAccounts
  <1>4. PostTransfer(event, "retired", u, PieceCost[p])
    BY <1>2
  <1>5. \A v \in Shoppers, q \in Pieces :
          (event = <<"refund", v, q>> => v = u /\ q = p) /\ event # <<"cosmetic", v, q>>
    BY EventsDiffer
  <1>6. event = <<"refund", u, p>>
    OBVIOUS
  <1>. HIDE DEF event
  <1>7. /\ \A a \in CoinAccounts : balances'[a] = Brought(a, transfers') - Took(a, transfers')
        /\ balances' \in [CoinAccounts -> Int]
        /\ \A a \in CoinAccounts \ {"issuance"} : balances'[a] >= 0
        /\ transfers' \subseteq Transfers /\ IsFiniteSet(transfers')
        /\ balances'["retired"] = balances["retired"] - PieceCost[p]
    BY <1>1, <1>3, <1>4, PostKeepsBooks DEF CoinBooks
  <1>8. /\ \A t, s \in transfers' : t.event = s.event => t = s
        /\ \A e : Posted(e)' <=> Posted(e) \/ e = event
        /\ \A t \in transfers' : t \in transfers \/ t.event = event
    BY <1>1, <1>4, PostTells DEF TransfersTell
  <1>9. /\ entitlements' \in [Shoppers -> [Pieces -> {"none", "held", "refunded"}]]
        /\ entitlements'[u][p] = "refunded"
        /\ \A v \in Shoppers, q \in Pieces : v # u \/ q # p => entitlements'[v][q] = entitlements[v][q]
    BY <1>1 DEF CoinTypes
  <1>10. CoinTypes'
    <2>1. /\ refund' = [x \in Refunds |-> refund'[x]]
          /\ \A x \in Refunds : x # r => refund'[x] = refund[x]
          /\ refund'[r].at # "looked"
      BY <1>1 DEF CoinTypes, NoRefund
    <2>2. refundKeys' \in [PurchaseKeys -> Pieces \cup {NoItem}]
      BY <1>1 DEF CoinTypes
    <2>. QED  BY <1>1, <1>7, <1>9, <2>1, <2>2 DEF CoinTypes
  <1>11. TransfersTell'
    <2>1. \A t \in transfers' : \A v \in Shoppers, q \in Pieces :
            t.event = <<"cosmetic", v, q>> => t.from = v /\ t.to = "retired" /\ t.amount = PieceCost[q]
      BY <1>1, <1>5, <1>8 DEF TransfersTell
    <2>2. ASSUME NEW v \in Shoppers, NEW q \in Pieces
          PROVE  /\ entitlements'[v][q] = "held" => Posted(<<"cosmetic", v, q>>)'
                 /\ Posted(<<"refund", v, q>>)' <=> entitlements'[v][q] = "refunded"
      <3>1. CASE v = u /\ q = p
        BY <1>6, <1>8, <1>9, <3>1
      <3>2. CASE v # u \/ q # p
        BY <1>1, <1>5, <1>8, <1>9, <3>2 DEF TransfersTell
      <3>. QED  BY <3>1, <3>2
    <2>. QED  BY <1>8, <2>1, <2>2 DEF TransfersTell
  <1>12. CoinBooks'
    <2>. DEFINE h == <<u, p>>
    <2>1. h \in Holdings /\ h[1] = u /\ h[2] = p
      BY DEF Holdings
    <2>2. Holdings' = Holdings \ {h}
      <3>1. \A x \in Shoppers \X Pieces : x \in Holdings' <=> x \in Holdings \ {h}
        <4>1. TAKE x \in Shoppers \X Pieces
        <4>2. PICK v \in Shoppers, q \in Pieces : x = <<v, q>> /\ x[1] = v /\ x[2] = q
          OBVIOUS
        <4>3. x = h <=> v = u /\ q = p
          BY <4>2
        <4>. QED  BY <1>9, <4>2, <4>3 DEF Holdings
      <3>. QED  BY <3>1 DEF Holdings
    <2>. HIDE DEF h
    <2>3. SumFunctionOnSet(Worth, Holdings) = Worth[h] + SumFunctionOnSet(Worth, Holdings \ {h})
      BY <2>1, HoldingsSum, SumWithout
    <2>4. Worth[h] = PieceCost[p] /\ Worth' = Worth
      BY <2>1, HoldingsSum DEF Worth
    <2>5. balances["retired"] = SumFunctionOnSet(Worth, Holdings) /\ balances["retired"] \in Int
      BY <1>1, <1>3 DEF CoinBooks, CoinTypes
    <2>6. SumFunctionOnSet(Worth, Holdings \ {h}) \in Int
      <3>1. IsFiniteSet(Holdings \ {h}) /\ \A x \in Holdings \ {h} : Worth[x] \in Int
        BY HoldingsSum, FS_Subset
      <3>. QED  BY <3>1, SumIsInt
    <2>7. balances'["retired"] = SumFunctionOnSet(Worth, Holdings)'
      BY <1>3, <1>7, <2>2, <2>3, <2>4, <2>5, <2>6
    <2>. QED  BY <1>7, <2>7 DEF CoinBooks
  <1>. QED  BY <1>10, <1>11, <1>12 DEF CoinInv

LEMMA RefundKeepsCoins ==
  ASSUME CoinInv, NEW r \in Refunds, RefundPiece(r)
  PROVE  CoinInv'
  <1>. DEFINE u == refund[r].by
              p == refund[r].of
              k == refund[r].key
              source == CHOOSE t \in transfers : t.event = <<"cosmetic", u, p>>
              paid == entitlements[u][p] = "held" /\ refundKeys[k] = NoItem /\ balances["retired"] >= source.amount
  <1>1. /\ u \in Shoppers /\ p \in Pieces /\ k \in PurchaseKeys
        /\ refund' = [refund EXCEPT ![r] = NoRefund] /\ UNCHANGED spendKeys
    BY DEF RefundPiece, CoinInv, CoinTypes
  <1>2. CASE ~paid
    <2>1. UNCHANGED <<balances, transfers, entitlements, spendKeys, refundKeys>>
      BY <1>2 DEF RefundPiece
    <2>. QED  BY <1>1, <2>1, RefundEnds
  <1>3. CASE paid
    <2>1. /\ PostTransfer(<<"refund", u, p>>, source.to, source.from, source.amount)
          /\ entitlements' = [entitlements EXCEPT ![u][p] = "refunded"]
          /\ refundKeys' = [refundKeys EXCEPT ![k] = p]
      BY <1>3 DEF RefundPiece
    <2>2. Posted(<<"cosmetic", u, p>>)
      BY <1>1, <1>3 DEF CoinInv, TransfersTell
    <2>3. source \in transfers /\ source.event = <<"cosmetic", u, p>>
      BY <2>2 DEF Posted
    <2>4. entitlements[u][p] = "held"
      BY <1>3
    <2>. HIDE DEF u, p, k, source, paid
    <2>. QED  BY <1>1, <2>1, <2>3, <2>4, RefundPays
  <1>. QED  BY <1>2, <1>3

LEMMA CoinStepKeeps ==
  ASSUME CoinInv, CoinStep
  PROVE  CoinInv'
  <1>1. CASE \E u \in Shoppers : \E n \in 1..Income : EarnCoins(u, n)
    BY <1>1, EarnKeepsCoins
  <1>2. ASSUME NEW u \in Shoppers, NEW p \in Pieces, NEW k \in PurchaseKeys,
               PurchasePiece(u, p, k) \/ \E r \in Refunds : LookUpRefund(r, u, p, k)
        PROVE  CoinInv'
    BY <1>2, PurchaseKeepsCoins, LookUpKeepsCoins
  <1>3. CASE \E r \in Refunds : RefundPiece(r)
    BY <1>3, RefundKeepsCoins
  <1>. QED  BY <1>1, <1>2, <1>3 DEF CoinStep

LEMMA CoinsUntouched ==
  ASSUME CoinInv, UNCHANGED coinVars
  PROVE  CoinInv'
  <1>1. UNCHANGED <<balances, transfers, entitlements, spendKeys, refundKeys, refund>>
    BY DEF coinVars
  <1>2. Holdings' = Holdings /\ Worth' = Worth
    BY <1>1 DEF Holdings, Worth
  <1>3. CoinTypes' /\ TransfersTell'
    BY <1>1, ZenonT(40) DEF CoinInv, CoinTypes, TransfersTell, Posted
  <1>4. CoinBooks'
    BY <1>1, <1>2 DEF CoinInv, CoinBooks
  <1>. QED  BY <1>3, <1>4 DEF CoinInv

LEMMA CoinsAtFirst ==
  ASSUME CosmeticsInit
  PROVE  CoinInv
  <1>1. CoinTypes
    BY FS_EmptySet DEF CosmeticsInit, CoinTypes, NoRefund
  <1>2. TransfersTell
    BY DEF CosmeticsInit, TransfersTell, Posted
  <1>3. Holdings = {}
    BY DEF CosmeticsInit, Holdings
  <1>4. \A a \in CoinAccounts : Brought(a, {}) = 0 /\ Took(a, {}) = 0
    BY SumOfEmpty DEF Brought, Took
  <1>5. CoinBooks
    <2>1. "retired" \in CoinAccounts
      BY DEF CoinAccounts
    <2>2. transfers = {} /\ \A a \in CoinAccounts : balances[a] = 0
      BY DEF CosmeticsInit
    <2>. QED  BY <1>3, <1>4, <2>1, <2>2, SumOfEmpty DEF CoinBooks
  <1>. QED  BY <1>1, <1>2, <1>5 DEF CoinInv

LEMMA RefundsOnce ==
  ASSUME CoinTypes, TransfersTell, NEW u \in Shoppers, NEW p \in Pieces
  PROVE  Cardinality({t \in transfers : t.event[1] = "refund" /\ t.event[2] = u /\ t.event[3] = p}) =
           (IF entitlements[u][p] = "refunded" THEN 1 ELSE 0)
  <1>. DEFINE Repaid == {t \in transfers : t.event[1] = "refund" /\ t.event[2] = u /\ t.event[3] = p}
  <1>1. \A t \in transfers : t \in Repaid <=> t.event = <<"refund", u, p>>
    <2>1. TAKE t \in transfers
    <2>2. t.event \in Events
      BY DEF CoinTypes, Transfers
    <2>3. PICK kind \in {"reward", "cosmetic", "refund"} : \E v, q : t.event = <<kind, v, q>>
      BY <2>2 DEF Events
    <2>4. PICK v, q : t.event = <<kind, v, q>>
      BY <2>3
    <2>5. t.event[1] = kind /\ t.event[2] = v /\ t.event[3] = q
      BY <2>4
    <2>6. t.event = <<"refund", u, p>> <=> kind = "refund" /\ v = u /\ q = p
      BY <2>4
    <2>. QED  BY <2>5, <2>6
  <1>2. CASE entitlements[u][p] = "refunded"
    <2>1. PICK t \in transfers : t.event = <<"refund", u, p>>
      BY <1>2 DEF TransfersTell, Posted
    <2>2. \A s \in Repaid : s = t
      BY <1>1, <2>1 DEF TransfersTell
    <2>3. Repaid = {t}
      BY <1>1, <2>1, <2>2
    <2>. QED  BY <1>2, <2>3, FS_Singleton
  <1>3. CASE entitlements[u][p] # "refunded"
    <2>1. Repaid = {}
      BY <1>1, <1>3 DEF TransfersTell, Posted
    <2>. QED  BY <1>3, <2>1, FS_EmptySet
  <1>. QED  BY <1>2, <1>3

LEMMA BroughtInSum ==
  ASSUME NEW a, NEW S
  PROVE  Brought(a, S) = MapThenSumSet(LAMBDA t : IF t.to = a THEN t.amount ELSE 0, S)
  BY ZenonT(40) DEF Brought, MapThenSumSet, MapThenFoldSet, SumFunctionOnSet, FoldFunctionOnSet

LEMMA TookInSum ==
  ASSUME NEW a, NEW S
  PROVE  Took(a, S) = MapThenSumSet(LAMBDA t : IF t.from = a THEN t.amount ELSE 0, S)
  BY ZenonT(40) DEF Took, MapThenSumSet, MapThenFoldSet, SumFunctionOnSet, FoldFunctionOnSet

LEMMA MovedIsBooks ==
  ASSUME NEW a
  PROVE  Moved(a) = Brought(a, transfers) - Took(a, transfers)
  BY BroughtInSum, TookInSum DEF Moved

LEMMA WorthInSum ==
  ASSUME NEW S \in SUBSET (Shoppers \X Pieces)
  PROVE  SumFunctionOnSet(Worth, S) = MapThenSumSet(LAMBDA h : PieceCost[h[2]], S)
  BY ZenonT(40) DEF Worth, MapThenSumSet, MapThenFoldSet, SumFunctionOnSet, FoldFunctionOnSet

LEMMA HeldPrice ==
  SumFunctionOnSet(Worth, Holdings) =
    MapThenSumSet(LAMBDA h : PieceCost[h[2]],
      {h \in Shoppers \X Pieces : entitlements[h[1]][h[2]] = "held"})
  <1>1. Holdings \in SUBSET (Shoppers \X Pieces)
    BY DEF Holdings
  <1>. QED  BY <1>1, WorthInSum DEF Holdings

LEMMA CoinsAccounted ==
  ASSUME CoinInv
  PROVE  CoinsAccountedFor
  <1>1. AccountDrift = {}
    BY MovedIsBooks DEF CoinInv, CoinBooks, AccountDrift
  <1>2. \A u \in Shoppers, p \in Pieces :
          Cardinality({t \in transfers : t.event[1] = "refund" /\ t.event[2] = u /\ t.event[3] = p}) =
            (IF entitlements[u][p] = "refunded" THEN 1 ELSE 0)
    BY RefundsOnce DEF CoinInv
  <1>. QED  BY <1>1, <1>2, HeldPrice DEF CoinInv, CoinBooks, CoinsAccountedFor

-----------------------------------------------------------------------------
(* Cosmetics: the shop *)

ClosetRows == [source : {"none", "purchase", "achievement", "grant"}, spent : Nat,
               key : PurchaseKeys \cup {NoItem}]
Outfits == [Slots -> Items \cup {NoItem}]

\* The sum of what was spent for what is in the closets.
SpentFor == [h \in Shoppers \X Items |-> closet[h[1]][h[2]].spent]

ShopTypes ==
  /\ purse \in [Shoppers -> Nat] /\ takings \in Nat
  /\ stock \in [Items -> StockRows]
  /\ closet \in [Shoppers -> [Items -> ClosetRows]]
  /\ badges \in [Shoppers -> SUBSET BadgeItems]
  /\ worn \in [Shoppers -> Outfits]
  /\ wear = [r \in Wears |-> wear[r]]
  /\ \A r \in Wears : wear[r].at = "read" => wear[r].by \in Shoppers /\ wear[r].next \in Outfits

\* What somebody wears, or a request is about to save, is owned.
WornIsOwned ==
  /\ \A u \in Shoppers, s \in Slots : worn[u][s] # NoItem => closet[u][worn[u][s]] # NotOwned
  /\ \A r \in Wears, s \in Slots :
       wear[r].at = "read" /\ wear[r].next[s] # NoItem =>
         closet[wear[r].by][wear[r].next[s]] # NotOwned

ShopInv == ShopTypes /\ WornIsOwned /\ takings = SumFunctionOnSet(SpentFor, Shoppers \X Items)

LEMMA ClosetRowFields ==
  /\ NotOwned \in ClosetRows /\ NotOwned.spent = 0
  /\ \A entry \in ClosetRows : entry.spent \in Nat /\ entry.source \in {"none", "purchase", "achievement", "grant"}
  /\ \A entry \in StockRows : entry.price \in Nat \ {0}
  BY Sold DEF NotOwned, ClosetRows, StockRows

LEMMA SpentIsInt ==
  ASSUME ShopTypes
  PROVE  /\ IsFiniteSet(Shoppers \X Items)
         /\ \A h \in Shoppers \X Items : SpentFor[h] = closet[h[1]][h[2]].spent /\ SpentFor[h] \in Nat
  <1>1. IsFiniteSet(Shoppers \X Items)
    BY Sold, FS_Product
  <1>2. \A h \in Shoppers \X Items : closet[h[1]][h[2]] \in ClosetRows
    BY DEF ShopTypes
  <1>. QED  BY <1>1, <1>2, ClosetRowFields DEF SpentFor

\* Steps that give, and take nothing away and no points, keep the treasury and the outfits.
LEMMA GiftsKeepShop ==
  ASSUME ShopInv, UNCHANGED <<takings, worn, wear>>, ShopTypes',
         \A u \in Shoppers, i \in Items :
           /\ closet[u][i] # NotOwned => closet'[u][i] # NotOwned
           /\ closet'[u][i].spent = closet[u][i].spent
  PROVE  ShopInv'
  <1>1. ShopTypes /\ WornIsOwned /\ takings = SumFunctionOnSet(SpentFor, Shoppers \X Items)
    BY DEF ShopInv
  <1>2. \A h \in Shoppers \X Items : SpentFor'[h] = SpentFor[h]
    <2>1. TAKE h \in Shoppers \X Items
    <2>2. h[1] \in Shoppers /\ h[2] \in Items
      OBVIOUS
    <2>. QED  BY <2>2 DEF SpentFor
  <1>3. SumFunctionOnSet(SpentFor', Shoppers \X Items) = SumFunctionOnSet(SpentFor, Shoppers \X Items)
    BY <1>1, <1>2, SpentIsInt, SumOfEqual
  <1>4. \A u \in Shoppers, s \in Slots : worn[u][s] # NoItem => closet'[u][worn[u][s]] # NotOwned
    <2>1. TAKE u \in Shoppers, s \in Slots
    <2>2. worn[u][s] \in Items \cup {NoItem}
      BY <1>1 DEF ShopTypes, Outfits
    <2>. QED  BY <1>1, <2>2 DEF WornIsOwned
  <1>5. ASSUME NEW r \in Wears, NEW s \in Slots, wear[r].at = "read", wear[r].next[s] # NoItem
        PROVE  closet'[wear[r].by][wear[r].next[s]] # NotOwned
    <2>1. wear[r].by \in Shoppers /\ wear[r].next[s] \in Items
      BY <1>1, <1>5 DEF ShopTypes, Outfits
    <2>. QED  BY <1>1, <1>5, <2>1 DEF WornIsOwned
  <1>6. WornIsOwned'
    BY <1>4, <1>5 DEF WornIsOwned, NotOwned
  <1>. QED  BY <1>1, <1>3, <1>6 DEF ShopInv

LEMMA GivenKeepsShop ==
  ASSUME ShopInv, NEW u \in Shoppers, NEW given, NEW source \in {"achievement", "grant"},
         closet' = [closet EXCEPT ![u] = GivenTo(u, given, source)],
         UNCHANGED <<purse, takings, stock, badges, worn, wear>>
  PROVE  ShopInv'
  <1>1. ShopTypes
    BY DEF ShopInv
  <1>2. PICK gift : gift = [NotOwned EXCEPT !.source = source]
    OBVIOUS
  <1>3. gift \in ClosetRows /\ gift # NotOwned /\ gift.spent = 0
    BY <1>2 DEF NotOwned, ClosetRows
  <1>4. GivenTo(u, given, source) =
          [i \in Items |-> IF i \in given /\ closet[u][i] = NotOwned THEN gift ELSE closet[u][i]]
    BY <1>2 DEF GivenTo
  <1>5. GivenTo(u, given, source) \in [Items -> ClosetRows]
    BY <1>1, <1>3, <1>4 DEF ShopTypes
  <1>6. ShopTypes'
    BY <1>1, <1>5 DEF ShopTypes
  <1>7. ASSUME NEW v \in Shoppers, NEW i \in Items
        PROVE  /\ closet[v][i] # NotOwned => closet'[v][i] # NotOwned
               /\ closet'[v][i].spent = closet[v][i].spent
    <2>1. CASE v = u
      BY <1>1, <1>3, <1>4, <2>1, ClosetRowFields DEF ShopTypes
    <2>2. CASE v # u
      BY <1>1, <2>2 DEF ShopTypes
    <2>. QED  BY <2>1, <2>2
  <1>. QED  BY <1>6, <1>7, GiftsKeepShop

LEMMA PurchaseKeepsShop ==
  ASSUME ShopInv, NEW u \in Shoppers, NEW i \in Items, NEW k \in PurchaseKeys, PurchaseItem(u, i, k)
  PROVE  ShopInv'
  <1>1. ShopTypes /\ WornIsOwned /\ takings = SumFunctionOnSet(SpentFor, Shoppers \X Items)
    BY DEF ShopInv
  <1>2. PICK price \in Nat \ {0} : price = stock[i].price
    BY <1>1, ClosetRowFields DEF ShopTypes
  <1>3. PICK entry : entry = [source |-> "purchase", spent |-> price, key |-> k]
    OBVIOUS
  <1>4. entry \in ClosetRows /\ entry # NotOwned /\ entry.spent = price
    BY <1>3 DEF ClosetRows, NotOwned
  <1>5. /\ closet[u][i] = NotOwned /\ purse[u] >= price
        /\ purse' = [purse EXCEPT ![u] = @ - price] /\ takings' = takings + price
        /\ closet' = [closet EXCEPT ![u][i] = entry]
        /\ UNCHANGED <<stock, badges, worn, wear>>
    BY <1>2, <1>3 DEF PurchaseItem
  <1>6. /\ closet' \in [Shoppers -> [Items -> ClosetRows]] /\ closet'[u][i] = entry
        /\ \A v \in Shoppers, j \in Items : v # u \/ j # i => closet'[v][j] = closet[v][j]
    BY <1>1, <1>4, <1>5 DEF ShopTypes
  <1>7. ShopTypes'
    <2>1. purse' \in [Shoppers -> Nat] /\ takings' \in Nat
      BY <1>1, <1>5 DEF ShopTypes
    <2>. QED  BY <1>1, <1>5, <1>6, <2>1 DEF ShopTypes
  <1>8. takings' = SumFunctionOnSet(SpentFor', Shoppers \X Items)
    <2>. DEFINE h == <<u, i>>
    <2>1. h \in Shoppers \X Items /\ h[1] = u /\ h[2] = i
      OBVIOUS
    <2>2. /\ IsFiniteSet(Shoppers \X Items)
          /\ \A x \in Shoppers \X Items : SpentFor[x] \in Int
      BY <1>1, SpentIsInt
    <2>3. \A x \in Shoppers \X Items : SpentFor'[x] = closet'[x[1]][x[2]].spent /\ SpentFor'[x] \in Int
      <3>1. \A x \in Shoppers \X Items : closet'[x[1]][x[2]] \in ClosetRows
        BY <1>6
      <3>. QED  BY <3>1, ClosetRowFields DEF SpentFor
    <2>4. \A x \in (Shoppers \X Items) \ {h} : SpentFor'[x] = SpentFor[x]
      <3>1. TAKE x \in (Shoppers \X Items) \ {h}
      <3>2. x[1] \in Shoppers /\ x[2] \in Items /\ (x[1] # u \/ x[2] # i)
        OBVIOUS
      <3>. QED  BY <1>6, <3>2 DEF SpentFor
    <2>5. SpentFor[h] = 0 /\ SpentFor'[h] = price
      BY <1>1, <1>4, <1>5, <1>6, <2>1, <2>3, SpentIsInt, ClosetRowFields
    <2>. HIDE DEF h
    <2>6. SumFunctionOnSet(SpentFor', Shoppers \X Items) =
            SumFunctionOnSet(SpentFor, Shoppers \X Items) + SpentFor'[h] - SpentFor[h]
      BY <2>1, <2>2, <2>3, <2>4, SumUpdated
    <2>7. takings \in Nat
      BY <1>1 DEF ShopTypes
    <2>. QED  BY <1>1, <1>5, <2>5, <2>6, <2>7
  <1>9. WornIsOwned'
    <2>1. \A v \in Shoppers, j \in Items : closet[v][j] # NotOwned => closet'[v][j] # NotOwned
      BY <1>4, <1>6
    <2>2. \A v \in Shoppers, s \in Slots : worn[v][s] # NoItem => closet'[v][worn[v][s]] # NotOwned
      <3>1. TAKE v \in Shoppers, s \in Slots
      <3>2. worn[v][s] \in Items \cup {NoItem}
        BY <1>1 DEF ShopTypes, Outfits
      <3>. QED  BY <1>1, <2>1, <3>2 DEF WornIsOwned
    <2>3. ASSUME NEW r \in Wears, NEW s \in Slots, wear[r].at = "read", wear[r].next[s] # NoItem
          PROVE  closet'[wear[r].by][wear[r].next[s]] # NotOwned
      <3>1. wear[r].by \in Shoppers /\ wear[r].next[s] \in Items
        BY <1>1, <2>3 DEF ShopTypes, Outfits
      <3>. QED  BY <1>1, <2>1, <2>3, <3>1 DEF WornIsOwned
    <2>. QED  BY <1>5, <2>2, <2>3 DEF WornIsOwned, NotOwned
  <1>. QED  BY <1>7, <1>8, <1>9 DEF ShopInv

LEMMA BeginWearKeepsShop ==
  ASSUME ShopInv, NEW r \in Wears, NEW u \in Shoppers, NEW slot \in Slots, NEW i \in Items \cup {NoItem},
         BeginWear(r, u, slot, i)
  PROVE  ShopInv'
  <1>1. ShopTypes /\ WornIsOwned /\ takings = SumFunctionOnSet(SpentFor, Shoppers \X Items)
    BY DEF ShopInv
  <1>2. PICK next : next = [worn[u] EXCEPT ![slot] = i]
    OBVIOUS
  <1>3. next \in Outfits /\ next[slot] = i /\ \A s \in Slots \ {slot} : next[s] = worn[u][s]
    BY <1>1, <1>2 DEF ShopTypes, Outfits
  <1>4. PICK entry : entry = [at |-> "read", by |-> u, next |-> next]
    OBVIOUS
  <1>5. entry.at = "read" /\ entry.by = u /\ entry.next = next
    BY <1>4
  <1>6. /\ wear' = [wear EXCEPT ![r] = entry]
        /\ i # NoItem => closet[u][i] # NotOwned
        /\ UNCHANGED <<purse, takings, stock, closet, badges, worn>>
    BY <1>2, <1>4 DEF BeginWear
  <1>7. wear' = [x \in Wears |-> wear'[x]] /\ wear'[r] = entry /\ \A x \in Wears \ {r} : wear'[x] = wear[x]
    BY <1>1, <1>6 DEF ShopTypes
  <1>8. ShopTypes'
    BY <1>1, <1>3, <1>5, <1>6, <1>7 DEF ShopTypes
  <1>9. WornIsOwned'
    <2>1. \A s \in Slots : next[s] # NoItem => closet[u][next[s]] # NotOwned
      BY <1>1, <1>3, <1>6 DEF WornIsOwned
    <2>2. \A x \in Wears, s \in Slots : wear'[x].at = "read" /\ wear'[x].next[s] # NoItem =>
            closet[wear'[x].by][wear'[x].next[s]] # NotOwned
      BY <1>1, <1>5, <1>7, <2>1 DEF WornIsOwned
    <2>. QED  BY <1>1, <1>6, <2>2 DEF WornIsOwned, NotOwned
  <1>10. SpentFor' = SpentFor
    BY <1>6 DEF SpentFor
  <1>. QED  BY <1>1, <1>6, <1>8, <1>9, <1>10 DEF ShopInv

LEMMA SaveWearKeepsShop ==
  ASSUME ShopInv, NEW r \in Wears, SaveWear(r)
  PROVE  ShopInv'
  <1>1. ShopTypes /\ WornIsOwned /\ takings = SumFunctionOnSet(SpentFor, Shoppers \X Items)
    BY DEF ShopInv
  <1>2. PICK u \in Shoppers, next \in Outfits : wear[r].by = u /\ wear[r].next = next
    BY <1>1 DEF ShopTypes, SaveWear
  <1>3. /\ wear[r].at = "read" /\ worn' = [worn EXCEPT ![u] = next]
        /\ wear' = [wear EXCEPT ![r] = NoWear]
        /\ UNCHANGED <<purse, takings, stock, closet, badges>>
    BY <1>2 DEF SaveWear
  <1>4. worn' \in [Shoppers -> Outfits] /\ worn'[u] = next /\ \A v \in Shoppers \ {u} : worn'[v] = worn[v]
    BY <1>1, <1>2, <1>3 DEF ShopTypes
  <1>5. /\ wear' = [x \in Wears |-> wear'[x]] /\ wear'[r].at # "read"
        /\ \A x \in Wears \ {r} : wear'[x] = wear[x]
    BY <1>1, <1>3 DEF ShopTypes, NoWear
  <1>6. ShopTypes'
    BY <1>1, <1>3, <1>4, <1>5 DEF ShopTypes
  <1>7. WornIsOwned'
    <2>1. \A s \in Slots : next[s] # NoItem => closet[u][next[s]] # NotOwned
      BY <1>1, <1>2, <1>3 DEF WornIsOwned
    <2>2. \A v \in Shoppers, s \in Slots : worn'[v][s] # NoItem => closet[v][worn'[v][s]] # NotOwned
      BY <1>1, <1>4, <2>1 DEF WornIsOwned
    <2>3. \A x \in Wears, s \in Slots : wear'[x].at = "read" /\ wear'[x].next[s] # NoItem =>
            closet[wear'[x].by][wear'[x].next[s]] # NotOwned
      BY <1>1, <1>5 DEF WornIsOwned
    <2>. QED  BY <1>3, <2>2, <2>3 DEF WornIsOwned, NotOwned
  <1>8. SpentFor' = SpentFor
    BY <1>3 DEF SpentFor
  <1>. QED  BY <1>1, <1>3, <1>6, <1>7, <1>8 DEF ShopInv

LEMMA ShopStepKeeps ==
  ASSUME ShopInv, ShopStep
  PROVE  ShopInv'
  <1>1. ShopTypes
    BY DEF ShopInv
  <1>2. ASSUME NEW u \in Shoppers, EarnPoints(u)
        PROVE  ShopInv'
    <2>1. ShopTypes'
      BY <1>1, <1>2 DEF ShopTypes, EarnPoints
    <2>. QED  BY <1>2, <2>1, GiftsKeepShop DEF EarnPoints
  <1>3. ASSUME NEW u \in Shoppers, GrantAchievementCosmetics(u)
        PROVE  ShopInv'
    BY <1>3, GivenKeepsShop DEF GrantAchievementCosmetics
  <1>4. ASSUME NEW u \in Shoppers, NEW i \in BadgeItems, AwardBadge(u, i)
        PROVE  ShopInv'
    <2>1. badges' \in [Shoppers -> SUBSET BadgeItems]
      BY <1>1, <1>4 DEF ShopTypes, AwardBadge
    <2>2. UNCHANGED <<purse, takings, stock, closet, worn, wear>>
      BY <1>4 DEF AwardBadge
    <2>3. ShopTypes'
      BY <1>1, <2>1, <2>2 DEF ShopTypes
    <2>. QED  BY <2>2, <2>3, GiftsKeepShop
  <1>5. ASSUME NEW u \in Shoppers, NEW i \in Items, GrantItem(u, i)
        PROVE  ShopInv'
    BY <1>5, GivenKeepsShop DEF GrantItem
  <1>6. ASSUME NEW u \in Shoppers, NEW i \in Items, NEW k \in PurchaseKeys, PurchaseItem(u, i, k)
        PROVE  ShopInv'
    BY <1>6, PurchaseKeepsShop
  <1>7. ASSUME NEW i \in Items, NEW item \in StockRows, PatchItem(i, item)
        PROVE  ShopInv'
    <2>1. UNCHANGED <<purse, takings, closet, badges, worn, wear>> /\ stock' = [stock EXCEPT ![i] = item]
      BY <1>7 DEF PatchItem
    <2>2. ShopTypes'
      BY <1>1, <2>1 DEF ShopTypes
    <2>. QED  BY <2>1, <2>2, GiftsKeepShop
  <1>8. ASSUME NEW r \in Wears, NEW u \in Shoppers, NEW slot \in Slots, NEW i \in Items \cup {NoItem},
               BeginWear(r, u, slot, i)
        PROVE  ShopInv'
    BY <1>8, BeginWearKeepsShop
  <1>9. ASSUME NEW r \in Wears, SaveWear(r)
        PROVE  ShopInv'
    BY <1>9, SaveWearKeepsShop
  <1>. QED  BY <1>2, <1>3, <1>4, <1>5, <1>6, <1>7, <1>8, <1>9 DEF ShopStep

LEMMA ShopUntouched ==
  ASSUME ShopInv, UNCHANGED shopVars
  PROVE  ShopInv'
  <1>1. UNCHANGED <<purse, takings, stock, closet, badges, worn, wear>>
    BY DEF shopVars
  <1>2. ShopTypes'
    BY <1>1 DEF ShopInv, ShopTypes
  <1>. QED  BY <1>1, <1>2, GiftsKeepShop

LEMMA ShopAtFirst ==
  ASSUME CosmeticsInit
  PROVE  ShopInv
  <1>1. ShopTypes
    <2>1. /\ purse \in [Shoppers -> Nat] /\ takings \in Nat
          /\ stock \in [Items -> StockRows] /\ badges \in [Shoppers -> SUBSET BadgeItems]
      BY DEF CosmeticsInit
    <2>2. closet \in [Shoppers -> [Items -> ClosetRows]]
      BY ClosetRowFields DEF CosmeticsInit
    <2>3. worn \in [Shoppers -> Outfits]
      BY DEF CosmeticsInit, NoWear, Outfits
    <2>4. wear = [r \in Wears |-> wear[r]] /\ \A r \in Wears : wear[r].at # "read"
      BY DEF CosmeticsInit, NoWear
    <2>. QED  BY <2>1, <2>2, <2>3, <2>4 DEF ShopTypes
  <1>2. WornIsOwned
    <2>1. \A u \in Shoppers, s \in Slots : worn[u][s] = NoItem
      BY DEF CosmeticsInit, NoWear
    <2>2. \A r \in Wears : wear[r].at # "read"
      BY DEF CosmeticsInit, NoWear
    <2>. QED  BY <2>1, <2>2 DEF WornIsOwned
  <1>3. SumFunctionOnSet(SpentFor, Shoppers \X Items) = 0
    <2>1. \A h \in Shoppers \X Items : SpentFor[h] = 0
      <3>1. TAKE h \in Shoppers \X Items
      <3>2. h[1] \in Shoppers /\ h[2] \in Items
        OBVIOUS
      <3>. QED  BY <3>2, ClosetRowFields DEF SpentFor, CosmeticsInit
    <2>2. IsFiniteSet(Shoppers \X Items) /\ Cardinality(Shoppers \X Items) \in Nat
      BY <1>1, SpentIsInt, FS_CardinalityType
    <2>3. SumFunctionOnSet(SpentFor, Shoppers \X Items) = 0 * Cardinality(Shoppers \X Items)
      BY <2>1, <2>2, SumOfConstant
    <2>. QED  BY <2>2, <2>3
  <1>. QED  BY <1>1, <1>2, <1>3 DEF CosmeticsInit, ShopInv

LEMMA SpentInSum ==
  ASSUME NEW S \in SUBSET (Shoppers \X Items)
  PROVE  SumFunctionOnSet(SpentFor, S) = MapThenSumSet(LAMBDA h : closet[h[1]][h[2]].spent, S)
  BY ZenonT(40) DEF SpentFor, MapThenSumSet, MapThenFoldSet, SumFunctionOnSet, FoldFunctionOnSet

\* The types, and that both stores account for what they sold, gave away and took back:
\* accounts hold what transfers moved, the retired coins are the price of the pieces
\* still held, a refund is paid at most once whatever its requests read before, the
\* treasury holds what owners paid, and only what is owned is worn.
THEOREM StoresBalance == CosmeticsSpec => [](CosmeticsTypeOK /\ WardrobeHolds)
  <1>1. CosmeticsInit => CoinInv /\ ShopInv
    BY CoinsAtFirst, ShopAtFirst
  <1>2. CoinInv /\ ShopInv /\ [CoinStep \/ ShopStep]_cosmeticVars => (CoinInv /\ ShopInv)'
    <2>1. CoinStep => UNCHANGED shopVars
      BY DEF CoinStep, EarnCoins, PurchasePiece, LookUpRefund, RefundPiece
    <2>2. ShopStep => UNCHANGED coinVars
      BY DEF ShopStep, EarnPoints, GrantAchievementCosmetics, AwardBadge, GrantItem, PurchaseItem, PatchItem,
             BeginWear, SaveWear
    <2>3. UNCHANGED cosmeticVars => UNCHANGED coinVars /\ UNCHANGED shopVars
      BY DEF cosmeticVars
    <2>. QED  BY <2>1, <2>2, <2>3, CoinStepKeeps, ShopStepKeeps, CoinsUntouched, ShopUntouched
  <1>3. CoinInv /\ ShopInv => CosmeticsTypeOK /\ WardrobeHolds
    <2>1. SUFFICES ASSUME CoinInv, ShopInv
                   PROVE  CosmeticsTypeOK /\ WardrobeHolds
      OBVIOUS
    <2>2. CosmeticsTypeOK
      <3>1. \A u \in Shoppers, i \in Items : closet[u][i].source \in {"none", "purchase", "achievement", "grant"}
        BY <2>1, ClosetRowFields DEF ShopInv, ShopTypes
      <3>. QED  BY <2>1, <3>1 DEF CoinInv, CoinTypes, ShopInv, ShopTypes, Outfits, CosmeticsTypeOK
    <2>3. ShopAccountedFor
      BY <2>1, SpentInSum DEF ShopInv, WornIsOwned, ShopAccountedFor
    <2>. QED  BY <2>1, <2>2, <2>3, CoinsAccounted DEF WardrobeHolds
  <1>. QED  BY <1>1, <1>2, <1>3, PTL DEF CosmeticsSpec

-----------------------------------------------------------------------------
(* Spots: what is shown is stored *)

PostSteps == {"idle", "persist", "show", "attach", "write", "announce", "posted", "failed"}
MakeSteps == {"idle", "row", "binding", "pointer", "memory", "made", "failed"}

SpotRow == [by : Authors \cup {Nobody}, quest : PlaceQuests \cup {NoQuest},
            status : {"none", "published", "unpublished"}]
AssetRow == [by : Authors \cup {Nobody}, on : Places \cup {NoPlace}]
PostRow == [at : PostSteps, by : Authors \cup {Nobody}, photos : Seq(Photos),
            quest : PlaceQuests \cup {NoQuest}, next : Nat]
MakeRow == [at : MakeSteps, place : Places \cup {NoPlace}]

SpotTables ==
  /\ row \in [Places -> SpotRow] /\ place \in [Places -> SpotRow]
  /\ kept \in [Photos -> AssetRow] /\ photo \in [Photos -> AssetRow]
  /\ questRow \in [PlaceQuests -> Places \cup {NoPlace}]
  /\ binding \in [PlaceQuests -> Places \cup {NoPlace}]
  /\ post \in [Places -> PostRow] /\ make \in [PlaceQuests -> MakeRow]
  /\ reviews \subseteq Places \X {"published", "unpublished"}

\* A destination is stored before it is shown, announced or has photos.
Stored(s) ==
  /\ row[s].by # Nobody => row[s].by = post[s].by /\ post[s].at \notin {"idle", "persist"}
  /\ place[s].by # Nobody => row[s].by = place[s].by
  /\ s \in announced => row[s].by # Nobody
  /\ IF post[s].at = "idle" THEN post[s].quest = NoQuest ELSE post[s].by # Nobody
  /\ post[s].at \in {"show", "attach", "write", "announce", "posted"} => row[s].by = post[s].by

\* A photo has the same uploader in the memory and in the table, and is on a
\* stored destination of theirs.
OnTheirs(asset) == asset.on # NoPlace => asset.by # Nobody /\ row[asset.on].by = asset.by
Attached(a) == kept[a].by = photo[a].by /\ OnTheirs(photo[a]) /\ OnTheirs(kept[a])

\* The photos a post has written so far.
PhotoWritten(s, i) == kept[post[s].photos[i]].on # NoPlace /\ kept[post[s].photos[i]].by = post[s].by
PhotosWritten(s) ==
  /\ post[s].at \in {"idle", "persist", "show"} => post[s].next = 1
  /\ post[s].at \in {"attach", "write"} =>
       /\ post[s].next \in 1..Len(post[s].photos)
       /\ \A i \in 1..(post[s].next - 1) : PhotoWritten(s, i)
  /\ post[s].at = "write" => kept[post[s].photos[post[s].next]].by = post[s].by
  /\ post[s].at \in {"announce", "posted"} => \A i \in 1..Len(post[s].photos) : PhotoWritten(s, i)

\* A quest has its row, and then its binding, before anything points to it.
Bound(q) ==
  /\ make[q].at \in {"idle", "row"} => questRow[q] = NoPlace
  /\ make[q].at \notin {"idle", "failed"} => make[q].place # NoPlace
  /\ make[q].at \in {"binding", "pointer", "memory"} => questRow[q] = make[q].place
  /\ make[q].at \in {"pointer", "memory"} => binding[q] = make[q].place

\* What a destination points to has its row, and its binding unless the post
\* named it.
PointsRight(holder, s) ==
  /\ References(holder.quest)
  /\ holder.quest \notin {NoQuest, post[s].quest} =>
       questRow[holder.quest] = s /\ binding[holder.quest] = s

SpotInv ==
  /\ SpotTables
  /\ \A s \in Places : Stored(s) /\ PhotosWritten(s)
                       /\ PointsRight(row[s], s) /\ PointsRight(place[s], s)
  /\ \A a \in Photos : Attached(a)
  /\ \A q \in PlaceQuests : Bound(q)

\* What a post has written stays written while its photos keep their uploader
\* and are on some destination.
LEMMA WrittenStays ==
  ASSUME SpotInv, NEW s \in Places, post'[s] = post[s], post[s].by # Nobody,
         \A a \in Photos : kept[a].by = post[s].by =>
           kept'[a].by = kept[a].by /\ (kept[a].on # NoPlace => kept'[a].on # NoPlace)
  PROVE  PhotosWritten(s)'
  <1>1. \A i \in 1..Len(post[s].photos) : post[s].photos[i] \in Photos
    BY DEF SpotInv, SpotTables, PostRow
  <1>2. \A i \in 1..Len(post[s].photos) : PhotoWritten(s, i) => PhotoWritten(s, i)'
    BY <1>1 DEF PhotoWritten
  <1>3. Len(post[s].photos) \in Nat /\ post[s].next \in Nat
    BY DEF SpotInv, SpotTables, PostRow
  <1>4. CASE post[s].at \in {"attach", "write"}
    <2>1. \A i \in 1..(post[s].next - 1) : i \in 1..Len(post[s].photos) /\ PhotoWritten(s, i)
      BY <1>3, <1>4 DEF SpotInv, PhotosWritten
    <2>2. \A i \in 1..(post[s].next - 1) : PhotoWritten(s, i)'
      BY <1>2, <2>1
    <2>. QED  BY <1>1, <1>4, <2>2 DEF SpotInv, PhotosWritten
  <1>5. CASE post[s].at \notin {"attach", "write"}
    BY <1>2, <1>5 DEF SpotInv, PhotosWritten
  <1>. QED  BY <1>4, <1>5

\* The tables of photos stand still, and so do the posts.
LEMMA PhotosStand ==
  ASSUME SpotInv, kept' = kept, post' = post
  PROVE  \A s \in Places : PhotosWritten(s)'
  BY DEF SpotInv, PhotosWritten, PhotoWritten

LEMMA UploadSteps ==
  ASSUME SpotInv, NEW a \in Photos, NEW u \in Authors, Upload(a, u)
  PROVE  SpotInv'
  <1>1. /\ photo[a].by = Nobody /\ kept[a].by = Nobody
        /\ UNCHANGED <<row, place, questRow, binding, announced, post, make, reviews>>
    BY DEF Upload, SpotInv, Attached
  <1>2. /\ photo'[a].by = u /\ photo'[a].on = NoPlace /\ kept'[a].by = u /\ kept'[a].on = NoPlace
        /\ \A b \in Photos \ {a} : photo'[b] = photo[b] /\ kept'[b] = kept[b]
        /\ photo' \in [Photos -> AssetRow] /\ kept' \in [Photos -> AssetRow]
    BY DEF Upload, SpotInv, SpotTables, AssetRow
  <1>3. SpotTables'
    BY <1>1, <1>2 DEF SpotInv, SpotTables
  <1>4. ASSUME NEW s \in Places
        PROVE  Stored(s)' /\ PhotosWritten(s)' /\ PointsRight(row[s], s)' /\ PointsRight(place[s], s)'
    <2>1. Stored(s)' /\ PointsRight(row[s], s)' /\ PointsRight(place[s], s)'
      BY <1>1 DEF SpotInv, Stored, PointsRight, References
    <2>2. CASE post[s].by # Nobody
      <3>1. \A b \in Photos : kept[b].by = post[s].by => kept'[b] = kept[b]
        BY <1>1, <1>2, <2>2
      <3>. QED  BY <1>1, <2>1, <2>2, <3>1, WrittenStays
    <2>3. CASE post[s].by = Nobody
      BY <1>1, <2>1, <2>3 DEF SpotInv, PhotosWritten, Stored
    <2>. QED  BY <2>2, <2>3
  <1>5. \A b \in Photos : Attached(b)'
    BY <1>1, <1>2 DEF SpotInv, Attached, OnTheirs
  <1>6. \A q \in PlaceQuests : Bound(q)'
    BY <1>1 DEF SpotInv, Bound
  <1>. QED  BY <1>3, <1>4, <1>5, <1>6 DEF SpotInv

LEMMA BeginPostSteps ==
  ASSUME SpotInv, NEW s \in Places, NEW u \in Authors, NEW list \in Seq(Photos),
         NEW q \in PlaceQuests \cup {NoQuest}, BeginPost(s, u, list, q)
  PROVE  SpotInv'
  <1>1. /\ post[s].at = "idle"
        /\ post' = [post EXCEPT ![s] = [at |-> "persist", by |-> u, photos |-> list, quest |-> q, next |-> 1]]
        /\ UNCHANGED <<row, place, kept, photo, questRow, binding, announced, make, reviews>>
    BY DEF BeginPost, restOfPost
  <1>2. /\ post'[s].at = "persist" /\ post'[s].by = u /\ post'[s].next = 1 /\ post' \in [Places -> PostRow]
        /\ \A t \in Places \ {s} : post'[t] = post[t]
    <2>1. PICK new : new = [at |-> "persist", by |-> u, photos |-> list, quest |-> q, next |-> 1]
      OBVIOUS
    <2>2. new \in PostRow /\ new.at = "persist" /\ new.by = u /\ new.next = 1
      BY <2>1 DEF PostRow, PostSteps
    <2>3. post \in [Places -> PostRow] /\ post' = [post EXCEPT ![s] = new]
      BY <1>1, <2>1 DEF SpotInv, SpotTables
    <2>. QED  BY <2>2, <2>3
  <1>3. SpotTables'
    BY <1>1, <1>2 DEF SpotInv, SpotTables
  <1>4. ASSUME NEW t \in Places
        PROVE  Stored(t)' /\ PhotosWritten(t)' /\ PointsRight(row[t], t)' /\ PointsRight(place[t], t)'
    <2>1. CASE t = s
      BY <1>1, <1>2, <2>1, SpotNames DEF SpotInv, Stored, PhotosWritten, PointsRight, References
    <2>2. CASE t # s
      <3>1. post'[t] = post[t]
        BY <1>2, <2>2
      <3>2. Stored(t)' /\ PointsRight(row[t], t)' /\ PointsRight(place[t], t)'
        BY <1>1, <3>1 DEF SpotInv, Stored, PointsRight, References
      <3>3. PhotosWritten(t)'
        BY <1>1, <3>1 DEF SpotInv, PhotosWritten, PhotoWritten
      <3>. QED  BY <3>2, <3>3
    <2>. QED  BY <2>1, <2>2
  <1>5. \A b \in Photos : Attached(b)'
    BY <1>1 DEF SpotInv, Attached, OnTheirs
  <1>6. \A k \in PlaceQuests : Bound(k)'
    BY <1>1 DEF SpotInv, Bound
  <1>. QED  BY <1>3, <1>4, <1>5, <1>6 DEF SpotInv

\* A post goes on to its next await, or ends.
LEMMA PostingMoves ==
  ASSUME SpotTables, NEW s \in Places, NEW at \in PostSteps, Posting(s, at)
  PROVE  /\ post' \in [Places -> PostRow] /\ \A t \in Places \ {s} : post'[t] = post[t]
         /\ post'[s].at = at /\ post'[s].by = post[s].by /\ post'[s].quest = post[s].quest /\ post'[s].photos = post[s].photos
         /\ post'[s].next = post[s].next
  BY DEF SpotTables, PostRow, Posting

LEMMA PersistSteps ==
  ASSUME SpotInv, NEW s \in Places, NEW stored \in BOOLEAN, PersistSpot(s, stored)
  PROVE  SpotInv'
  <1>1. /\ post[s].at = "persist" /\ row[s].by = Nobody
        /\ UNCHANGED <<place, kept, photo, questRow, binding, announced, make, reviews>>
    BY DEF PersistSpot, restOfPost, SpotInv, Stored
  <1>2. PICK at \in {"show", "failed"} : Posting(s, at) /\ (at = "show" <=> stored /\ References(post[s].quest))
    BY DEF PersistSpot
  <1>3. /\ post' \in [Places -> PostRow] /\ \A t \in Places \ {s} : post'[t] = post[t]
        /\ post'[s].at = at /\ post'[s].by = post[s].by /\ post'[s].quest = post[s].quest /\ post'[s].next = post[s].next
    <2>1. at \in PostSteps
      BY <1>2 DEF PostSteps
    <2>. QED  BY <1>2, <2>1, PostingMoves DEF SpotInv
  <1>4. /\ row' \in [Places -> SpotRow] /\ \A t \in Places \ {s} : row'[t] = row[t]
        /\ at = "show" => /\ row'[s].by = post[s].by /\ row'[s].quest = post[s].quest
                        /\ References(post[s].quest)
        /\ at # "show" => row'[s] = row[s]
    <2>1. /\ row \in [Places -> SpotRow] /\ post[s].by \in Authors \cup {Nobody}
          /\ post[s].quest \in PlaceQuests \cup {NoQuest}
      BY DEF SpotInv, SpotTables, PostRow
    <2>2. CASE stored /\ References(post[s].quest)
      <3>1. PICK new : new = [by |-> post[s].by, quest |-> post[s].quest, status |-> "published"]
        OBVIOUS
      <3>2. new \in SpotRow /\ new.by = post[s].by /\ new.quest = post[s].quest
        BY <2>1, <3>1 DEF SpotRow
      <3>3. row' = [row EXCEPT ![s] = new]
        BY <2>2, <3>1 DEF PersistSpot
      <3>. QED  BY <1>2, <2>1, <2>2, <3>2, <3>3
    <2>3. CASE ~(stored /\ References(post[s].quest))
      BY <1>2, <2>1, <2>3 DEF PersistSpot
    <2>. QED  BY <2>2, <2>3
  <1>5. \A a \in Photos : photo[a].on # s /\ kept[a].on # s
    BY <1>1, SpotNames DEF SpotInv, Attached, OnTheirs
  <1>6. SpotTables'
    BY <1>1, <1>3, <1>4 DEF SpotInv, SpotTables
  <1>7. ASSUME NEW t \in Places
        PROVE  Stored(t)' /\ PhotosWritten(t)' /\ PointsRight(row[t], t)' /\ PointsRight(place[t], t)'
    <2>1. CASE t = s
      BY <1>1, <1>2, <1>3, <1>4, <2>1 DEF SpotInv, Stored, PhotosWritten, PointsRight, References
    <2>2. CASE t # s
      <3>1. post'[t] = post[t] /\ row'[t] = row[t]
        BY <1>3, <1>4, <2>2
      <3>2. Stored(t)' /\ PointsRight(row[t], t)' /\ PointsRight(place[t], t)'
        BY <1>1, <3>1 DEF SpotInv, Stored, PointsRight, References
      <3>3. PhotosWritten(t)'
        BY <1>1, <3>1 DEF SpotInv, PhotosWritten, PhotoWritten
      <3>. QED  BY <3>2, <3>3
    <2>. QED  BY <2>1, <2>2
  <1>8. \A b \in Photos : Attached(b)'
    BY <1>1, <1>4, <1>5 DEF SpotInv, Attached, OnTheirs, SpotTables, AssetRow
  <1>9. \A q \in PlaceQuests : Bound(q)'
    BY <1>1 DEF SpotInv, Bound
  <1>. QED  BY <1>6, <1>7, <1>8, <1>9 DEF SpotInv

\* A destination none of whose rows changed.
LEMMA PlaceStands ==
  ASSUME SpotInv, NEW t \in Places, post'[t] = post[t], row'[t] = row[t], place'[t] = place[t],
         t \in announced' => t \in announced, UNCHANGED <<kept, questRow, binding>>
  PROVE  Stored(t)' /\ PhotosWritten(t)' /\ PointsRight(row[t], t)' /\ PointsRight(place[t], t)'
  <1>1. Stored(t)' /\ PointsRight(row[t], t)' /\ PointsRight(place[t], t)'
    BY DEF SpotInv, Stored, PointsRight, References
  <1>2. PhotosWritten(t)'
    BY DEF SpotInv, PhotosWritten, PhotoWritten
  <1>. QED  BY <1>1, <1>2

\* A request ends in an error: its post is looked at no more.
LEMMA PostFails ==
  ASSUME SpotInv, NEW s \in Places, Posting(s, "failed"), post[s].at \notin {"idle", "persist"},
         UNCHANGED <<row, place, kept, photo, questRow, binding, announced, make, reviews>>
  PROVE  SpotInv'
  <1>1. /\ post' \in [Places -> PostRow] /\ \A t \in Places \ {s} : post'[t] = post[t]
        /\ post'[s].at = "failed" /\ post'[s].by = post[s].by /\ post'[s].quest = post[s].quest
    BY PostingMoves DEF SpotInv, PostSteps
  <1>2. SpotTables'
    BY <1>1 DEF SpotInv, SpotTables
  <1>3. ASSUME NEW t \in Places
        PROVE  Stored(t)' /\ PhotosWritten(t)' /\ PointsRight(row[t], t)' /\ PointsRight(place[t], t)'
    <2>1. CASE t = s
      BY <1>1, <2>1 DEF SpotInv, Stored, PhotosWritten, PointsRight, References
    <2>2. CASE t # s
      BY <1>1, <2>2, PlaceStands
    <2>. QED  BY <2>1, <2>2
  <1>4. \A b \in Photos : Attached(b)'
    BY DEF SpotInv, Attached, OnTheirs
  <1>5. \A q \in PlaceQuests : Bound(q)'
    BY DEF SpotInv, Bound
  <1>. QED  BY <1>2, <1>3, <1>4, <1>5 DEF SpotInv

LEMMA ShowSteps ==
  ASSUME SpotInv, NEW s \in Places, ShowSpot(s)
  PROVE  SpotInv'
  <1>1. /\ post[s].at = "show"
        /\ UNCHANGED <<row, kept, photo, questRow, binding, announced, make, reviews>>
    BY DEF ShowSpot, restOfPost
  <1>2. PICK at \in {"announce", "attach"} :
          Posting(s, at) /\ (at = "announce" <=> post[s].photos = <<>>)
    BY DEF ShowSpot
  <1>3. /\ post' \in [Places -> PostRow] /\ \A t \in Places \ {s} : post'[t] = post[t]
        /\ post'[s].at = at /\ post'[s].by = post[s].by /\ post'[s].quest = post[s].quest /\ post'[s].photos = post[s].photos
        /\ post'[s].next = post[s].next
    <2>1. at \in PostSteps
      BY <1>2 DEF PostSteps
    <2>. QED  BY <1>2, <2>1, PostingMoves DEF SpotInv
  <1>4. /\ place' \in [Places -> SpotRow] /\ \A t \in Places \ {s} : place'[t] = place[t]
        /\ place'[s] = row[s]
    BY DEF ShowSpot, SpotInv, SpotTables
  <1>5. SpotTables'
    BY <1>1, <1>3, <1>4 DEF SpotInv, SpotTables
  <1>6. ASSUME NEW t \in Places
        PROVE  Stored(t)' /\ PhotosWritten(t)' /\ PointsRight(row[t], t)' /\ PointsRight(place[t], t)'
    <2>1. CASE t = s
      <3>1. Stored(t)' /\ PointsRight(row[t], t)' /\ PointsRight(place[t], t)'
        BY <1>1, <1>2, <1>3, <1>4, <2>1 DEF SpotInv, Stored, PointsRight, References
      <3>2. post[s].next = 1 /\ post[s].photos \in Seq(Photos)
        BY <1>1 DEF SpotInv, SpotTables, PostRow, PhotosWritten
      <3>3. PhotosWritten(t)'
        BY <1>2, <1>3, <2>1, <3>2 DEF PhotosWritten
      <3>. QED  BY <3>1, <3>3
    <2>2. CASE t # s
      BY <1>1, <1>3, <1>4, <2>2, PlaceStands
    <2>. QED  BY <2>1, <2>2
  <1>7. \A b \in Photos : Attached(b)'
    BY <1>1 DEF SpotInv, Attached, OnTheirs
  <1>8. \A q \in PlaceQuests : Bound(q)'
    BY <1>1 DEF SpotInv, Bound
  <1>. QED  BY <1>5, <1>6, <1>7, <1>8 DEF SpotInv

LEMMA AttachSteps ==
  ASSUME SpotInv, NEW s \in Places, AttachPhoto(s)
  PROVE  SpotInv'
  <1>1. PICK a : a = post[s].photos[post[s].next]
    OBVIOUS
  <1>2. /\ post[s].at = "attach" /\ a \in Photos /\ post[s].by # Nobody /\ row[s].by = post[s].by
        /\ UNCHANGED <<row, place, kept, questRow, binding, announced, make, reviews>>
    BY <1>1 DEF AttachPhoto, restOfPost, SpotInv, SpotTables, PostRow, PhotosWritten, Stored
  <1>3. CASE MayAttach(post[s].by, a)
    <2>1. photo[a].by = post[s].by /\ photo' = [photo EXCEPT ![a].on = s] /\ Posting(s, "write")
      BY <1>1, <1>3 DEF AttachPhoto, MayAttach
    <2>2. /\ photo' \in [Photos -> AssetRow] /\ \A b \in Photos \ {a} : photo'[b] = photo[b]
          /\ photo'[a].on = s /\ photo'[a].by = photo[a].by
      BY <1>2, <2>1 DEF SpotInv, SpotTables, AssetRow
    <2>3. /\ post' \in [Places -> PostRow] /\ \A t \in Places \ {s} : post'[t] = post[t]
          /\ post'[s].at = "write" /\ post'[s].by = post[s].by /\ post'[s].quest = post[s].quest /\ post'[s].photos = post[s].photos
          /\ post'[s].next = post[s].next
      BY <2>1, PostingMoves DEF SpotInv, PostSteps
    <2>4. SpotTables'
      BY <1>2, <2>2, <2>3 DEF SpotInv, SpotTables
    <2>5. \A b \in Photos : Attached(b)'
      BY <1>2, <2>1, <2>2 DEF SpotInv, Attached, OnTheirs
    <2>6. ASSUME NEW t \in Places
          PROVE  Stored(t)' /\ PhotosWritten(t)' /\ PointsRight(row[t], t)' /\ PointsRight(place[t], t)'
      <3>1. CASE t = s
        <4>1. Stored(t)' /\ PointsRight(row[t], t)' /\ PointsRight(place[t], t)'
          BY <1>2, <2>3, <3>1 DEF SpotInv, Stored, PointsRight, References
        <4>2. kept[a].by = post[s].by
          BY <1>2, <2>1 DEF SpotInv, Attached
        <4>3. PhotosWritten(t)'
          BY <1>1, <1>2, <2>3, <3>1, <4>2 DEF SpotInv, PhotosWritten, PhotoWritten
        <4>. QED  BY <4>1, <4>3
      <3>2. CASE t # s
        BY <1>2, <2>3, <3>2, PlaceStands
      <3>. QED  BY <3>1, <3>2
    <2>7. \A q \in PlaceQuests : Bound(q)'
      BY <1>2 DEF SpotInv, Bound
    <2>. QED  BY <2>4, <2>5, <2>6, <2>7 DEF SpotInv
  <1>4. CASE ~MayAttach(post[s].by, a)
    <2>1. Posting(s, "failed") /\ photo' = photo
      BY <1>1, <1>4 DEF AttachPhoto
    <2>. QED  BY <1>2, <2>1, PostFails
  <1>. QED  BY <1>3, <1>4

LEMMA WriteSteps ==
  ASSUME SpotInv, NEW s \in Places, NEW stored \in BOOLEAN, WritePhoto(s, stored)
  PROVE  SpotInv'
  <1>1. PICK a : a = post[s].photos[post[s].next]
    OBVIOUS
  <1>2. /\ post[s].at = "write" /\ post[s].by # Nobody /\ row[s].by = post[s].by
        /\ UNCHANGED <<row, place, photo, questRow, binding, announced, make, reviews>>
    BY DEF WritePhoto, restOfPost, SpotInv, Stored
  <1>3. /\ post[s].photos \in Seq(Photos) /\ post[s].next \in 1..Len(post[s].photos)
        /\ a \in Photos /\ kept[a].by = post[s].by
        /\ \A i \in 1..(post[s].next - 1) : PhotoWritten(s, i)
    BY <1>1, <1>2 DEF SpotInv, SpotTables, PostRow, PhotosWritten
  <1>4. CASE ~stored
    <2>1. Posting(s, "failed") /\ kept' = kept
      BY <1>4 DEF WritePhoto
    <2>. QED  BY <1>2, <2>1, PostFails
  <1>5. CASE stored
    <2>1. PICK last \in BOOLEAN : last = (post[s].next = Len(post[s].photos))
      OBVIOUS
    <2>2. PICK n \in Nat : n = IF last THEN post[s].next ELSE post[s].next + 1
      BY <1>3
    <2>3. PICK at \in PostSteps : at = IF last THEN "announce" ELSE "attach"
      BY DEF PostSteps
    <2>4. /\ kept' = [kept EXCEPT ![a].on = s]
          /\ post' = [post EXCEPT ![s].next = n, ![s].at = at]
      BY <1>1, <1>5, <2>1, <2>2, <2>3 DEF WritePhoto
    <2>5. /\ kept' \in [Photos -> AssetRow] /\ \A b \in Photos \ {a} : kept'[b] = kept[b]
          /\ kept'[a].on = s /\ kept'[a].by = kept[a].by
      BY <1>3, <2>4 DEF SpotInv, SpotTables, AssetRow
    <2>6. /\ post' \in [Places -> PostRow] /\ \A t \in Places \ {s} : post'[t] = post[t]
          /\ post'[s].at = at /\ post'[s].by = post[s].by /\ post'[s].quest = post[s].quest /\ post'[s].photos = post[s].photos
          /\ post'[s].next = n
      BY <2>4 DEF SpotInv, SpotTables, PostRow
    <2>7. SpotTables'
      BY <1>2, <2>5, <2>6 DEF SpotInv, SpotTables
    <2>8. s # NoPlace
      BY SpotNames
    <2>9. \A b \in Photos : Attached(b)'
      BY <1>2, <1>3, <2>5 DEF SpotInv, Attached, OnTheirs
    <2>10. ASSUME NEW t \in Places
           PROVE  Stored(t)' /\ PhotosWritten(t)' /\ PointsRight(row[t], t)' /\ PointsRight(place[t], t)'
      <3>1. Stored(t)' /\ PointsRight(row[t], t)' /\ PointsRight(place[t], t)'
        BY <1>2, <2>3, <2>6 DEF SpotInv, Stored, PointsRight, References
      <3>2. CASE t = s
        <4>1. PICK len, next : len = Len(post[s].photos) /\ next = post[s].next
          OBVIOUS
        <4>2. len \in Nat /\ next \in 1..len /\ post'[s].photos = post[s].photos
          BY <1>3, <2>6, <4>1
        <4>3. \A i \in 1..len : post[s].photos[i] \in Photos
          BY <1>3, <4>1
        <4>4. ASSUME NEW i \in 1..next  PROVE PhotoWritten(s, i)'
          <5>1. i \in 1..len /\ post[s].photos[i] \in Photos /\ (i # next => i \in 1..(next - 1))
            BY <4>2, <4>3
          <5>2. CASE i = next
            BY <1>1, <1>3, <2>5, <2>6, <2>8, <4>1, <5>2 DEF PhotoWritten
          <5>3. CASE i # next
            <6>1. PhotoWritten(s, i)
              BY <1>3, <4>1, <5>1, <5>3
            <6>. QED  BY <2>5, <2>6, <2>8, <5>1, <6>1 DEF PhotoWritten
          <5>. QED  BY <5>2, <5>3
        <4>5. CASE last
          <5>1. next = len
            BY <2>1, <4>1, <4>5
          <5>2. post'[s].at = "announce" /\ Len(post'[s].photos) = next
            BY <2>3, <2>6, <4>1, <4>5, <5>1
          <5>. QED  BY <3>1, <3>2, <4>4, <5>2 DEF PhotosWritten
        <4>6. CASE ~last
          <5>1. next # len /\ n = next + 1
            BY <2>1, <2>2, <4>1, <4>6
          <5>2. n \in 1..len /\ n - 1 = next
            BY <4>2, <5>1
          <5>3. /\ post'[s].at = "attach" /\ post'[s].next = n /\ Len(post'[s].photos) = len
                /\ n - 1 = next
            BY <2>3, <2>6, <4>1, <4>6, <5>2
          <5>. QED  BY <3>1, <3>2, <4>4, <5>2, <5>3 DEF PhotosWritten
        <4>. QED  BY <4>5, <4>6, <3>1
      <3>3. CASE t # s
        <4>1. post'[t] = post[t]
          BY <2>6, <3>3
        <4>2. CASE post[t].by # Nobody
          <5>1. \A b \in Photos : kept'[b].by = kept[b].by /\ (kept[b].on # NoPlace => kept'[b].on # NoPlace)
            BY <2>5, <2>8
          <5>. QED  BY <3>1, <4>1, <4>2, <5>1, WrittenStays
        <4>3. CASE post[t].by = Nobody
          BY <3>1, <4>1, <4>3 DEF SpotInv, PhotosWritten, Stored
        <4>. QED  BY <3>1, <4>2, <4>3
      <3>. QED  BY <3>1, <3>2, <3>3
    <2>11. \A q \in PlaceQuests : Bound(q)'
      BY <1>2 DEF SpotInv, Bound
    <2>. QED  BY <2>7, <2>9, <2>10, <2>11 DEF SpotInv
  <1>. QED  BY <1>4, <1>5

LEMMA AnnounceSteps ==
  ASSUME SpotInv, NEW s \in Places, NEW recorded \in BOOLEAN, AnnounceSpot(s, recorded)
  PROVE  SpotInv'
  <1>1. /\ post[s].at = "announce" /\ row[s].by = post[s].by /\ post[s].by # Nobody
        /\ Posting(s, "posted") /\ announced' \subseteq announced \cup {s} /\ announced \subseteq announced'
        /\ UNCHANGED <<row, place, kept, photo, questRow, binding, make, reviews>>
    BY DEF AnnounceSpot, restOfPost, SpotInv, Stored
  <1>2. /\ post' \in [Places -> PostRow] /\ \A t \in Places \ {s} : post'[t] = post[t]
        /\ post'[s].at = "posted" /\ post'[s].by = post[s].by /\ post'[s].quest = post[s].quest /\ post'[s].photos = post[s].photos
    BY <1>1, PostingMoves DEF SpotInv, PostSteps
  <1>3. SpotTables'
    BY <1>1, <1>2 DEF SpotInv, SpotTables
  <1>4. ASSUME NEW t \in Places
        PROVE  Stored(t)' /\ PhotosWritten(t)' /\ PointsRight(row[t], t)' /\ PointsRight(place[t], t)'
    <2>1. CASE t = s
      BY <1>1, <1>2, <2>1 DEF SpotInv, Stored, PhotosWritten, PhotoWritten, PointsRight, References
    <2>2. CASE t # s
      BY <1>1, <1>2, <2>2, PlaceStands
    <2>. QED  BY <2>1, <2>2
  <1>5. \A b \in Photos : Attached(b)'
    BY <1>1 DEF SpotInv, Attached, OnTheirs
  <1>6. \A q \in PlaceQuests : Bound(q)'
    BY <1>1 DEF SpotInv, Bound
  <1>. QED  BY <1>3, <1>4, <1>5, <1>6 DEF SpotInv

\* A step that is not a post's: what it must still show of the quests.
LEMMA PostsStand ==
  ASSUME SpotInv, SpotTables', UNCHANGED <<kept, photo, announced, post>>,
         \A s \in Places : row'[s].by = row[s].by /\ place'[s].by = place[s].by,
         \A s \in Places : PointsRight(row[s], s)' /\ PointsRight(place[s], s)',
         \A q \in PlaceQuests : Bound(q)'
  PROVE  SpotInv'
  <1>1. \A s \in Places : Stored(s)'
    BY DEF SpotInv, Stored
  <1>2. \A s \in Places : PhotosWritten(s)'
    BY PhotosStand
  <1>3. \A a \in Photos : Attached(a)'
    BY DEF SpotInv, SpotTables, AssetRow, Attached, OnTheirs
  <1>. QED  BY <1>1, <1>2, <1>3 DEF SpotInv

\* A request for a quest goes on to its next await, or ends.
LEMMA MakingMoves ==
  ASSUME SpotTables, NEW q \in PlaceQuests, NEW at \in MakeSteps, Making(q, at)
  PROVE  /\ make' \in [PlaceQuests -> MakeRow] /\ \A r \in PlaceQuests \ {q} : make'[r] = make[r]
         /\ make'[q].at = at /\ make'[q].place = make[q].place
  BY DEF SpotTables, MakeRow, Making

LEMMA BeginQuestSteps ==
  ASSUME SpotInv, NEW q \in PlaceQuests, NEW u \in Authors, NEW s \in Places, BeginQuest(q, u, s)
  PROVE  SpotInv'
  <1>1. /\ make[q].at = "idle" /\ questRow[q] = NoPlace
        /\ make' = [make EXCEPT ![q] = [at |-> "row", place |-> s]]
        /\ UNCHANGED <<row, place, kept, photo, questRow, binding, announced, post, reviews>>
    BY DEF BeginQuest, restOfMake, SpotInv, Bound
  <1>2. /\ make' \in [PlaceQuests -> MakeRow] /\ \A r \in PlaceQuests \ {q} : make'[r] = make[r]
        /\ make'[q].at = "row" /\ make'[q].place = s
    <2>1. PICK new : new = [at |-> "row", place |-> s]
      OBVIOUS
    <2>2. new \in MakeRow /\ new.at = "row" /\ new.place = s
      BY <2>1 DEF MakeRow, MakeSteps
    <2>3. make \in [PlaceQuests -> MakeRow] /\ make' = [make EXCEPT ![q] = new]
      BY <1>1, <2>1 DEF SpotInv, SpotTables
    <2>. QED  BY <2>2, <2>3
  <1>3. SpotTables'
    BY <1>1, <1>2 DEF SpotInv, SpotTables
  <1>4. \A t \in Places : PointsRight(row[t], t)' /\ PointsRight(place[t], t)'
    BY <1>1 DEF SpotInv, PointsRight, References
  <1>5. \A r \in PlaceQuests : Bound(r)'
    BY <1>1, <1>2, SpotNames DEF SpotInv, Bound
  <1>. QED  BY <1>1, <1>3, <1>4, <1>5, PostsStand

LEMMA InsertQuestSteps ==
  ASSUME SpotInv, NEW q \in PlaceQuests, InsertQuest(q)
  PROVE  SpotInv'
  <1>1. /\ make[q].at = "row" /\ questRow[q] = NoPlace
        /\ make[q].place \in Places /\ Making(q, "binding")
        /\ UNCHANGED <<row, place, kept, photo, binding, announced, post, reviews>>
    BY DEF InsertQuest, restOfMake, SpotInv, SpotTables, MakeRow, Bound
  <1>2. /\ make' \in [PlaceQuests -> MakeRow] /\ \A r \in PlaceQuests \ {q} : make'[r] = make[r]
        /\ make'[q].at = "binding" /\ make'[q].place = make[q].place
    BY <1>1, MakingMoves DEF SpotInv, MakeSteps
  <1>3. /\ questRow' \in [PlaceQuests -> Places \cup {NoPlace}] /\ questRow'[q] = make[q].place
        /\ \A r \in PlaceQuests \ {q} : questRow'[r] = questRow[r]
    BY <1>1 DEF InsertQuest, SpotInv, SpotTables
  <1>4. SpotTables'
    BY <1>1, <1>2, <1>3 DEF SpotInv, SpotTables
  <1>5. \A t \in Places : PointsRight(row[t], t)' /\ PointsRight(place[t], t)'
    BY <1>1, <1>3, SpotNames DEF SpotInv, SpotTables, SpotRow, PointsRight, References
  <1>6. \A r \in PlaceQuests : Bound(r)'
    BY <1>1, <1>2, <1>3, SpotNames DEF SpotInv, Bound
  <1>. QED  BY <1>1, <1>4, <1>5, <1>6, PostsStand

LEMMA BindQuestSteps ==
  ASSUME SpotInv, NEW q \in PlaceQuests, BindQuest(q)
  PROVE  SpotInv'
  <1>1. /\ make[q].at = "binding" /\ questRow[q] = make[q].place /\ make[q].place \in Places
        /\ UNCHANGED <<row, place, kept, photo, questRow, announced, post, reviews>>
    BY DEF BindQuest, restOfMake, SpotInv, SpotTables, MakeRow, Bound
  <1>2. PICK at \in {"pointer", "memory"} : Making(q, at)
    BY DEF BindQuest
  <1>3. /\ make' \in [PlaceQuests -> MakeRow] /\ \A r \in PlaceQuests \ {q} : make'[r] = make[r]
        /\ make'[q].at = at /\ make'[q].place = make[q].place
    <2>1. at \in MakeSteps
      BY <1>2 DEF MakeSteps
    <2>. QED  BY <1>2, <2>1, MakingMoves DEF SpotInv
  <1>4. /\ binding' \in [PlaceQuests -> Places \cup {NoPlace}] /\ binding'[q] = make[q].place
        /\ \A r \in PlaceQuests \ {q} : binding'[r] = binding[r]
    BY <1>1 DEF BindQuest, SpotInv, SpotTables
  <1>5. SpotTables'
    BY <1>1, <1>3, <1>4 DEF SpotInv, SpotTables
  <1>6. \A t \in Places : PointsRight(row[t], t)' /\ PointsRight(place[t], t)'
    BY <1>1, <1>4 DEF SpotInv, SpotTables, SpotRow, PointsRight, References
  <1>7. \A r \in PlaceQuests : Bound(r)'
    BY <1>1, <1>2, <1>3, <1>4, SpotNames DEF SpotInv, Bound
  <1>. QED  BY <1>1, <1>5, <1>6, <1>7, PostsStand

LEMMA PointToQuestSteps ==
  ASSUME SpotInv, NEW q \in PlaceQuests, PointToQuest(q)
  PROVE  SpotInv'
  <1>1. PICK p : p = make[q].place
    OBVIOUS
  <1>2. /\ make[q].at = "pointer" /\ questRow[q] = p /\ binding[q] = p /\ p \in Places
        /\ Making(q, "memory") /\ row' = [row EXCEPT ![p].quest = q]
        /\ UNCHANGED <<place, kept, photo, questRow, binding, announced, post, reviews>>
    BY <1>1 DEF PointToQuest, restOfMake, SpotInv, SpotTables, MakeRow, Bound
  <1>3. /\ make' \in [PlaceQuests -> MakeRow] /\ \A r \in PlaceQuests \ {q} : make'[r] = make[r]
        /\ make'[q].at = "memory" /\ make'[q].place = p
    BY <1>1, <1>2, MakingMoves DEF SpotInv, MakeSteps
  <1>4. /\ row' \in [Places -> SpotRow] /\ row'[p].quest = q /\ row'[p].by = row[p].by
        /\ \A t \in Places \ {p} : row'[t] = row[t]
    <2>1. row \in [Places -> SpotRow]
      BY DEF SpotInv, SpotTables
    <2>2. p \in Places /\ row' = [row EXCEPT ![p].quest = q]
      BY <1>2
    <2>. QED  BY <2>1, <2>2 DEF SpotRow
  <1>5. SpotTables'
    BY <1>2, <1>3, <1>4 DEF SpotInv, SpotTables
  <1>6. \A t \in Places : PointsRight(row[t], t)' /\ PointsRight(place[t], t)'
    BY <1>2, <1>4, SpotNames DEF SpotInv, PointsRight, References
  <1>7. \A r \in PlaceQuests : Bound(r)'
    BY <1>1, <1>2, <1>3, SpotNames DEF SpotInv, Bound
  <1>8. \A t \in Places : row'[t].by = row[t].by
    BY <1>4
  <1>. QED  BY <1>2, <1>5, <1>6, <1>7, <1>8, PostsStand

LEMMA QuestFailsSteps ==
  ASSUME SpotInv, NEW q \in PlaceQuests, QuestFails(q)
  PROVE  SpotInv'
  <1>1. /\ make[q].at \in {"row", "binding", "pointer"} /\ Making(q, "failed")
        /\ UNCHANGED <<row, place, kept, photo, questRow, binding, announced, post, reviews>>
    BY DEF QuestFails, restOfMake
  <1>2. /\ make' \in [PlaceQuests -> MakeRow] /\ \A r \in PlaceQuests \ {q} : make'[r] = make[r]
        /\ make'[q].at = "failed"
    BY <1>1, MakingMoves DEF SpotInv, MakeSteps
  <1>3. SpotTables'
    BY <1>1, <1>2 DEF SpotInv, SpotTables
  <1>4. \A t \in Places : PointsRight(row[t], t)' /\ PointsRight(place[t], t)'
    BY <1>1 DEF SpotInv, PointsRight, References
  <1>5. \A r \in PlaceQuests : Bound(r)'
    BY <1>1, <1>2 DEF SpotInv, Bound
  <1>. QED  BY <1>1, <1>3, <1>4, <1>5, PostsStand

LEMMA ShowQuestSteps ==
  ASSUME SpotInv, NEW q \in PlaceQuests, ShowQuest(q)
  PROVE  SpotInv'
  <1>1. PICK p : p = make[q].place
    OBVIOUS
  <1>2. /\ make[q].at = "memory" /\ questRow[q] = p /\ binding[q] = p /\ p \in Places
        /\ Making(q, "made")
        /\ UNCHANGED <<row, kept, photo, questRow, binding, announced, post, reviews>>
    BY <1>1 DEF ShowQuest, restOfMake, SpotInv, SpotTables, MakeRow, Bound
  <1>3. PICK quest \in {q, place[p].quest} : place' = [place EXCEPT ![p].quest = quest]
    BY <1>1 DEF ShowQuest
  <1>4. /\ make' \in [PlaceQuests -> MakeRow] /\ \A r \in PlaceQuests \ {q} : make'[r] = make[r]
        /\ make'[q].at = "made" /\ make'[q].place = p
    BY <1>1, <1>2, MakingMoves DEF SpotInv, MakeSteps
  <1>5. /\ place' \in [Places -> SpotRow] /\ place'[p].quest = quest /\ place'[p].by = place[p].by
        /\ \A t \in Places \ {p} : place'[t] = place[t]
    BY <1>2, <1>3 DEF SpotInv, SpotTables, SpotRow
  <1>6. SpotTables'
    BY <1>2, <1>4, <1>5 DEF SpotInv, SpotTables
  <1>7. \A t \in Places : PointsRight(row[t], t)' /\ PointsRight(place[t], t)'
    BY <1>2, <1>3, <1>5, SpotNames DEF SpotInv, PointsRight, References
  <1>8. \A r \in PlaceQuests : Bound(r)'
    BY <1>1, <1>2, <1>4, SpotNames DEF SpotInv, Bound
  <1>9. \A t \in Places : place'[t].by = place[t].by
    BY <1>5
  <1>. QED  BY <1>2, <1>6, <1>7, <1>8, <1>9, PostsStand

LEMMA ReviewSteps ==
  ASSUME SpotInv, NEW s \in Places, NEW status \in {"published", "unpublished"}, Review(s, status)
  PROVE  SpotInv'
  <1>1. /\ place' = [place EXCEPT ![s].status = status]
        /\ UNCHANGED <<row, kept, photo, questRow, binding, announced, post, make>>
    BY DEF Review, restOfReview
  <1>2. /\ place' \in [Places -> SpotRow]
        /\ \A t \in Places : place'[t].by = place[t].by /\ place'[t].quest = place[t].quest
    BY <1>1 DEF SpotInv, SpotTables, SpotRow
  <1>3. reviews' \subseteq Places \X {"published", "unpublished"}
    BY DEF Review, SpotInv, SpotTables
  <1>4. SpotTables'
    BY <1>1, <1>2, <1>3 DEF SpotInv, SpotTables
  <1>5. \A t \in Places : PointsRight(row[t], t)' /\ PointsRight(place[t], t)'
    BY <1>1, <1>2 DEF SpotInv, PointsRight, References
  <1>6. \A r \in PlaceQuests : Bound(r)'
    BY <1>1 DEF SpotInv, Bound
  <1>. QED  BY <1>1, <1>2, <1>4, <1>5, <1>6, PostsStand

LEMMA ReviewWrittenSteps ==
  ASSUME SpotInv, NEW update \in reviews, NEW stored \in BOOLEAN, ReviewWritten(update, stored)
  PROVE  SpotInv'
  <1>1. PICK s \in Places, status \in {"published", "unpublished"} : update = <<s, status>>
    BY DEF SpotInv, SpotTables
  <1>2. /\ reviews' \subseteq reviews
        /\ row' = [row EXCEPT ![s].status = status] \/ row' = row
        /\ UNCHANGED <<place, kept, photo, questRow, binding, announced, post, make>>
    BY <1>1 DEF ReviewWritten, restOfReview
  <1>3. /\ row' \in [Places -> SpotRow]
        /\ \A t \in Places : row'[t].by = row[t].by /\ row'[t].quest = row[t].quest
    <2>1. row \in [Places -> SpotRow]
      BY DEF SpotInv, SpotTables
    <2>2. CASE row' = [row EXCEPT ![s].status = status]
      BY <2>1, <2>2 DEF SpotRow
    <2>3. CASE row' = row
      BY <2>1, <2>3
    <2>. QED  BY <1>2, <2>2, <2>3
  <1>4. SpotTables'
    BY <1>2, <1>3 DEF SpotInv, SpotTables
  <1>5. \A t \in Places : PointsRight(row[t], t)' /\ PointsRight(place[t], t)'
    BY <1>2, <1>3 DEF SpotInv, PointsRight, References
  <1>6. \A r \in PlaceQuests : Bound(r)'
    BY <1>2 DEF SpotInv, Bound
  <1>. QED  BY <1>2, <1>3, <1>4, <1>5, <1>6, PostsStand

\* After a restart the memory is the tables'; who was under way has failed.
LEMMA RestartSteps ==
  ASSUME SpotInv, Restart
  PROVE  SpotInv'
  <1>1. /\ place' = row /\ photo' = kept /\ reviews' = {}
        /\ UNCHANGED <<row, kept, questRow, binding, announced>>
    BY DEF Restart
  <1>2. /\ post' \in [Places -> PostRow]
        /\ \A s \in Places : \/ post'[s] = post[s] /\ post[s].at \in {"idle", "posted"}
                             \/ post'[s].at = "failed" /\ post'[s].by = post[s].by /\ post'[s].quest = post[s].quest /\ post[s].at # "idle"
    BY DEF Restart, SpotInv, SpotTables, PostRow, PostSteps
  <1>3. /\ make' \in [PlaceQuests -> MakeRow]
        /\ \A q \in PlaceQuests : make'[q] = make[q] \/ make'[q].at = "failed"
    BY DEF Restart, SpotInv, SpotTables, MakeRow, MakeSteps
  <1>4. SpotTables'
    BY <1>1, <1>2, <1>3 DEF SpotInv, SpotTables
  <1>5. ASSUME NEW t \in Places
        PROVE  Stored(t)' /\ PhotosWritten(t)' /\ PointsRight(row[t], t)' /\ PointsRight(place[t], t)'
    <2>1. PointsRight(row[t], t)' /\ PointsRight(place[t], t)'
      BY <1>1, <1>2 DEF SpotInv, PointsRight, References
    <2>2. CASE post'[t] = post[t]
      <3>1. Stored(t)'
        BY <1>1, <2>2 DEF SpotInv, Stored
      <3>2. PhotosWritten(t)'
        BY <1>1, <2>2 DEF SpotInv, PhotosWritten, PhotoWritten
      <3>. QED  BY <2>1, <3>1, <3>2
    <2>3. CASE post'[t].at = "failed" /\ post'[t].by = post[t].by /\ post[t].at # "idle"
      BY <1>1, <2>1, <2>3 DEF SpotInv, Stored, PhotosWritten
    <2>. QED  BY <1>2, <2>2, <2>3
  <1>6. \A b \in Photos : Attached(b)'
    BY <1>1 DEF SpotInv, Attached, OnTheirs
  <1>7. \A q \in PlaceQuests : Bound(q)'
    BY <1>1, <1>3 DEF SpotInv, Bound
  <1>. QED  BY <1>4, <1>5, <1>6, <1>7 DEF SpotInv

LEMMA SpotInvInit ==
  ASSUME SpotsInit
  PROVE  SpotInv
  <1>1. PICK noRow, noAsset, idlePost, idleMake :
          noRow = NoRow /\ noAsset = NoAsset /\ idlePost = IdlePost /\ idleMake = IdleMake
    OBVIOUS
  <1>2. /\ noRow \in SpotRow /\ noRow.by = Nobody /\ noRow.quest = NoQuest
        /\ noAsset \in AssetRow /\ noAsset.by = Nobody /\ noAsset.on = NoPlace
        /\ idlePost \in PostRow /\ idlePost.at = "idle" /\ idlePost.by = Nobody /\ idlePost.next = 1
        /\ idlePost.quest = NoQuest
        /\ idleMake \in MakeRow /\ idleMake.at = "idle"
    BY <1>1 DEF NoRow, NoAsset, IdlePost, IdleMake, SpotRow, AssetRow, PostRow, MakeRow, PostSteps, MakeSteps
  <1>3. /\ row = [s \in Places |-> noRow] /\ place = row
        /\ kept = [a \in Photos |-> noAsset] /\ photo = kept
        /\ questRow = [q \in PlaceQuests |-> NoPlace] /\ binding = questRow
        /\ reviews = {} /\ announced = {}
        /\ post = [s \in Places |-> idlePost]
        /\ make = [q \in PlaceQuests |-> idleMake]
    BY <1>1 DEF SpotsInit
  <1>4. SpotTables
    BY <1>2, <1>3 DEF SpotTables
  <1>5. \A s \in Places : Stored(s) /\ PhotosWritten(s) /\ PointsRight(row[s], s) /\ PointsRight(place[s], s)
    BY <1>2, <1>3 DEF Stored, PhotosWritten, PointsRight, References
  <1>6. \A a \in Photos : Attached(a)
    BY <1>2, <1>3 DEF Attached, OnTheirs
  <1>7. \A q \in PlaceQuests : Bound(q)
    BY <1>2, <1>3 DEF Bound
  <1>. QED  BY <1>4, <1>5, <1>6, <1>7 DEF SpotInv

LEMMA SpotInvNext ==
  ASSUME SpotInv, [SpotStep]_spotVars
  PROVE  SpotInv'
  <1>1. CASE UNCHANGED spotVars
    BY <1>1 DEF spotVars, SpotInv, SpotTables, Stored, PhotosWritten, PhotoWritten, Attached, OnTheirs,
                Bound, PointsRight, References
  <1>2. ASSUME NEW a \in Photos, NEW u \in Authors, Upload(a, u)  PROVE SpotInv'
    BY <1>2, UploadSteps
  <1>3. ASSUME NEW s \in Places, NEW u \in Authors,
               NEW list \in {<<>>} \union {<<a>> : a \in Photos} \union
                            {l \in Photos \X Photos : l[1] # l[2]},
               NEW q \in PlaceQuests \union {NoQuest}, BeginPost(s, u, list, q)
        PROVE  SpotInv'
    <2>1. list \in Seq(Photos)
      <3>1. CASE list = <<>>
        BY <3>1
      <3>2. ASSUME NEW a \in Photos, list = <<a>>  PROVE list \in Seq(Photos)
        BY <3>2
      <3>3. CASE list \in Photos \X Photos
        <4>1. PICK a \in Photos, b \in Photos : list = <<a, b>>
          BY <3>3
        <4>. QED  BY <4>1
      <3>. QED  BY <3>1, <3>2, <3>3
    <2>. QED  BY <1>3, <2>1, BeginPostSteps
  <1>4. ASSUME NEW s \in Places, NEW stored \in BOOLEAN,
               PersistSpot(s, stored) \/ WritePhoto(s, stored) \/ AnnounceSpot(s, stored)
        PROVE  SpotInv'
    BY <1>4, PersistSteps, WriteSteps, AnnounceSteps
  <1>5. ASSUME NEW s \in Places, ShowSpot(s) \/ AttachPhoto(s)  PROVE SpotInv'
    BY <1>5, ShowSteps, AttachSteps
  <1>6. ASSUME NEW q \in PlaceQuests, NEW u \in Authors, NEW s \in Places, BeginQuest(q, u, s)
        PROVE  SpotInv'
    BY <1>6, BeginQuestSteps
  <1>7. ASSUME NEW q \in PlaceQuests,
               InsertQuest(q) \/ BindQuest(q) \/ PointToQuest(q) \/ QuestFails(q) \/ ShowQuest(q)
        PROVE  SpotInv'
    BY <1>7, InsertQuestSteps, BindQuestSteps, PointToQuestSteps, QuestFailsSteps, ShowQuestSteps
  <1>8. ASSUME NEW s \in Places, NEW status \in {"published", "unpublished"}, Review(s, status)
        PROVE  SpotInv'
    BY <1>8, ReviewSteps
  <1>9. ASSUME NEW update \in reviews, NEW stored \in BOOLEAN, ReviewWritten(update, stored)
        PROVE  SpotInv'
    BY <1>9, ReviewWrittenSteps
  <1>10. CASE Restart
    BY <1>10, RestartSteps
  <1>. QED  BY <1>1, <1>2, <1>3, <1>4, <1>5, <1>6, <1>7, <1>8, <1>9, <1>10 DEF SpotStep

LEMMA SpotsStored ==
  ASSUME SpotInv
  PROVE  ShownIsStored
  <1>1. \A s \in Places : place[s].by # Nobody \/ s \in announced => row[s].by = post[s].by
    BY DEF SpotInv, Stored
  <1>2. \A asset \in {photo, kept} : \A a \in Photos :
          asset[a].on # NoPlace => row[asset[a].on].by = asset[a].by
    BY DEF SpotInv, Attached, OnTheirs
  <1>3. \A holder \in {row, place} : \A s \in Places :
         /\ References(holder[s].quest)
         /\ holder[s].quest \notin {NoQuest, post[s].quest} =>
              questRow[holder[s].quest] = s /\ binding[holder[s].quest] = s
    BY DEF SpotInv, PointsRight, References
  <1>4. ASSUME NEW s \in Places, post[s].at = "posted"
        PROVE  /\ row[s].by = post[s].by
               /\ \A i \in DOMAIN post[s].photos :
                    /\ kept[post[s].photos[i]].on # NoPlace
                    /\ kept[post[s].photos[i]].by = post[s].by
    <2>1. post[s].photos \in Seq(Photos)
      BY DEF SpotInv, SpotTables, PostRow
    <2>2. DOMAIN post[s].photos = 1..Len(post[s].photos)
      BY <2>1
    <2>. QED  BY <1>4, <2>2 DEF SpotInv, Stored, PhotosWritten, PhotoWritten
  <1>. QED  BY <1>1, <1>2, <1>3, <1>4 DEF ShownIsStored

THEOREM SpotsCorrect == SpotSpec => []ShownIsStored
  <1>1. SpotsInit => SpotInv
    BY SpotInvInit
  <1>2. SpotInv /\ [SpotStep]_spotVars => SpotInv'
    BY SpotInvNext
  <1>3. SpotInv => ShownIsStored
    BY SpotsStored
  <1>. QED  BY <1>1, <1>2, <1>3, PTL DEF SpotSpec

-----------------------------------------------------------------------------
(* Affiliates: what an approval leaves behind *)

Statuses == Decisions \cup {"received", "draft"}
AppRow == [of : Applicants \cup {NoBusiness}, status : Statuses, version : Nat,
           town : Towns \cup {NoBusiness}]
MerchantRow == [id : MerchantIds, source : Applications, town : Towns \cup {NoBusiness},
                area : Towns \cup {NoBusiness}]
Ownership == MerchantIds \X (Applicants \cup {NoBusiness})
AuditRow == [from : Statuses, to : Statuses, revision : Nat]
AffiliateRequest ==
  [at : {"idle", "asked", "begun", "committed", "placing"}, app : Applications \cup {NoBusiness},
   row : AppRow, from : Statuses, opens : SUBSET MerchantRow, joins : SUBSET Ownership,
   expected : Nat, area : Towns \cup {NoBusiness}]

AffiliateRows ==
  /\ filed \in [Applications -> AppRow] /\ audits \in [Applications -> Seq(AuditRow)]
  /\ merchants \in SUBSET MerchantRow /\ owners \in SUBSET Ownership
  /\ known \in [filed : [Applications -> AppRow], merchants : SUBSET MerchantRow,
                owners : SUBSET Ownership]
  /\ request \in [Requests -> AffiliateRequest]

\* What the memory knows of an application is whose it is; an approved one is a
\* merchant the applicant owns; its last audit tells its status.
Backed(a) == \E m \in merchants : m.source = a /\ <<m.id, filed[a].of>> \in owners
ApplicationInv(a) ==
  /\ filed[a] = NoApplication \/ filed[a].status # "draft"
  /\ known.filed[a] = NoApplication \/ known.filed[a].status # "draft"
  /\ known.filed[a].status # "draft" =>
       filed[a].status # "draft" /\ known.filed[a].of = filed[a].of
  /\ filed[a].status = "approved" => Backed(a)
  /\ audits[a] # <<>> => Last(audits[a]).to = filed[a].status

\* What a request has decided: for the applicant of the application, which the
\* memory knows unless this request is the one that makes it; and, if it
\* approves, with a merchant of the application and its owner, there or brought.
Provided(t) ==
  \E m \in merchants \cup t.opens :
    m.source = t.app /\ <<m.id, filed[t.app].of>> \in owners \cup t.joins
Decided(t) ==
  /\ t.row.status # "draft"
  /\ t.row.status # "received" => known.filed[t.app].status # "draft"
  /\ filed[t.app].status # "draft" => t.row.of = filed[t.app].of
  /\ \A m \in t.opens : m.source = t.app /\ m.area = NoBusiness
  /\ \A m, n \in t.opens : m = n
RequestInv(t) ==
  /\ t.at # "idle" => t.app \in Applications
  /\ t.at = "asked" => known.filed[t.app].status # "draft" /\ t.row.status \in Decisions
  /\ t.at \in {"begun", "committed"} => Decided(t)
  /\ t.at = "begun" /\ t.row.status = "approved" => Provided(t)
  /\ t.at = "committed" =>
       filed[t.app].status # "draft" /\ t.opens \subseteq Unplaced /\ t.joins \subseteq owners
MakesAlone(r, q) ==
  request[r].at # "idle" /\ request[q].at # "idle" /\ request[r].app = request[q].app
    /\ filed[request[r].app].status = "draft" => r = q

\* No two applications of one applicant are under review.
Reviewed == {"received", "in_review"}
AloneUnderReview(a, b) ==
  filed[a].of = filed[b].of /\ filed[a].status \in Reviewed /\ filed[b].status \in Reviewed => a = b

AffiliateInv ==
  /\ AffiliateRows
  /\ \A m, n \in merchants : m.source = n.source => m = n
  /\ known.merchants \subseteq Unplaced /\ known.owners \subseteq owners
  /\ \A a \in Applications : ApplicationInv(a)
  /\ \A a, b \in Applications : AloneUnderReview(a, b)
  /\ \A r \in Requests : RequestInv(request[r])
  /\ \A r, q \in Requests : MakesAlone(r, q)

LEMMA AffiliatesBacked ==
  ASSUME AffiliateInv
  PROVE  ApprovalsAreBacked
  <1>1. \A a \in Applications : filed[a].status = "approved" =>
          \E m \in merchants : m.source = a /\ <<m.id, filed[a].of>> \in owners
    BY DEF AffiliateInv, ApplicationInv, Backed
  <1>2. \A a, b \in Applications :
          filed[a].of = filed[b].of /\ {filed[a].status, filed[b].status} \subseteq {"received", "in_review"}
            => a = b
    BY DEF AffiliateInv, AloneUnderReview, Reviewed
  <1>3. \A a \in Applications : audits[a] # <<>> => Last(audits[a]).to = filed[a].status
    BY DEF AffiliateInv, ApplicationInv
  <1>4. \A m, n \in merchants : m.source = n.source => m = n
    BY DEF AffiliateInv
  <1>5. known.merchants \subseteq Unplaced /\ known.owners \subseteq owners
    BY DEF AffiliateInv
  <1>. QED  BY <1>1, <1>2, <1>3, <1>4, <1>5 DEF ApprovalsAreBacked

\* An empty row, and a request that is none.
LEMMA EmptyRows ==
  /\ NoApplication.status = "draft" /\ NoApplication \in AppRow
  /\ NoRequest \in AffiliateRequest /\ NoRequest.at = "idle" /\ NoRequest.row.status = "draft"
  /\ NoRequest.opens = {}
  <1>1. NoApplication.status = "draft" /\ NoApplication \in AppRow
    BY DEF NoApplication, AppRow, Statuses
  <1>. QED  BY <1>1 DEF NoRequest, AffiliateRequest, Statuses

\* Merchants without their areas are merchants, in the tables or the memory.
LEMMA BareRows ==
  ASSUME NEW M \in SUBSET MerchantRow, NEW U, U = {[m EXCEPT !.area = NoBusiness] : m \in M}
  PROVE  /\ U \in SUBSET MerchantRow
         /\ \A m \in U : m.area = NoBusiness
         /\ \A m \in U : \E n \in M : n.id = m.id /\ n.source = m.source
         /\ \A m \in M : m.area = NoBusiness => m \in U
  <1>. DEFINE u(m) == [m EXCEPT !.area = NoBusiness]
  <1>1. \A m \in M : u(m) \in MerchantRow /\ u(m).area = NoBusiness /\ u(m).id = m.id
                     /\ u(m).source = m.source /\ (m.area = NoBusiness => u(m) = m)
    BY DEF MerchantRow
  <1>2. U = {u(m) : m \in M}
    OBVIOUS
  <1>. HIDE DEF u
  <1>. QED  BY <1>1, <1>2

LEMMA UnplacedRows ==
  ASSUME AffiliateRows
  PROVE  /\ Unplaced \in SUBSET MerchantRow
         /\ \A m \in Unplaced : m.area = NoBusiness
         /\ \A m \in Unplaced : \E n \in merchants : n.id = m.id /\ n.source = m.source
         /\ \A m \in merchants : m.area = NoBusiness => m \in Unplaced
  <1>1. PICK M, U : M = merchants /\ U = Unplaced
    OBVIOUS
  <1>2. M \in SUBSET MerchantRow /\ U = {[m EXCEPT !.area = NoBusiness] : m \in M}
    BY <1>1 DEF AffiliateRows, Unplaced
  <1>3. /\ U \in SUBSET MerchantRow
        /\ \A m \in U : m.area = NoBusiness
        /\ \A m \in U : \E n \in M : n.id = m.id /\ n.source = m.source
        /\ \A m \in M : m.area = NoBusiness => m \in U
    BY <1>2, BareRows
  <1>. QED  BY <1>1, <1>3

\* Requests of one application keep what they decided when a step changes only
\* one other request.
LEMMA RequestsStand ==
  ASSUME AffiliateInv, NEW r \in Requests, NEW t \in AffiliateRequest,
         UNCHANGED <<affiliateTables, known>>, request' = [request EXCEPT ![r] = t],
         RequestInv(t),
         \A q \in Requests \ {r} : t.at # "idle" /\ request[q].at # "idle" /\ request[q].app = t.app
                                   => filed[t.app].status # "draft"
  PROVE  AffiliateInv'
  <1>1. /\ UNCHANGED <<filed, audits, merchants, owners, known>>
        /\ request' \in [Requests -> AffiliateRequest] /\ request'[r] = t
        /\ \A q \in Requests \ {r} : request'[q] = request[q]
    BY DEF affiliateTables, AffiliateInv, AffiliateRows
  <1>2. AffiliateRows'
    BY <1>1 DEF AffiliateInv, AffiliateRows
  <1>3. Unplaced' = Unplaced
    BY <1>1 DEF Unplaced
  <1>4. \A m, n \in merchants' : m.source = n.source => m = n
    BY <1>1 DEF AffiliateInv
  <1>5. known'.merchants \subseteq Unplaced' /\ known'.owners \subseteq owners'
    BY <1>1, <1>3 DEF AffiliateInv
  <1>6. \A a \in Applications : ApplicationInv(a)'
    BY <1>1 DEF AffiliateInv, ApplicationInv, Backed
  <1>7. \A a, b \in Applications : AloneUnderReview(a, b)'
    BY <1>1 DEF AffiliateInv, AloneUnderReview
  <1>8. ASSUME NEW q \in Requests  PROVE RequestInv(request[q])'
    <2>1. PICK u : u = request'[q] /\ RequestInv(u)
      BY <1>1 DEF AffiliateInv
    <2>. QED  BY <1>1, <1>3, <2>1 DEF RequestInv, Decided, Provided
  <1>9. \A p, q \in Requests : MakesAlone(p, q)'
    BY <1>1 DEF AffiliateInv, MakesAlone
  <1>. QED  BY <1>2, <1>4, <1>5, <1>6, <1>7, <1>8, <1>9 DEF AffiliateInv

LEMMA RequestEnds ==
  ASSUME AffiliateInv, NEW r \in Requests, Ask(r, NoRequest), UNCHANGED <<affiliateTables, known>>
  PROVE  AffiliateInv'
  <1>1. PICK t \in AffiliateRequest : t = NoRequest /\ t.at = "idle"
    BY EmptyRows
  <1>2. RequestInv(t)
    BY <1>1 DEF RequestInv
  <1>. QED  BY <1>1, <1>2, RequestsStand DEF Ask

LEMMA CreateSteps ==
  ASSUME AffiliateInv, NEW r \in Requests, NEW u \in Applicants, NEW a \in Applications,
         NEW town \in Towns, CreateApplication(r, u, a, town)
  PROVE  AffiliateInv'
  <1>1. PICK filing : filing = [of |-> u, status |-> "received", version |-> 1, town |-> town]
    OBVIOUS
  <1>2. filing \in AppRow /\ filing.status = "received"
    BY <1>1 DEF AppRow, Statuses
  <1>3. PICK t : t = [NoRequest EXCEPT !.at = "begun", !.app = a, !.row = filing]
    OBVIOUS
  <1>4. t \in AffiliateRequest /\ t.at = "begun" /\ t.app = a /\ t.row = filing /\ t.opens = {}
    BY <1>2, <1>3, EmptyRows DEF AffiliateRequest
  <1>5. /\ filed[a] = NoApplication /\ \A q \in Requests : request[q].app # a
        /\ request' = [request EXCEPT ![r] = t] /\ UNCHANGED <<affiliateTables, known>>
    BY <1>1, <1>3 DEF CreateApplication, Ask
  <1>6. RequestInv(t)
    BY <1>2, <1>4, <1>5, EmptyRows DEF RequestInv, Decided
  <1>. QED  BY <1>4, <1>5, <1>6, RequestsStand

LEMMA ResubmitSteps ==
  ASSUME AffiliateInv, NEW r \in Requests, NEW a \in Applications,
         NEW town \in Towns, ResubmitApplication(r, a, town)
  PROVE  AffiliateInv'
  <1>1. PICK old : old = known.filed[a]
    OBVIOUS
  <1>2. old \in AppRow
    BY <1>1 DEF AffiliateInv, AffiliateRows
  <1>3. PICK filing : filing = [old EXCEPT !.status = "received", !.version = @ + 1, !.town = town]
    OBVIOUS
  <1>4. filing \in AppRow /\ filing.status = "received" /\ filing.of = old.of
    <2>1. PICK v \in Nat : v = old.version + 1
      BY <1>2 DEF AppRow
    <2>2. filing = [old EXCEPT !.status = "received", !.version = v, !.town = town]
      BY <1>2, <1>3, <2>1 DEF AppRow
    <2>3. "received" \in Statuses
      BY DEF Statuses
    <2>. QED  BY <1>2, <2>2, <2>3 DEF AppRow
  <1>5. PICK t : t = [NoRequest EXCEPT !.at = "begun", !.app = a, !.from = "needs_changes", !.row = filing]
    OBVIOUS
  <1>6. t \in AffiliateRequest /\ t.at = "begun" /\ t.app = a /\ t.row = filing /\ t.opens = {}
    BY <1>4, <1>5, EmptyRows DEF AffiliateRequest, Statuses, Decisions
  <1>7. /\ old.status = "needs_changes"
        /\ request' = [request EXCEPT ![r] = t] /\ UNCHANGED <<affiliateTables, known>>
    BY <1>1, <1>3, <1>5 DEF ResubmitApplication, Ask
  <1>8. filed[a].status # "draft" /\ old.of = filed[a].of
    BY <1>1, <1>7 DEF AffiliateInv, ApplicationInv
  <1>9. RequestInv(t)
    BY <1>4, <1>6, <1>8 DEF RequestInv, Decided
  <1>. QED  BY <1>6, <1>7, <1>8, <1>9, RequestsStand

LEMMA ReviewRequestedSteps ==
  ASSUME AffiliateInv, NEW r \in Requests, NEW a \in Applications, NEW to \in Decisions,
         NEW expected \in Nat, ReviewRequested(r, a, to, expected)
  PROVE  AffiliateInv'
  <1>1. PICK area \in Towns \cup {NoBusiness} :
          area = IF known.filed[a].town \in AreaTowns THEN known.filed[a].town ELSE NoBusiness
    BY AffiliatesAssumption
  <1>2. PICK filing : filing = [NoRequest.row EXCEPT !.status = to]
    OBVIOUS
  <1>3. filing \in AppRow /\ filing.status = to
    BY <1>2, EmptyRows DEF AppRow, Statuses, AffiliateRequest
  <1>4. PICK t : t = [NoRequest EXCEPT !.at = "asked", !.app = a, !.row = filing,
                                       !.expected = expected, !.area = area]
    OBVIOUS
  <1>5. t \in AffiliateRequest /\ t.at = "asked" /\ t.app = a /\ t.row = filing
    BY <1>1, <1>3, <1>4, EmptyRows DEF AffiliateRequest
  <1>6. /\ known.filed[a] # NoApplication
        /\ request' = [request EXCEPT ![r] = t] /\ UNCHANGED <<affiliateTables, known>>
    <2>1. t = [NoRequest EXCEPT !.at = "asked", !.app = a, !.row.status = to,
                                !.expected = expected, !.area = area]
      BY <1>2, <1>4, EmptyRows DEF AffiliateRequest, AppRow
    <2>. QED  BY <1>1, <2>1 DEF ReviewRequested, Ask
  <1>7. known.filed[a].status # "draft" /\ filed[a].status # "draft"
    BY <1>6 DEF AffiliateInv, ApplicationInv
  <1>8. RequestInv(t)
    BY <1>3, <1>5, <1>7 DEF RequestInv
  <1>. QED  BY <1>5, <1>6, <1>7, <1>8, RequestsStand

\* An approval opens a merchant, or takes the one the memory knows.
LEMMA UpdateSteps ==
  ASSUME AffiliateInv, NEW r \in Requests, NEW id \in MerchantIds, UpdateApplicationStatus(r, id)
  PROVE  AffiliateInv'
  <1>1. PICK old, a, app, to : old = request[r] /\ a = old.app /\ app = known.filed[a]
                               /\ to = old.row.status
    OBVIOUS
  <1>2. /\ old \in AffiliateRequest /\ old.at = "asked" /\ a \in Applications /\ app \in AppRow
        /\ to \in Decisions /\ app.status # "draft" /\ UNCHANGED <<affiliateTables, known>>
    <2>1. old \in AffiliateRequest /\ RequestInv(old)
      BY <1>1 DEF AffiliateInv, AffiliateRows
    <2>2. old.at = "asked" /\ UNCHANGED <<affiliateTables, known>>
      BY <1>1 DEF UpdateApplicationStatus
    <2>3. a \in Applications /\ app.status # "draft" /\ to \in Decisions
      BY <1>1, <2>1, <2>2 DEF RequestInv
    <2>. QED  BY <1>1, <2>1, <2>2, <2>3 DEF AffiliateInv, AffiliateRows
  <1>3. filed[a].status # "draft" /\ app.of = filed[a].of
    BY <1>1, <1>2 DEF AffiliateInv, ApplicationInv
  <1>4. PICK opens : opens = IF to = "approved" THEN BuildMerchantProvision(a, id) ELSE {}
    OBVIOUS
  <1>5. PICK brought : brought = {<<m.id, app.of>> : m \in opens \cup MerchantOf(a)}
    OBVIOUS
  <1>6. PICK joins : joins = IF to = "approved" THEN brought \ known.owners ELSE {}
    OBVIOUS
  <1>7. PICK new : new = [id |-> id, source |-> a, town |-> app.town, area |-> NoBusiness]
    OBVIOUS
  <1>8. new \in MerchantRow /\ new.source = a /\ new.area = NoBusiness
    BY <1>2, <1>7 DEF MerchantRow, AppRow
  <1>9. /\ opens \subseteq {new}
        /\ to = "approved" => new \in opens \/ \E m \in MerchantOf(a) : TRUE
    BY <1>1, <1>4, <1>7 DEF BuildMerchantProvision
  <1>10. \A m \in MerchantOf(a) : m \in MerchantRow /\ m.source = a /\ m \in Unplaced
    BY DEF MerchantOf, AffiliateInv, AffiliateRows
  <1>11. brought \subseteq Ownership
    BY <1>2, <1>5, <1>8, <1>9, <1>10 DEF Ownership, MerchantRow, AppRow
  <1>12. opens \in SUBSET MerchantRow /\ joins \in SUBSET Ownership
    BY <1>6, <1>8, <1>9, <1>11
  <1>13. CASE old.expected \notin {0, app.version}
    <2>1. Ask(r, NoRequest)
      BY <1>1, <1>13 DEF UpdateApplicationStatus
    <2>. QED  BY <1>2, <2>1, RequestEnds
  <1>14. CASE old.expected \in {0, app.version}
    <2>1. PICK filing : filing = [app EXCEPT !.status = to]
      OBVIOUS
    <2>2. filing \in AppRow /\ filing.status = to /\ filing.of = app.of
      BY <1>2, <2>1 DEF AppRow, Statuses
    <2>3. PICK t : t = [old EXCEPT !.at = "begun", !.from = app.status,
                          !.row = filing, !.opens = opens, !.joins = joins]
      OBVIOUS
    <2>4. /\ t \in AffiliateRequest /\ t.at = "begun" /\ t.app = a /\ t.row = filing
          /\ t.opens = opens /\ t.joins = joins
      <3>1. app.status \in Statuses
        BY <1>2 DEF AppRow
      <3>. QED  BY <1>1, <1>2, <1>12, <2>2, <2>3, <3>1 DEF AffiliateRequest
    <2>5. request' = [request EXCEPT ![r] = t]
      BY <1>1, <1>4, <1>5, <1>6, <1>14, <2>1, <2>3 DEF UpdateApplicationStatus, Ask
    <2>6. Decided(t)
      <3>1. to # "draft" /\ to # "received"
        BY <1>2 DEF Decisions
      <3>. QED  BY <1>1, <1>2, <1>3, <1>8, <1>9, <2>2, <2>4, <3>1 DEF Decided
    <2>7. ASSUME to = "approved"  PROVE Provided(t)
      <3>1. joins = brought \ known.owners
        BY <1>6, <2>7
      <3>2. \A m \in opens \cup MerchantOf(a) : <<m.id, filed[a].of>> \in owners \cup joins
        BY <1>3, <1>5, <3>1 DEF AffiliateInv
      <3>3. CASE new \in opens
        BY <1>8, <2>4, <3>2, <3>3 DEF Provided
      <3>4. ASSUME NEW m \in MerchantOf(a)  PROVE Provided(t)
        <4>1. PICK n \in merchants : n.id = m.id /\ n.source = a
          BY <1>10, UnplacedRows DEF AffiliateInv
        <4>2. <<n.id, filed[a].of>> \in owners \cup joins
          BY <3>2, <4>1
        <4>. QED  BY <2>4, <4>1, <4>2 DEF Provided
      <3>. QED  BY <1>9, <2>7, <3>3, <3>4
    <2>8. RequestInv(t)
      BY <1>2, <2>2, <2>4, <2>6, <2>7 DEF RequestInv
    <2>. QED  BY <1>2, <1>3, <2>4, <2>5, <2>8, RequestsStand
  <1>. QED  BY <1>13, <1>14

\* The tables a request may leave behind: merchants and owners only grow, an
\* application keeps its applicant once it has one.
TablesGrow ==
  /\ \A m \in merchants : \E n \in merchants' : n.id = m.id /\ n.source = m.source
  /\ Unplaced \subseteq Unplaced' /\ owners \subseteq owners'
  /\ \A a \in Applications : filed[a].status # "draft" =>
       filed'[a].status # "draft" /\ filed'[a].of = filed[a].of

LEMMA RequestKept ==
  ASSUME AffiliateInv, TablesGrow, NEW q \in Requests, request'[q] = request[q],
         request[q].at # "idle",
         filed[request[q].app].status # "draft" \/ filed'[request[q].app] = filed[request[q].app],
         known.filed[request[q].app].status # "draft" => known'.filed[request[q].app].status # "draft"
  PROVE  RequestInv(request[q])'
  <1>1. PICK u : u = request[q] /\ RequestInv(u)
    BY DEF AffiliateInv
  <1>2. u.app \in Applications
    BY <1>1 DEF RequestInv
  <1>3. filed[u.app].status # "draft" => filed'[u.app].status # "draft" /\ filed'[u.app].of = filed[u.app].of
    BY <1>2 DEF TablesGrow
  <1>4. Decided(u) => Decided(u)'
    BY <1>1, <1>3 DEF Decided
  <1>5. filed'[u.app].of = filed[u.app].of
    BY <1>1, <1>3
  <1>6. Provided(u) => Provided(u)'
    <2>. SUFFICES ASSUME Provided(u) PROVE Provided(u)'
      OBVIOUS
    <2>1. PICK m \in merchants \cup u.opens :
            m.source = u.app /\ <<m.id, filed[u.app].of>> \in owners \cup u.joins
      BY DEF Provided
    <2>2. PICK n \in merchants' \cup u.opens : n.id = m.id /\ n.source = m.source
      BY <2>1 DEF TablesGrow
    <2>3. <<n.id, filed'[u.app].of>> \in owners' \cup u.joins
      BY <1>5, <2>1, <2>2 DEF TablesGrow
    <2>. QED  BY <2>1, <2>2, <2>3 DEF Provided
  <1>7. u.at = "committed" =>
          filed'[u.app].status # "draft" /\ u.opens \subseteq Unplaced' /\ u.joins \subseteq owners'
    BY <1>1, <1>3 DEF RequestInv, TablesGrow
  <1>8. RequestInv(u)'
    BY <1>1, <1>4, <1>6, <1>7 DEF RequestInv
  <1>. QED  BY <1>1, <1>8

LEMMA CommitSteps ==
  ASSUME AffiliateInv, NEW r \in Requests, RunDurableTransaction(r)
  PROVE  AffiliateInv'
  <1>1. PICK t, a, filing : t = request[r] /\ a = t.app /\ filing = Written(r, filed[a])
    OBVIOUS
  <1>2. t.at = "begun" /\ UNCHANGED known
    BY <1>1 DEF RunDurableTransaction
  <1>3. t \in AffiliateRequest /\ a \in Applications /\ Decided(t)
        /\ (t.row.status = "approved" => Provided(t))
    BY <1>1, <1>2 DEF AffiliateInv, AffiliateRows, RequestInv
  <1>4. CASE Ask(r, NoRequest) /\ UNCHANGED affiliateTables
    BY <1>2, <1>4, RequestEnds
  <1>5. CASE /\ OneUnderReview(a, filing) /\ OneMerchantEach(r)
             /\ filed' = [filed EXCEPT ![a] = filing]
             /\ audits' = [audits EXCEPT ![a] = Append(@, Audit(r))]
             /\ merchants' = merchants \cup t.opens
             /\ owners' = owners \cup t.joins
             /\ Ask(r, [t EXCEPT !.at = "committed"])
    <2>1. /\ filing \in AppRow /\ filing.status = t.row.status /\ filing.status # "draft"
          /\ filed[a].status # "draft" => filing.of = filed[a].of
          /\ filing.of = t.row.of
      <3>1. t.row \in AppRow /\ filed[a] \in AppRow
        BY <1>3 DEF AffiliateRequest, AffiliateInv, AffiliateRows
      <3>2. CASE t.row.status = "received"
        <4>1. filing = t.row
          BY <1>1, <3>2 DEF Written
        <4>. QED  BY <1>1, <1>3, <3>1, <4>1 DEF Decided
      <3>3. CASE t.row.status # "received"
        <4>1. filing = [filed[a] EXCEPT !.status = t.row.status]
          BY <1>1, <3>3 DEF Written
        <4>2. filing \in AppRow /\ filing.status = t.row.status /\ filing.of = filed[a].of
          BY <3>1, <4>1 DEF AppRow
        <4>3. filed[a].status # "draft"
          BY <1>1, <1>3, <3>3 DEF Decided, AffiliateInv, ApplicationInv
        <4>. QED  BY <1>1, <1>3, <4>2, <4>3 DEF Decided
      <3>. QED  BY <3>2, <3>3
    <2>2. PICK entry : entry = Audit(r)
      OBVIOUS
    <2>3. entry \in AuditRow /\ entry.to = filing.status
      BY <1>1, <1>3, <2>1, <2>2 DEF Audit, AuditRow, AffiliateRequest, AppRow
    <2>4. PICK new : new = [t EXCEPT !.at = "committed"]
      OBVIOUS
    <2>5. /\ new \in AffiliateRequest /\ new.at = "committed" /\ new.app = a /\ new.row = t.row
          /\ new.opens = t.opens /\ new.joins = t.joins
      BY <1>1, <1>3, <2>4 DEF AffiliateRequest
    <2>6. /\ request' \in [Requests -> AffiliateRequest] /\ request'[r] = new
          /\ \A q \in Requests \ {r} : request'[q] = request[q]
      BY <1>5, <2>4, <2>5 DEF Ask, AffiliateInv, AffiliateRows
    <2>7. /\ filed' \in [Applications -> AppRow] /\ filed'[a] = filing
          /\ \A b \in Applications \ {a} : filed'[b] = filed[b]
      BY <1>3, <1>5, <2>1 DEF AffiliateInv, AffiliateRows
    <2>8. /\ audits' \in [Applications -> Seq(AuditRow)] /\ Last(audits'[a]) = entry
          /\ \A b \in Applications \ {a} : audits'[b] = audits[b]
      <3>1. audits \in [Applications -> Seq(AuditRow)] /\ audits[a] \in Seq(AuditRow)
        BY <1>3 DEF AffiliateInv, AffiliateRows
      <3>2. audits' = [audits EXCEPT ![a] = Append(audits[a], entry)]
        BY <1>5, <2>2
      <3>3. Append(audits[a], entry) \in Seq(AuditRow) /\ Last(Append(audits[a], entry)) = entry
        BY <2>3, <3>1 DEF Last
      <3>. QED  BY <1>3, <3>1, <3>2, <3>3
    <2>9. /\ merchants' \in SUBSET MerchantRow /\ owners' \in SUBSET Ownership
          /\ merchants \subseteq merchants' /\ owners \subseteq owners'
      BY <1>3, <1>5 DEF AffiliateInv, AffiliateRows, AffiliateRequest
    <2>10. AffiliateRows'
      BY <1>2, <2>6, <2>7, <2>8, <2>9 DEF AffiliateInv, AffiliateRows
    <2>11. Unplaced \subseteq Unplaced'
      BY <2>9 DEF Unplaced
    <2>12. TablesGrow
      BY <2>1, <2>7, <2>9, <2>11 DEF TablesGrow
    <2>13. \A m \in merchants' : m.area = NoBusiness => m \in Unplaced'
      <3>1. merchants' \in SUBSET MerchantRow
            /\ Unplaced' = {[m EXCEPT !.area = NoBusiness] : m \in merchants'}
        BY <2>9 DEF Unplaced
      <3>. QED  BY <3>1, BareRows
    <2>14. \A m, n \in merchants' : m.source = n.source => m = n
      <3>1. \A m \in t.opens : m.source = a /\ \A n \in merchants : n.source # a
        BY <1>1, <1>3, <1>5 DEF Decided, OneMerchantEach
      <3>2. \A m, n \in t.opens : m = n
        BY <1>3 DEF Decided
      <3>3. \A m, n \in merchants : m.source = n.source => m = n
        BY DEF AffiliateInv
      <3>. QED  BY <1>5, <3>1, <3>2, <3>3
    <2>15. known'.merchants \subseteq Unplaced' /\ known'.owners \subseteq owners'
      BY <1>2, <2>9, <2>11 DEF AffiliateInv
    <2>16. ASSUME NEW b \in Applications  PROVE ApplicationInv(b)'
      <3>1. CASE b # a
        <4>1. Backed(b) => Backed(b)'
          BY <2>7, <2>9, <3>1 DEF Backed
        <4>. QED  BY <1>2, <2>7, <2>8, <3>1, <4>1 DEF AffiliateInv, ApplicationInv
      <3>2. CASE b = a
        <4>1. filing.status = "approved" => Backed(a)'
          <5>. SUFFICES ASSUME filing.status = "approved" PROVE Backed(a)'
            OBVIOUS
          <5>1. PICK m \in merchants \cup t.opens :
                  m.source = a /\ <<m.id, filed[a].of>> \in owners \cup t.joins
            BY <1>1, <1>3, <2>1 DEF Provided
          <5>2. filed[a].status # "draft"
            BY <1>1, <1>3, <2>1 DEF Decided, AffiliateInv, ApplicationInv
          <5>. QED  BY <1>5, <2>1, <2>7, <5>1, <5>2 DEF Backed
        <4>. QED  BY <1>2, <2>1, <2>3, <2>7, <2>8, <3>2, <4>1 DEF AffiliateInv, ApplicationInv
      <3>. QED  BY <3>1, <3>2
    <2>17. ASSUME NEW b \in Applications, NEW c \in Applications  PROVE AloneUnderReview(b, c)'
      <3>1. filing.status \in Reviewed =>
              \A d \in Applications \ {a} : filed[d].of = filing.of => filed[d].status \notin Reviewed
        BY <1>5 DEF OneUnderReview, Reviewed
      <3>. QED  BY <2>7, <3>1 DEF AffiliateInv, AloneUnderReview
    <2>18. ASSUME NEW q \in Requests  PROVE RequestInv(request[q])'
      <3>1. CASE q = r
        <4>1. Decided(new)'
          BY <1>2, <1>3, <1>1, <2>1, <2>5, <2>7 DEF Decided
        <4>2. new.opens \subseteq Unplaced' /\ new.joins \subseteq owners'
          BY <1>3, <1>5, <2>5, <2>13 DEF Decided
        <4>3. RequestInv(new)'
          BY <1>3, <2>1, <2>5, <2>7, <4>1, <4>2 DEF RequestInv
        <4>. QED  BY <2>6, <3>1, <4>3
      <3>2. CASE q # r /\ request[q].at # "idle"
        <4>1. request[q].app \in Applications
          BY <3>2 DEF AffiliateInv, RequestInv
        <4>2. request[q].app = a => filed[a].status # "draft"
          BY <1>1, <1>2, <3>2 DEF AffiliateInv, MakesAlone
        <4>3. filed[request[q].app].status # "draft" \/ filed'[request[q].app] = filed[request[q].app]
          BY <2>7, <4>1, <4>2
        <4>4. request'[q] = request[q]
          BY <2>6, <3>2
        <4>. QED  BY <1>2, <2>12, <3>2, <4>3, <4>4, RequestKept
      <3>3. CASE q # r /\ request[q].at = "idle"
        BY <2>6, <3>3 DEF RequestInv
      <3>. QED  BY <3>1, <3>2, <3>3
    <2>19. ASSUME NEW p \in Requests, NEW q \in Requests  PROVE MakesAlone(p, q)'
      <3>1. \A s \in Requests : request'[s].app = request[s].app
                                /\ (request'[s].at # "idle" => request[s].at # "idle")
        BY <1>1, <1>2, <2>5, <2>6
      <3>2. request[p].at # "idle" => request[p].app \in Applications
        BY DEF AffiliateInv, RequestInv
      <3>3. \A b \in Applications : filed'[b].status = "draft" => filed[b].status = "draft"
        BY <2>1, <2>7
      <3>. QED  BY <3>1, <3>2, <3>3 DEF AffiliateInv, MakesAlone
    <2>. QED  BY <2>10, <2>14, <2>15, <2>16, <2>17, <2>18, <2>19 DEF AffiliateInv
  <1>. QED  BY <1>1, <1>4, <1>5 DEF RunDurableTransaction

\* The memory's row is the table's in what the invariant says of it.
LEMMA PutInKnownSteps ==
  ASSUME AffiliateInv, NEW r \in Requests, PutInKnown(r)
  PROVE  AffiliateInv'
  <1>1. PICK t, a, filing : t = request[r] /\ a = t.app /\ filing = Written(r, known.filed[a])
    OBVIOUS
  <1>2. t.at = "committed" /\ UNCHANGED <<filed, audits, merchants, owners>>
    BY <1>1 DEF PutInKnown, affiliateTables
  <1>3. /\ t \in AffiliateRequest /\ a \in Applications /\ Decided(t)
        /\ filed[a].status # "draft" /\ t.opens \subseteq Unplaced /\ t.joins \subseteq owners
    BY <1>1, <1>2 DEF AffiliateInv, AffiliateRows, RequestInv
  <1>4. filing \in AppRow /\ filing.status # "draft" /\ filing.of = filed[a].of
    <2>1. t.row \in AppRow /\ known.filed[a] \in AppRow
      BY <1>3 DEF AffiliateRequest, AffiliateInv, AffiliateRows
    <2>2. CASE t.row.status = "received"
      <3>1. filing = t.row
        BY <1>1, <2>2 DEF Written
      <3>. QED  BY <1>1, <1>3, <2>1, <3>1 DEF Decided
    <2>3. CASE t.row.status # "received"
      <3>1. filing = [known.filed[a] EXCEPT !.status = t.row.status]
        BY <1>1, <2>3 DEF Written
      <3>2. filing \in AppRow /\ filing.status = t.row.status /\ filing.of = known.filed[a].of
        BY <2>1, <3>1 DEF AppRow
      <3>3. known.filed[a].of = filed[a].of
        BY <1>1, <1>3, <2>3 DEF Decided, AffiliateInv, ApplicationInv
      <3>. QED  BY <1>3, <3>2, <3>3 DEF Decided
    <2>. QED  BY <2>2, <2>3
  <1>5. /\ known'.filed = [known.filed EXCEPT ![a] = filing]
        /\ known'.merchants = known.merchants \cup t.opens
        /\ known'.owners = known.owners \cup t.joins
        /\ known' = [filed |-> known'.filed, merchants |-> known'.merchants, owners |-> known'.owners]
    BY <1>1 DEF PutInKnown
  <1>6. /\ known'.filed \in [Applications -> AppRow] /\ known'.filed[a] = filing
        /\ \A b \in Applications \ {a} : known'.filed[b] = known.filed[b]
    <2>1. known.filed \in [Applications -> AppRow]
      BY DEF AffiliateInv, AffiliateRows
    <2>. QED  BY <1>3, <1>4, <1>5, <2>1
  <1>7. known'.merchants \in SUBSET MerchantRow /\ known'.owners \in SUBSET Ownership
    BY <1>3, <1>5 DEF AffiliateInv, AffiliateRows, AffiliateRequest
  <1>8. known' \in [filed : [Applications -> AppRow], merchants : SUBSET MerchantRow,
                    owners : SUBSET Ownership]
    BY <1>5, <1>6, <1>7
  <1>9. PICK new \in {NoRequest, [t EXCEPT !.at = "placing"]} : request' = [request EXCEPT ![r] = new]
    BY <1>1 DEF PutInKnown, Ask
  <1>10. /\ new \in AffiliateRequest /\ new.at \in {"idle", "placing"}
         /\ new.at = "placing" => new.app = a
    BY <1>1, <1>3, <1>9, EmptyRows DEF AffiliateRequest
  <1>11. /\ request' \in [Requests -> AffiliateRequest] /\ request'[r] = new
         /\ \A q \in Requests \ {r} : request'[q] = request[q]
    BY <1>9, <1>10 DEF AffiliateInv, AffiliateRows
  <1>12. AffiliateRows'
    BY <1>2, <1>8, <1>11 DEF AffiliateInv, AffiliateRows
  <1>13. Unplaced' = Unplaced
    BY <1>2 DEF Unplaced
  <1>14. TablesGrow
    BY <1>2, <1>13 DEF TablesGrow
  <1>15. known'.merchants \subseteq Unplaced' /\ known'.owners \subseteq owners'
    BY <1>2, <1>3, <1>5, <1>13 DEF AffiliateInv
  <1>16. ASSUME NEW b \in Applications  PROVE ApplicationInv(b)'
    <2>1. Backed(b) => Backed(b)'
      BY <1>2 DEF Backed
    <2>. QED  BY <1>2, <1>3, <1>4, <1>6, <2>1 DEF AffiliateInv, ApplicationInv
  <1>17. \A b, c \in Applications : AloneUnderReview(b, c)'
    BY <1>2 DEF AffiliateInv, AloneUnderReview
  <1>18. \A b \in Applications : known.filed[b].status # "draft" => known'.filed[b].status # "draft"
    BY <1>4, <1>6
  <1>19. ASSUME NEW q \in Requests  PROVE RequestInv(request[q])'
    <2>1. CASE q = r
      BY <1>3, <1>10, <1>11, <2>1 DEF RequestInv
    <2>2. CASE q # r /\ request[q].at # "idle"
      <3>1. request[q].app \in Applications
        BY <2>2 DEF AffiliateInv, RequestInv
      <3>2. request'[q] = request[q]
        BY <1>11, <2>2
      <3>. QED  BY <1>2, <1>14, <1>18, <2>2, <3>1, <3>2, RequestKept
    <2>3. CASE q # r /\ request[q].at = "idle"
      BY <1>11, <2>3 DEF RequestInv
    <2>. QED  BY <2>1, <2>2, <2>3
  <1>20. ASSUME NEW p \in Requests, NEW q \in Requests  PROVE MakesAlone(p, q)'
    <2>1. \A s \in Requests : request'[s].at # "idle" =>
            request[s].at # "idle" /\ request'[s].app = request[s].app
      BY <1>1, <1>2, <1>10, <1>11
    <2>. QED  BY <1>2, <2>1 DEF AffiliateInv, MakesAlone
  <1>21. \A m, n \in merchants' : m.source = n.source => m = n
    BY <1>2 DEF AffiliateInv
  <1>. QED  BY <1>12, <1>15, <1>16, <1>17, <1>19, <1>20, <1>21 DEF AffiliateInv

\* A merchant gets its area: its id, its application and its owners stay.
LEMMA PlaceSteps ==
  ASSUME AffiliateInv, NEW r \in Requests, PlaceMerchant(r)
  PROVE  AffiliateInv'
  <1>1. PICK t : t = request[r]
    OBVIOUS
  <1>2. /\ t.at = "placing" /\ t \in AffiliateRequest /\ t.area \in Towns \cup {NoBusiness}
        /\ UNCHANGED <<filed, audits, owners, known>>
    BY <1>1 DEF PlaceMerchant, AffiliateInv, AffiliateRows, AffiliateRequest
  <1>. DEFINE placed(m) == IF m.source = t.app /\ m.area = NoBusiness
                           THEN [m EXCEPT !.area = t.area] ELSE m
              bare(m) == [m EXCEPT !.area = NoBusiness]
  <1>3. merchants' = {placed(m) : m \in merchants}
    BY <1>1 DEF PlaceMerchant
  <1>4. \A m \in merchants : /\ placed(m) \in MerchantRow /\ placed(m).id = m.id
                             /\ placed(m).source = m.source /\ bare(placed(m)) = bare(m)
    <2>. SUFFICES ASSUME NEW m \in merchants
                  PROVE  /\ placed(m) \in MerchantRow /\ placed(m).id = m.id
                         /\ placed(m).source = m.source /\ bare(placed(m)) = bare(m)
      OBVIOUS
    <2>1. m \in MerchantRow
      BY DEF AffiliateInv, AffiliateRows
    <2>2. CASE m.source = t.app /\ m.area = NoBusiness
      BY <1>2, <2>1, <2>2 DEF MerchantRow
    <2>3. CASE ~(m.source = t.app /\ m.area = NoBusiness)
      BY <2>1, <2>3
    <2>. QED  BY <2>2, <2>3
  <1>5. Unplaced = {bare(m) : m \in merchants} /\ Unplaced' = {bare(m) : m \in merchants'}
    BY DEF Unplaced
  <1>. HIDE DEF placed, bare
  <1>6. Unplaced' = Unplaced
    BY <1>3, <1>4, <1>5
  <1>7. merchants' \in SUBSET MerchantRow
    BY <1>3, <1>4
  <1>8. \A m \in merchants : \E n \in merchants' : n.id = m.id /\ n.source = m.source
    BY <1>3, <1>4
  <1>9. TablesGrow
    BY <1>2, <1>6, <1>8 DEF TablesGrow
  <1>10. PICK none \in AffiliateRequest : none = NoRequest /\ none.at = "idle"
    BY EmptyRows
  <1>11. /\ request' \in [Requests -> AffiliateRequest] /\ request'[r] = none
         /\ \A q \in Requests \ {r} : request'[q] = request[q]
    <2>1. request' = [request EXCEPT ![r] = none]
      BY <1>10 DEF PlaceMerchant, Ask
    <2>. QED  BY <2>1, <1>10 DEF AffiliateInv, AffiliateRows
  <1>12. AffiliateRows'
    BY <1>2, <1>7, <1>11 DEF AffiliateInv, AffiliateRows
  <1>13. \A m, n \in merchants' : m.source = n.source => m = n
    BY <1>3, <1>4 DEF AffiliateInv
  <1>14. known'.merchants \subseteq Unplaced' /\ known'.owners \subseteq owners'
    BY <1>2, <1>6 DEF AffiliateInv
  <1>15. ASSUME NEW b \in Applications  PROVE ApplicationInv(b)'
    <2>1. Backed(b) => Backed(b)'
      BY <1>2, <1>8 DEF Backed
    <2>. QED  BY <1>2, <2>1 DEF AffiliateInv, ApplicationInv
  <1>16. \A b, c \in Applications : AloneUnderReview(b, c)'
    BY <1>2 DEF AffiliateInv, AloneUnderReview
  <1>17. ASSUME NEW q \in Requests  PROVE RequestInv(request[q])'
    <2>1. CASE q # r /\ request[q].at # "idle"
      <3>1. request'[q] = request[q]
        BY <1>11, <2>1
      <3>. QED  BY <1>2, <1>9, <2>1, <3>1, RequestKept
    <2>2. CASE q = r \/ request[q].at = "idle"
      BY <1>10, <1>11, <2>2 DEF RequestInv
    <2>. QED  BY <2>1, <2>2
  <1>18. ASSUME NEW p \in Requests, NEW q \in Requests  PROVE MakesAlone(p, q)'
    <2>1. \A s \in Requests : request'[s].at # "idle" =>
            request[s].at # "idle" /\ request'[s].app = request[s].app
      BY <1>10, <1>11
    <2>. QED  BY <1>2, <2>1 DEF AffiliateInv, MakesAlone
  <1>. QED  BY <1>12, <1>13, <1>14, <1>15, <1>16, <1>17, <1>18 DEF AffiliateInv

LEMMA HydrateSteps ==
  ASSUME AffiliateInv, HydrateAffiliates
  PROVE  AffiliateInv'
  <1>1. PICK bare : bare = Unplaced
    OBVIOUS
  <1>2. /\ known' = [filed |-> filed, merchants |-> bare, owners |-> owners]
        /\ UNCHANGED <<filed, audits, merchants, owners>>
    BY <1>1 DEF HydrateAffiliates, affiliateTables
  <1>3. known'.filed = filed /\ known'.merchants = bare /\ known'.owners = owners /\ Unplaced' = bare
    BY <1>1, <1>2 DEF Unplaced
  <1>4. bare \in SUBSET MerchantRow
    BY <1>1, UnplacedRows DEF AffiliateInv
  <1>5. request' \in [Requests -> AffiliateRequest] /\ \A r \in Requests : request'[r].at = "idle"
    BY EmptyRows DEF HydrateAffiliates
  <1>6. AffiliateRows'
    BY <1>2, <1>4, <1>5 DEF AffiliateInv, AffiliateRows
  <1>7. ASSUME NEW b \in Applications  PROVE ApplicationInv(b)'
    <2>1. Backed(b) => Backed(b)'
      BY <1>2 DEF Backed
    <2>. QED  BY <1>2, <1>3, <2>1 DEF AffiliateInv, ApplicationInv
  <1>8. \A b, c \in Applications : AloneUnderReview(b, c)'
    BY <1>2 DEF AffiliateInv, AloneUnderReview
  <1>9. \A q \in Requests : RequestInv(request[q])'
    BY <1>5 DEF RequestInv
  <1>10. \A p, q \in Requests : MakesAlone(p, q)'
    BY <1>5 DEF MakesAlone
  <1>11. \A m, n \in merchants' : m.source = n.source => m = n
    BY <1>2 DEF AffiliateInv
  <1>12. known'.merchants \subseteq Unplaced' /\ known'.owners \subseteq owners'
    BY <1>2, <1>3
  <1>. QED  BY <1>6, <1>7, <1>8, <1>9, <1>10, <1>11, <1>12 DEF AffiliateInv

LEMMA AffiliateInvInit ==
  ASSUME AffiliatesInit
  PROVE  AffiliateInv
  <1>1. PICK blank \in AppRow : blank = NoApplication /\ blank.status = "draft"
    BY EmptyRows
  <1>2. PICK none \in AffiliateRequest : none = NoRequest /\ none.at = "idle"
    BY EmptyRows
  <1>3. /\ filed = [a \in Applications |-> blank] /\ audits = [a \in Applications |-> <<>>]
        /\ merchants = {} /\ owners = {}
        /\ known = [filed |-> filed, merchants |-> {}, owners |-> {}]
        /\ request = [r \in Requests |-> none]
    BY <1>1, <1>2 DEF AffiliatesInit
  <1>4. AffiliateRows
    BY <1>1, <1>2, <1>3 DEF AffiliateRows
  <1>5. \A a \in Applications : ApplicationInv(a)
    BY <1>1, <1>3 DEF ApplicationInv
  <1>6. \A a, b \in Applications : AloneUnderReview(a, b)
    BY <1>1, <1>3 DEF AloneUnderReview, Reviewed
  <1>7. \A r \in Requests : RequestInv(request[r])
    BY <1>2, <1>3 DEF RequestInv
  <1>8. \A r, q \in Requests : MakesAlone(r, q)
    BY <1>2, <1>3 DEF MakesAlone
  <1>. QED  BY <1>3, <1>4, <1>5, <1>6, <1>7, <1>8 DEF AffiliateInv

LEMMA AffiliateInvNext ==
  ASSUME AffiliateInv, [AffiliateStep]_affiliateVars
  PROVE  AffiliateInv'
  <1>1. CASE UNCHANGED affiliateVars
    <2>1. UNCHANGED <<filed, audits, merchants, owners, known, request>>
      BY <1>1 DEF affiliateVars, affiliateTables
    <2>2. AffiliateRows'
      BY <2>1 DEF AffiliateInv, AffiliateRows
    <2>3. Unplaced' = Unplaced
      BY <2>1 DEF Unplaced
    <2>4. \A a \in Applications : ApplicationInv(a)'
      BY <2>1 DEF AffiliateInv, ApplicationInv, Backed
    <2>5. \A a, b \in Applications : AloneUnderReview(a, b)'
      BY <2>1 DEF AffiliateInv, AloneUnderReview
    <2>6. \A r \in Requests : RequestInv(request[r])'
      BY <2>1, <2>3 DEF AffiliateInv, RequestInv, Decided, Provided
    <2>7. \A r, q \in Requests : MakesAlone(r, q)'
      BY <2>1 DEF AffiliateInv, MakesAlone
    <2>8. \A m, n \in merchants' : m.source = n.source => m = n
      BY <2>1 DEF AffiliateInv
    <2>9. known'.merchants \subseteq Unplaced' /\ known'.owners \subseteq owners'
      BY <2>1, <2>3 DEF AffiliateInv
    <2>. QED  BY <2>2, <2>4, <2>5, <2>6, <2>7, <2>8, <2>9 DEF AffiliateInv
  <1>2. ASSUME NEW r \in Requests,
               RunDurableTransaction(r) \/ CommitAnswerLost(r) \/ PutInKnown(r) \/ PlaceMerchant(r)
        PROVE  AffiliateInv'
    <2>1. CASE CommitAnswerLost(r)
      BY <2>1, RequestEnds DEF CommitAnswerLost
    <2>. QED  BY <1>2, <2>1, CommitSteps, PutInKnownSteps, PlaceSteps
  <1>3. ASSUME NEW r \in Requests, NEW a \in Applications, NEW town \in Towns,
               ResubmitApplication(r, a, town) \/ \E u \in Applicants : CreateApplication(r, u, a, town)
        PROVE  AffiliateInv'
    BY <1>3, ResubmitSteps, CreateSteps
  <1>4. ASSUME NEW r \in Requests, NEW a \in Applications, NEW to \in Decisions,
               NEW expected \in 0..MaxAudits, ReviewRequested(r, a, to, expected)
        PROVE  AffiliateInv'
    <2>1. expected \in Nat
      BY AffiliatesAssumption
    <2>. QED  BY <1>4, <2>1, ReviewRequestedSteps
  <1>5. ASSUME NEW r \in Requests, NEW id \in MerchantIds, UpdateApplicationStatus(r, id)
        PROVE  AffiliateInv'
    BY <1>5, UpdateSteps
  <1>6. CASE HydrateAffiliates
    BY <1>6, HydrateSteps
  <1>. QED  BY <1>1, <1>2, <1>3, <1>4, <1>5, <1>6 DEF AffiliateStep

THEOREM AffiliatesCorrect == AffiliateSpec => []ApprovalsAreBacked
  <1>1. AffiliatesInit => AffiliateInv
    BY AffiliateInvInit
  <1>2. AffiliateInv /\ [AffiliateStep]_affiliateVars => AffiliateInv'
    BY AffiliateInvNext
  <1>3. AffiliateInv => ApprovalsAreBacked
    BY AffiliatesBacked
  <1>. QED  BY <1>1, <1>2, <1>3, PTL DEF AffiliateSpec

-----------------------------------------------------------------------------
(* The memory as a whole *)

-----------------------------------------------------------------------------
(* Affiliates: types.  An application under way has an applicant and a town, and no
   more versions than audits. *)

\* A row of an application after n decisions.
RowAfter(app, n) ==
  app \in AppRow /\ app.of \in Applicants /\ app.town \in Towns /\ app.status # "draft"
    /\ app.version \in 1..n

FiledTypes ==
  \A a \in Applications :
    /\ Len(audits[a]) \in 0..MaxAudits
    /\ filed[a] = NoApplication \/ RowAfter(filed[a], Len(audits[a]))
    /\ known.filed[a] = NoApplication \/ RowAfter(known.filed[a], Len(audits[a]))

RequestTypes ==
  \A r \in Requests :
    /\ request[r].at = "begun" => RowAfter(request[r].row, Len(audits[request[r].app]) + 1)
    /\ request[r].at = "committed" => RowAfter(request[r].row, Len(audits[request[r].app]))
    /\ request[r].joins \subseteq MerchantIds \X Applicants

AffiliateTypes == FiledTypes /\ RequestTypes /\ owners \subseteq MerchantIds \X Applicants

LEMMA RowGrows ==
  ASSUME NEW app, NEW n \in Nat, NEW m \in Nat, n <= m, RowAfter(app, n)
  PROVE  RowAfter(app, m)
  BY DEF RowAfter

LEMMA RowRestated ==
  ASSUME NEW app, NEW n \in Nat, RowAfter(app, n), NEW to \in Decisions
  PROVE  RowAfter([app EXCEPT !.status = to], n)
  <1>1. PICK new : new = [app EXCEPT !.status = to]
    OBVIOUS
  <1>2. app \in AppRow /\ to \in Statuses /\ to # "draft"
    BY DEF RowAfter, Statuses, Decisions
  <1>3. /\ new \in AppRow /\ new.of = app.of /\ new.town = app.town /\ new.version = app.version
        /\ new.status = to
    BY <1>1, <1>2 DEF AppRow
  <1>. QED  BY <1>1, <1>2, <1>3 DEF RowAfter

LEMMA AffiliateTypesInit ==
  ASSUME AffiliatesInit
  PROVE  AffiliateTypes
  <1>1. PICK none, idle : none = NoApplication /\ idle = NoRequest
    OBVIOUS
  <1>2. idle.at = "idle" /\ idle.joins = {}
    BY <1>1 DEF NoRequest
  <1>3. /\ filed = [a \in Applications |-> none] /\ audits = [a \in Applications |-> <<>>]
        /\ owners = {} /\ known.filed = filed /\ request = [r \in Requests |-> idle]
    BY <1>1 DEF AffiliatesInit
  <1>4. Len(<<>>) = 0 /\ MaxAudits \in Nat
    BY AffiliatesAssumption
  <1>. QED  BY <1>1, <1>2, <1>3, <1>4 DEF AffiliateTypes, FiledTypes, RequestTypes

\* A request that is asked, or anew begun, and leaves the tables.
LEMMA AskTypes ==
  ASSUME AffiliateTypes, NEW r \in Requests, NEW t, Ask(r, t), t.joins \subseteq MerchantIds \X Applicants,
         UNCHANGED <<affiliateTables, known>>, request \in [Requests -> AffiliateRequest],
         t.at = "begun" => RowAfter(t.row, Len(audits[t.app]) + 1),
         t.at = "committed" => RowAfter(t.row, Len(audits[t.app]))
  PROVE  AffiliateTypes'
  <1>1. request' = [request EXCEPT ![r] = t]
    BY DEF Ask
  <1>2. UNCHANGED <<filed, audits, owners, known>>
    BY DEF affiliateTables
  <1>3. FiledTypes' /\ owners' \subseteq MerchantIds \X Applicants
    BY <1>2 DEF AffiliateTypes, FiledTypes
  <1>4. \A q \in Requests : request'[q] = IF q = r THEN t ELSE request[q]
    BY <1>1
  <1>5. RequestTypes'
    BY <1>2, <1>4 DEF AffiliateTypes, RequestTypes
  <1>. QED  BY <1>3, <1>5 DEF AffiliateTypes

LEMMA IdleAsks ==
  NoRequest.joins = {} /\ NoRequest.at = "idle"
  BY DEF NoRequest

LEMMA KnownRow ==
  ASSUME AffiliateInv, AffiliateTypes, NEW a \in Applications, known.filed[a].status # "draft"
  PROVE  /\ RowAfter(known.filed[a], Len(audits[a])) /\ RowAfter(filed[a], Len(audits[a]))
         /\ Len(audits[a]) \in Nat
  <1>1. NoApplication.status = "draft"
    BY DEF NoApplication
  <1>2. filed[a].status # "draft"
    BY DEF AffiliateInv, ApplicationInv
  <1>. QED  BY <1>1, <1>2, AffiliatesAssumption DEF AffiliateTypes, FiledTypes

LEMMA CreateTypes ==
  ASSUME AffiliateInv, AffiliateTypes, NEW r \in Requests, NEW a \in Applications,
         NEW town \in Towns, NEW u \in Applicants, CreateApplication(r, u, a, town)
  PROVE  AffiliateTypes'
  <1>1. PICK new : new = [of |-> u, status |-> "received", version |-> 1, town |-> town]
    OBVIOUS
  <1>2. PICK t : t = [NoRequest EXCEPT !.at = "begun", !.app = a, !.row = new]
    OBVIOUS
  <1>3. Ask(r, t) /\ UNCHANGED <<affiliateTables, known>>
    BY <1>1, <1>2 DEF CreateApplication
  <1>4. t.joins = {} /\ t.at = "begun" /\ t.app = a /\ t.row = new
    BY <1>2 DEF NoRequest
  <1>5. Len(audits[a]) \in Nat
    BY AffiliatesAssumption DEF AffiliateTypes, FiledTypes
  <1>6. new \in AppRow /\ new.of = u /\ new.town = town /\ new.status = "received" /\ new.version = 1
    BY <1>1 DEF AppRow, Statuses
  <1>7. RowAfter(new, Len(audits[a]) + 1)
    BY <1>5, <1>6 DEF RowAfter
  <1>. QED  BY <1>3, <1>4, <1>7, AskTypes DEF AffiliateInv, AffiliateRows

LEMMA ResubmitTypes ==
  ASSUME AffiliateInv, AffiliateTypes, NEW r \in Requests, NEW a \in Applications,
         NEW town \in Towns, ResubmitApplication(r, a, town)
  PROVE  AffiliateTypes'
  <1>1. PICK app : app = known.filed[a]
    OBVIOUS
  <1>2. PICK next, new : next = app.version + 1
          /\ new = [app EXCEPT !.status = "received", !.version = next, !.town = town]
    OBVIOUS
  <1>3. PICK t : t = [NoRequest EXCEPT !.at = "begun", !.app = a, !.from = "needs_changes", !.row = new]
    OBVIOUS
  <1>4. Ask(r, t) /\ UNCHANGED <<affiliateTables, known>> /\ app.status = "needs_changes"
    BY <1>1, <1>2, <1>3 DEF ResubmitApplication
  <1>5. t.joins = {} /\ t.at = "begun" /\ t.app = a /\ t.row = new
    BY <1>3 DEF NoRequest
  <1>6. RowAfter(app, Len(audits[a])) /\ Len(audits[a]) \in Nat
    BY <1>1, <1>4, KnownRow
  <1>7. /\ new \in AppRow /\ new.of = app.of /\ new.town = town /\ new.status = "received"
        /\ new.version = next
    <2>1. app \in AppRow /\ next \in Nat
      BY <1>2, <1>6 DEF RowAfter
    <2>2. /\ app \in [of : Applicants \cup {NoBusiness}, status : Statuses, version : Nat,
                      town : Towns \cup {NoBusiness}]
          /\ "received" \in Statuses /\ town \in Towns \cup {NoBusiness}
      BY <2>1 DEF AppRow, Statuses
    <2>. QED  BY <1>2, <2>1, <2>2 DEF AppRow
  <1>8. RowAfter(new, Len(audits[a]) + 1)
    BY <1>2, <1>6, <1>7 DEF RowAfter
  <1>. QED  BY <1>4, <1>5, <1>8, AskTypes DEF AffiliateInv, AffiliateRows

LEMMA AskedTypes ==
  ASSUME AffiliateInv, AffiliateTypes, NEW r \in Requests, NEW a \in Applications,
         NEW to \in Decisions, NEW expected \in 0..MaxAudits, ReviewRequested(r, a, to, expected)
  PROVE  AffiliateTypes'
  <1>1. PICK area : area = IF known.filed[a].town \in AreaTowns THEN known.filed[a].town ELSE NoBusiness
    OBVIOUS
  <1>2. PICK t : t = [NoRequest EXCEPT !.at = "asked", !.app = a, !.row.status = to,
                                       !.expected = expected, !.area = area]
    OBVIOUS
  <1>3. Ask(r, t) /\ UNCHANGED <<affiliateTables, known>>
    BY <1>1, <1>2 DEF ReviewRequested
  <1>4. t.joins = {} /\ t.at = "asked"
    BY <1>2 DEF NoRequest
  <1>. QED  BY <1>3, <1>4, AskTypes DEF AffiliateInv, AffiliateRows

LEMMA UpdateTypes ==
  ASSUME AffiliateInv, AffiliateTypes, NEW r \in Requests, NEW id \in MerchantIds,
         UpdateApplicationStatus(r, id)
  PROVE  AffiliateTypes'
  <1>1. PICK t, a, app, to : t = request[r] /\ a = t.app /\ app = known.filed[a] /\ to = t.row.status
    OBVIOUS
  <1>2. PICK opens : opens = IF to = "approved" THEN BuildMerchantProvision(a, id) ELSE {}
    OBVIOUS
  <1>3. PICK joins : joins = IF to = "approved"
                             THEN {<<m.id, app.of>> : m \in opens \cup MerchantOf(a)} \ known.owners
                             ELSE {}
    OBVIOUS
  <1>4. PICK new : new = [app EXCEPT !.status = to]
    OBVIOUS
  <1>5. PICK n : n = [t EXCEPT !.at = "begun", !.from = app.status, !.row = new,
                               !.opens = opens, !.joins = joins]
    OBVIOUS
  <1>6. /\ t.at = "asked" /\ UNCHANGED <<affiliateTables, known>>
        /\ Ask(r, NoRequest) \/ Ask(r, n)
    BY <1>1, <1>2, <1>3, <1>4, <1>5 DEF UpdateApplicationStatus
  <1>7. t \in AffiliateRequest /\ a \in Applications /\ app.status # "draft" /\ to \in Decisions
    BY <1>1, <1>6 DEF AffiliateInv, RequestInv, AffiliateRows
  <1>8. RowAfter(app, Len(audits[a])) /\ Len(audits[a]) \in Nat
    BY <1>1, <1>7, KnownRow
  <1>9. RowAfter(new, Len(audits[a]))
    BY <1>4, <1>7, <1>8, RowRestated
  <1>10. RowAfter(new, Len(audits[a]) + 1)
    BY <1>8, <1>9, RowGrows
  <1>11. n.at = "begun" /\ n.app = a /\ n.row = new /\ n.joins = joins
    BY <1>1, <1>5, <1>7 DEF AffiliateRequest
  <1>12. \A m \in opens \cup MerchantOf(a) : m.id \in MerchantIds
    <2>1. \A m \in known.merchants : m.id \in MerchantIds
      BY DEF AffiliateInv, AffiliateRows, MerchantRow
    <2>. QED  BY <1>2, <2>1 DEF BuildMerchantProvision, MerchantOf
  <1>13. joins \subseteq MerchantIds \X Applicants
    BY <1>3, <1>8, <1>12 DEF RowAfter
  <1>. QED  BY <1>6, <1>10, <1>11, <1>13, AskTypes, IdleAsks DEF AffiliateInv, AffiliateRows

LEMMA DurableTypes ==
  ASSUME AffiliateInv, AffiliateTypes, NEW r \in Requests, RunDurableTransaction(r)
  PROVE  AffiliateTypes'
  <1>1. PICK t, a, new, entry, next :
          /\ t = request[r] /\ a = t.app /\ new = Written(r, filed[a]) /\ entry = Audit(r)
          /\ next = [t EXCEPT !.at = "committed"]
    OBVIOUS
  <1>2. /\ t.at = "begun" /\ Len(audits[a]) < MaxAudits /\ UNCHANGED known
        /\ \/ /\ filed' = [filed EXCEPT ![a] = new]
              /\ audits' = [audits EXCEPT ![a] = Append(audits[a], entry)]
              /\ owners' = owners \cup t.joins /\ Ask(r, next)
           \/ Ask(r, NoRequest) /\ UNCHANGED affiliateTables
    BY <1>1 DEF RunDurableTransaction
  <1>3. t \in AffiliateRequest /\ a \in Applications /\ Decided(t)
    BY <1>1, <1>2 DEF AffiliateInv, RequestInv, AffiliateRows
  <1>4. CASE Ask(r, NoRequest) /\ UNCHANGED affiliateTables
    BY <1>2, <1>4, AskTypes, IdleAsks DEF AffiliateInv, AffiliateRows
  <1>5. CASE /\ filed' = [filed EXCEPT ![a] = new]
             /\ audits' = [audits EXCEPT ![a] = Append(audits[a], entry)]
             /\ owners' = owners \cup t.joins /\ Ask(r, next)
    <2>1. audits \in [Applications -> Seq(AuditRow)] /\ filed \in [Applications -> AppRow]
          /\ request \in [Requests -> AffiliateRequest]
      BY DEF AffiliateInv, AffiliateRows
    <2>2. Len(audits[a]) \in Nat /\ MaxAudits \in Nat
      BY <1>3, AffiliatesAssumption DEF AffiliateTypes, FiledTypes
    <2>3. Len(Append(audits[a], entry)) = Len(audits[a]) + 1
      <3>1. DOMAIN audits[a] = 1..Len(audits[a])
        BY <1>3, <2>1
      <3>. QED  BY <1>3, <2>1, <2>2
    <2>4. \A b \in Applications : Len(audits'[b]) = IF b = a THEN Len(audits[a]) + 1 ELSE Len(audits[b])
      BY <1>3, <1>5, <2>1, <2>3
    <2>5. RowAfter(t.row, Len(audits[a]) + 1)
      BY <1>1, <1>2 DEF AffiliateTypes, RequestTypes
    <2>6. RowAfter(new, Len(audits[a]) + 1)
      <3>1. CASE t.row.status = "received"
        BY <1>1, <2>5, <3>1 DEF Written
      <3>2. CASE t.row.status # "received"
        <4>1. t.row.status \in Decisions
          BY <1>3, <3>2 DEF Decided, AffiliateRequest, AppRow, Statuses
        <4>2. RowAfter(filed[a], Len(audits[a]))
          BY <1>1, <1>3, <3>2, KnownRow DEF Decided
        <4>3. new = [filed[a] EXCEPT !.status = t.row.status]
          BY <1>1, <3>2 DEF Written
        <4>. QED  BY <2>2, <4>1, <4>2, <4>3, RowGrows, RowRestated
      <3>. QED  BY <3>1, <3>2
    <2>7. FiledTypes'
      <3>1. ASSUME NEW b \in Applications
            PROVE  /\ Len(audits'[b]) \in 0..MaxAudits
                   /\ filed'[b] = NoApplication \/ RowAfter(filed'[b], Len(audits'[b]))
                   /\ known'.filed[b] = NoApplication \/ RowAfter(known'.filed[b], Len(audits'[b]))
        <4>1. Len(audits[b]) \in 0..MaxAudits /\ Len(audits[b]) \in Nat
          BY AffiliatesAssumption DEF AffiliateTypes, FiledTypes
        <4>2. \A app : RowAfter(app, Len(audits[b])) => RowAfter(app, Len(audits'[b]))
          <5>1. Len(audits[b]) <= Len(audits'[b]) /\ Len(audits'[b]) \in Nat
            BY <2>2, <2>4, <4>1
          <5>. QED  BY <4>1, <5>1, RowGrows
        <4>3. filed'[b] = IF b = a THEN new ELSE filed[b]
          BY <1>5, <2>1, <1>3
        <4>. QED  BY <1>2, <2>2, <2>4, <2>6, <4>1, <4>2, <4>3 DEF AffiliateTypes, FiledTypes
      <3>. QED  BY <3>1 DEF FiledTypes
    <2>8. RequestTypes'
      <3>1. next.at = "committed" /\ next.app = a /\ next.row = t.row /\ next.joins = t.joins
        BY <1>1, <1>3 DEF AffiliateRequest
      <3>2. ASSUME NEW q \in Requests
            PROVE  /\ request'[q].at = "begun" =>
                        RowAfter(request'[q].row, Len(audits'[request'[q].app]) + 1)
                   /\ request'[q].at = "committed" =>
                        RowAfter(request'[q].row, Len(audits'[request'[q].app]))
                   /\ request'[q].joins \subseteq MerchantIds \X Applicants
        <4>1. request'[q] = IF q = r THEN next ELSE request[q]
          BY <1>5, <2>1 DEF Ask
        <4>2. CASE q = r
          BY <1>1, <1>3, <2>4, <2>5, <3>1, <4>1, <4>2 DEF AffiliateTypes, RequestTypes
        <4>3. CASE q # r
          <5>1. PICK b : b = request[q].app
            OBVIOUS
          <5>2. /\ request[q].at \in {"begun", "committed"} => b \in Applications
                /\ request[q].joins \subseteq MerchantIds \X Applicants
                /\ request[q].at = "begun" => RowAfter(request[q].row, Len(audits[b]) + 1)
                /\ request[q].at = "committed" => RowAfter(request[q].row, Len(audits[b]))
            BY <5>1 DEF AffiliateInv, RequestInv, AffiliateTypes, RequestTypes
          <5>3. ASSUME b \in Applications
                PROVE  /\ Len(audits[b]) \in Nat /\ Len(audits'[b]) \in Nat
                       /\ Len(audits[b]) <= Len(audits'[b])
            BY <2>2, <2>4, <5>3, AffiliatesAssumption DEF AffiliateTypes, FiledTypes
          <5>4. ASSUME b \in Applications, NEW app
                PROVE  /\ RowAfter(app, Len(audits[b])) => RowAfter(app, Len(audits'[b]))
                       /\ RowAfter(app, Len(audits[b]) + 1) => RowAfter(app, Len(audits'[b]) + 1)
            BY <5>3, <5>4, RowGrows
          <5>. QED  BY <4>1, <4>3, <5>1, <5>2, <5>4
        <4>. QED  BY <4>2, <4>3
      <3>. QED  BY <3>2 DEF RequestTypes
    <2>. QED  BY <1>1, <1>5, <2>7, <2>8 DEF AffiliateTypes, RequestTypes
  <1>. QED  BY <1>2, <1>4, <1>5

LEMMA PutTypes ==
  ASSUME AffiliateInv, AffiliateTypes, NEW r \in Requests, PutInKnown(r)
  PROVE  AffiliateTypes'
  <1>1. PICK t, a, new, next :
          /\ t = request[r] /\ a = t.app /\ new = Written(r, known.filed[a])
          /\ next = IF new.status = "approved" /\ t.area # NoBusiness
                    THEN [t EXCEPT !.at = "placing"] ELSE NoRequest
    OBVIOUS
  <1>2. /\ t.at = "committed" /\ UNCHANGED affiliateTables
        /\ known'.filed = [known.filed EXCEPT ![a] = new] /\ Ask(r, next)
    BY <1>1 DEF PutInKnown
  <1>3. t \in AffiliateRequest /\ a \in Applications /\ Decided(t)
    BY <1>1, <1>2 DEF AffiliateInv, RequestInv, AffiliateRows
  <1>4. known.filed \in [Applications -> AppRow] /\ request \in [Requests -> AffiliateRequest]
    BY DEF AffiliateInv, AffiliateRows
  <1>5. UNCHANGED <<filed, audits, owners>>
    BY <1>2 DEF affiliateTables
  <1>6. RowAfter(new, Len(audits[a]))
    <2>1. CASE t.row.status = "received"
      BY <1>1, <1>2, <2>1 DEF Written, AffiliateTypes, RequestTypes
    <2>2. CASE t.row.status # "received"
      <3>1. t.row.status \in Decisions
        BY <1>3, <2>2 DEF Decided, AffiliateRequest, AppRow, Statuses
      <3>2. RowAfter(known.filed[a], Len(audits[a])) /\ Len(audits[a]) \in Nat
        BY <1>1, <1>3, <2>2, KnownRow DEF Decided
      <3>3. new = [known.filed[a] EXCEPT !.status = t.row.status]
        BY <1>1, <2>2 DEF Written
      <3>. QED  BY <3>1, <3>2, <3>3, RowRestated
    <2>. QED  BY <2>1, <2>2
  <1>7. FiledTypes'
    <2>1. \A b \in Applications : known'.filed[b] = IF b = a THEN new ELSE known.filed[b]
      BY <1>2, <1>3, <1>4
    <2>. QED  BY <1>5, <1>6, <2>1 DEF AffiliateTypes, FiledTypes
  <1>8. next.at \notin {"begun", "committed"} /\ next.joins \subseteq MerchantIds \X Applicants
    <2>1. t.joins \subseteq MerchantIds \X Applicants
      BY <1>1 DEF AffiliateTypes, RequestTypes
    <2>2. CASE next = NoRequest
      BY <2>2, IdleAsks
    <2>3. CASE next = [t EXCEPT !.at = "placing"]
      BY <1>3, <2>1, <2>3 DEF AffiliateRequest
    <2>. QED  BY <1>1, <2>2, <2>3
  <1>9. RequestTypes'
    <2>1. \A q \in Requests : request'[q] = IF q = r THEN next ELSE request[q]
      BY <1>2, <1>4 DEF Ask
    <2>. QED  BY <1>5, <1>8, <2>1 DEF AffiliateTypes, RequestTypes
  <1>. QED  BY <1>5, <1>7, <1>9 DEF AffiliateTypes

LEMMA AffiliateTypesNext ==
  ASSUME AffiliateInv, AffiliateTypes, [AffiliateStep]_affiliateVars
  PROVE  AffiliateTypes'
  <1>1. ASSUME NEW r \in Requests, CommitAnswerLost(r)
        PROVE  AffiliateTypes'
    BY <1>1, AskTypes, IdleAsks DEF CommitAnswerLost, AffiliateInv, AffiliateRows
  <1>2. ASSUME NEW r \in Requests, PlaceMerchant(r)
        PROVE  AffiliateTypes'
    <2>1. UNCHANGED <<filed, audits, owners, known>> /\ request' = [request EXCEPT ![r] = NoRequest]
      BY <1>2 DEF PlaceMerchant, Ask
    <2>2. \A q \in Requests : request'[q] = IF q = r THEN NoRequest ELSE request[q]
      BY <2>1 DEF AffiliateInv, AffiliateRows
    <2>. QED  BY <2>1, <2>2, IdleAsks DEF AffiliateTypes, FiledTypes, RequestTypes
  <1>3. ASSUME HydrateAffiliates
        PROVE  AffiliateTypes'
    <2>1. PICK idle : idle = NoRequest
      OBVIOUS
    <2>2. UNCHANGED <<filed, audits, owners>> /\ known'.filed = filed
          /\ request' = [r \in Requests |-> idle]
      BY <1>3, <2>1 DEF HydrateAffiliates, affiliateTables
    <2>3. idle.at = "idle" /\ idle.joins = {}
      BY <2>1, IdleAsks
    <2>. QED  BY <2>2, <2>3 DEF AffiliateTypes, FiledTypes, RequestTypes
  <1>4. CASE UNCHANGED affiliateVars
    <2>1. UNCHANGED <<filed, audits, owners, known, request>>
      BY <1>4 DEF affiliateVars, affiliateTables
    <2>. QED  BY <2>1 DEF AffiliateTypes, FiledTypes, RequestTypes
  <1>. QED  BY <1>1, <1>2, <1>3, <1>4, CreateTypes, ResubmitTypes, AskedTypes, UpdateTypes, DurableTypes,
               PutTypes DEF AffiliateStep

\* Applications, merchants and their owners have their types, however requests cross, and no
\* application has more versions than decisions (routes/affiliates.ts, db/index.ts).
THEOREM AffiliatesTyped == AffiliateSpec => []AffiliatesTypeOK
  <1>1. AffiliatesInit => AffiliateInv /\ AffiliateTypes
    BY AffiliateInvInit, AffiliateTypesInit
  <1>2. AffiliateInv /\ AffiliateTypes /\ [AffiliateStep]_affiliateVars => (AffiliateInv /\ AffiliateTypes)'
    <2>1. ASSUME AffiliateInv, AffiliateTypes, [AffiliateStep]_affiliateVars
          PROVE  AffiliateInv' /\ AffiliateTypes'
      BY <2>1, AffiliateInvNext, AffiliateTypesNext
    <2>. QED  BY <2>1
  <1>3. AffiliateInv /\ AffiliateTypes => AffiliatesTypeOK
    <2>. SUFFICES ASSUME AffiliateInv, AffiliateTypes PROVE AffiliatesTypeOK
      OBVIOUS
    <2>1. ASSUME NEW a \in Applications
          PROVE  /\ Len(audits[a]) <= MaxAudits
                 /\ filed[a] = NoApplication \/
                      /\ filed[a].of \in Applicants /\ filed[a].town \in Towns
                      /\ filed[a].status \in Decisions \cup {"received"}
                      /\ filed[a].version \in 1..MaxAudits
      <3>1. Len(audits[a]) \in 0..MaxAudits /\ MaxAudits \in Nat
        BY AffiliatesAssumption DEF AffiliateTypes, FiledTypes
      <3>2. filed[a] = NoApplication \/ RowAfter(filed[a], Len(audits[a]))
        BY DEF AffiliateTypes, FiledTypes
      <3>. QED  BY <3>1, <3>2 DEF RowAfter, AppRow, Statuses
    <2>2. \A m \in merchants : m.id \in MerchantIds /\ m.source \in Applications
      BY DEF AffiliateInv, AffiliateRows, MerchantRow
    <2>3. \A r \in Requests : request[r].at \in {"idle", "asked", "begun", "committed", "placing"}
      BY DEF AffiliateInv, AffiliateRows, AffiliateRequest
    <2>. QED  BY <2>1, <2>2, <2>3 DEF AffiliatesTypeOK, AffiliateTypes
  <1>. QED  BY <1>1, <1>2, <1>3, PTL DEF AffiliateSpec

-----------------------------------------------------------------------------
(* Spots: types.  A post names two photos at most. *)

SpotCounts ==
  /\ shownQuests \subseteq PlaceQuests /\ announced \subseteq Places /\ restarts \in 0..MaxRestarts
  /\ \A s \in Places : Len(post[s].photos) <= 2 /\ post[s].next \in 1..2

LEMMA SpotCountsInit ==
  ASSUME SpotsInit
  PROVE  SpotCounts
  <1>1. PICK idle : idle = IdlePost
    OBVIOUS
  <1>2. idle.photos = <<>> /\ idle.next = 1
    BY <1>1 DEF IdlePost
  <1>3. /\ shownQuests = {} /\ announced = {} /\ restarts = 0 /\ post = [s \in Places |-> idle]
    BY <1>1 DEF SpotsInit
  <1>. QED  BY <1>2, <1>3, SpotNames DEF SpotCounts

LEMMA SpotCountsNext ==
  ASSUME SpotInv, SpotCounts, [SpotStep]_spotVars
  PROVE  SpotCounts'
  <1>1. ASSUME NEW s \in Places, NEW at, Posting(s, at), announced' \subseteq Places,
               UNCHANGED <<shownQuests, restarts>>
        PROVE  SpotCounts'
    <2>1. \A q \in Places : post'[q].photos = post[q].photos /\ post'[q].next = post[q].next
      BY <1>1 DEF Posting, SpotInv, SpotTables, PostRow
    <2>. QED  BY <1>1, <2>1 DEF SpotCounts
  <1>2. ASSUME NEW s \in Places, NEW u \in Authors,
               NEW list \in {<<>>} \union {<<a>> : a \in Photos} \union
                              {l \in Photos \X Photos : l[1] # l[2]},
               NEW q \in PlaceQuests \union {NoQuest}, BeginPost(s, u, list, q)
        PROVE  SpotCounts'
    <2>1. PICK new : new = [at |-> "persist", by |-> u, photos |-> list, quest |-> q, next |-> 1]
      OBVIOUS
    <2>2. post' = [post EXCEPT ![s] = new] /\ UNCHANGED <<announced, shownQuests, restarts>>
      BY <1>2, <2>1 DEF BeginPost, restOfPost
    <2>3. Len(list) <= 2
      <3>1. CASE list = <<>>
        BY <3>1
      <3>2. ASSUME NEW a \in Photos, list = <<a>>
            PROVE  Len(list) <= 2
        BY <3>2
      <3>3. ASSUME list \in Photos \X Photos
            PROVE  Len(list) <= 2
        <4>1. PICK a, b : list = <<a, b>>
          BY <3>3
        <4>. QED  BY <4>1
      <3>. QED  BY <1>2, <3>1, <3>2, <3>3
    <2>4. new.photos = list /\ new.next = 1
      BY <2>1
    <2>. QED  BY <2>2, <2>3, <2>4 DEF SpotCounts, SpotInv, SpotTables
  <1>3. ASSUME NEW s \in Places, NEW stored \in BOOLEAN, WritePhoto(s, stored)
        PROVE  SpotCounts'
    <2>1. UNCHANGED <<announced, shownQuests, restarts>> /\ post[s].at = "write"
      BY <1>3 DEF WritePhoto, restOfPost
    <2>2. CASE ~stored
      BY <1>1, <1>3, <2>1, <2>2 DEF WritePhoto, SpotCounts
    <2>3. CASE stored
      <3>1. PICK last, next : /\ last = (post[s].next = Len(post[s].photos))
                              /\ next = (IF last THEN post[s].next ELSE post[s].next + 1)
        OBVIOUS
      <3>2. PICK at : at = IF last THEN "announce" ELSE "attach"
        OBVIOUS
      <3>3. post' = [post EXCEPT ![s].next = next, ![s].at = at]
        BY <1>3, <2>3, <3>1, <3>2 DEF WritePhoto
      <3>4. post[s].next \in 1..Len(post[s].photos) /\ Len(post[s].photos) \in Nat
            /\ Len(post[s].photos) <= 2
        BY <2>1 DEF SpotInv, PhotosWritten, SpotCounts, SpotTables, PostRow
      <3>5. next \in 1..2
        <4>1. PICK n, len : n = post[s].next /\ len = Len(post[s].photos)
          OBVIOUS
        <4>2. n \in 1..len /\ len \in Nat /\ len <= 2 /\ next = (IF n = len THEN n ELSE n + 1)
          BY <3>1, <3>4, <4>1
        <4>. QED  BY <4>2
      <3>6. \A q \in Places : /\ post'[q].photos = post[q].photos
                              /\ post'[q].next = IF q = s THEN next ELSE post[q].next
        BY <3>3 DEF SpotInv, SpotTables, PostRow
      <3>. QED  BY <2>1, <3>5, <3>6 DEF SpotCounts
    <2>. QED  BY <2>2, <2>3
  <1>4. ASSUME NEW s \in Places, NEW stored \in BOOLEAN, PersistSpot(s, stored) \/ AnnounceSpot(s, stored)
        PROVE  SpotCounts'
    <2>1. UNCHANGED <<shownQuests, restarts>> /\ announced' \subseteq Places
          /\ \E at : Posting(s, at)
      BY <1>4 DEF PersistSpot, AnnounceSpot, restOfPost, SpotCounts
    <2>. QED  BY <1>1, <2>1
  <1>5. ASSUME NEW s \in Places, ShowSpot(s) \/ AttachPhoto(s)
        PROVE  SpotCounts'
    <2>1. UNCHANGED <<shownQuests, restarts, announced>> /\ \E at : Posting(s, at)
      BY <1>5 DEF ShowSpot, AttachPhoto, restOfPost
    <2>. QED  BY <1>1, <2>1 DEF SpotCounts
  <1>6. ASSUME NEW q \in PlaceQuests,
               InsertQuest(q) \/ BindQuest(q) \/ PointToQuest(q) \/ QuestFails(q) \/ ShowQuest(q)
                 \/ \E u \in Authors, s \in Places : BeginQuest(q, u, s)
        PROVE  SpotCounts'
    <2>1. UNCHANGED <<announced, post, restarts>> /\ shownQuests' \subseteq PlaceQuests
      BY <1>6 DEF InsertQuest, BindQuest, PointToQuest, QuestFails, ShowQuest, BeginQuest, restOfMake,
                  SpotCounts
    <2>. QED  BY <2>1 DEF SpotCounts
  <1>7. ASSUME Restart
        PROVE  SpotCounts'
    <2>1. \A s \in Places : post'[s].photos = post[s].photos /\ post'[s].next = post[s].next
      BY <1>7 DEF Restart, SpotInv, SpotTables, PostRow
    <2>2. /\ shownQuests' \subseteq PlaceQuests /\ restarts' = restarts + 1 /\ restarts < MaxRestarts
          /\ announced' = announced
      BY <1>7 DEF Restart
    <2>3. restarts' \in 0..MaxRestarts
      BY <2>2, SpotNames DEF SpotCounts
    <2>. QED  BY <2>1, <2>2, <2>3 DEF SpotCounts
  <1>8. ASSUME \/ \E a \in Photos, u \in Authors : Upload(a, u)
               \/ \E s \in Places, status \in {"published", "unpublished"} : Review(s, status)
               \/ \E update \in reviews, stored \in BOOLEAN : ReviewWritten(update, stored)
               \/ UNCHANGED spotVars
        PROVE  SpotCounts'
    <2>1. UNCHANGED <<announced, post, restarts, shownQuests>>
      BY <1>8 DEF Upload, Review, ReviewWritten, restOfReview, spotVars
    <2>. QED  BY <2>1 DEF SpotCounts
  <1>9. ASSUME SpotStep
        PROVE  SpotCounts'
    <2>1. \A s \in Places, u \in Authors :
            \A list \in {<<>>} \union {<<a>> : a \in Photos} \union
                        {l \in Photos \X Photos : l[1] # l[2]},
             q \in PlaceQuests \union {NoQuest} : BeginPost(s, u, list, q) => SpotCounts'
      BY <1>2
    <2>. QED  BY <1>3, <1>4, <1>5, <1>6, <1>7, <1>8, <1>9, <2>1 DEF SpotStep
  <1>. QED  BY <1>8, <1>9

\* The tables, the memory and the requests between them have their types (spots/store.ts,
\* spots/asset-store.ts, routes/spots.ts).
THEOREM SpotsTyped == SpotSpec => []SpotTypeOK
  <1>1. SpotsInit => SpotInv /\ SpotCounts
    BY SpotInvInit, SpotCountsInit
  <1>2. SpotInv /\ SpotCounts /\ [SpotStep]_spotVars => (SpotInv /\ SpotCounts)'
    <2>1. ASSUME SpotInv, SpotCounts, [SpotStep]_spotVars
          PROVE  SpotInv' /\ SpotCounts'
      BY <2>1, SpotInvNext, SpotCountsNext
    <2>. QED  BY <2>1
  <1>3. SpotInv /\ SpotCounts => SpotTypeOK
    <2>. SUFFICES ASSUME SpotInv, SpotCounts PROVE SpotTypeOK
      OBVIOUS
    <2>1. \A s \in Places :
            /\ post[s].by \in Authors \union {Nobody} /\ post[s].next \in 1..2
            /\ post[s].quest \in PlaceQuests \union {NoQuest}
      BY DEF SpotInv, SpotTables, PostRow, SpotCounts
    <2>2. \A q \in PlaceQuests : make[q].place \in Places \union {NoPlace}
      BY DEF SpotInv, SpotTables, MakeRow
    <2>3. /\ row \in [Places -> SpotRow] /\ place \in [Places -> SpotRow]
          /\ kept \in [Photos -> AssetRow] /\ photo \in [Photos -> AssetRow]
          /\ questRow \in [PlaceQuests -> Places \cup {NoPlace}]
          /\ binding \in [PlaceQuests -> Places \cup {NoPlace}]
          /\ reviews \subseteq Places \X {"published", "unpublished"}
      BY DEF SpotInv, SpotTables
    <2>. QED  BY <2>1, <2>2, <2>3 DEF SpotTypeOK, SpotRow, AssetRow, SpotCounts
  <1>. QED  BY <1>1, <1>2, <1>3, PTL DEF SpotSpec

-----------------------------------------------------------------------------
(* Migrations: types.  What a process applies or signs is in its release. *)

MigrationTypes ==
  /\ ledger \in [Files -> Contents \cup {"absent", "unsigned"}]
  /\ ran \in [Files -> Seq(Contents \cup {OldContent})]
  /\ starts \in 0..MaxStarts
  /\ \A p \in Boots : boot[p].at \in {"applying", "signing"} =>
       boot[p].file \in Files /\ Content[p][boot[p].file] \in Contents

LEMMA MigrationTypesInit ==
  ASSUME MigrationInit
  PROVE  MigrationTypes
  <1>1. PICK down, old : down = Down /\ old = <<OldContent>>
    OBVIOUS
  <1>2. down.at = "down" /\ old \in Seq(Contents \cup {OldContent})
    BY <1>1 DEF Down
  <1>3. /\ ledger = [f \in Files |-> IF f \in OldFiles THEN "unsigned" ELSE "absent"]
        /\ ran = [f \in Files |-> IF f \in OldFiles THEN old ELSE <<>>]
        /\ boot = [p \in Boots |-> down] /\ starts = 0
    BY <1>1 DEF MigrationInit
  <1>. QED  BY <1>2, <1>3, BootsAreKnown DEF MigrationTypes

\* A step of a process that does not write the ledger.
LEMMA BootMoves ==
  ASSUME MigrationInv, MigrationTypes, NEW p \in Boots, NEW onto, boot' = [boot EXCEPT ![p] = onto],
         UNCHANGED <<ledger, ran>>, starts' \in 0..MaxStarts,
         onto.at \in {"applying", "signing"} => onto.file \in Files /\ Content[p][onto.file] \in Contents
  PROVE  MigrationTypes'
  <1>1. \A q \in Boots : boot'[q] = IF q = p THEN onto ELSE boot[q]
    BY DEF MigrationInv, MigrationColumns, BootType
  <1>. QED  BY <1>1 DEF MigrationTypes

LEMMA MigrationTypesNext ==
  ASSUME MigrationInv, MigrationTypes, [MigrationNext]_migrationVars
  PROVE  MigrationTypes'
  <1>1. ASSUME NEW p \in Boots, BootStep(p)
        PROVE  MigrationTypes'
    <2>0. PICK f : f = boot[p].file
      OBVIOUS
    <2>1. /\ boot[p] \in [file : 1..(LastFile + 1),
             at : {"down", "waiting", "verifying", "lookup", "applying", "signing", "up"}]
          /\ Down.at = "down" /\ starts \in 0..MaxStarts
          /\ boot \in [Boots -> [file : 1..(LastFile + 1),
             at : {"down", "waiting", "verifying", "lookup", "applying", "signing", "up"}]]
      BY DEF MigrationInv, MigrationColumns, BootType, Down, MigrationTypes
    <2>2. ASSUME NEW at, Stage(p, at), UNCHANGED <<ledger, ran>>, starts' \in 0..MaxStarts,
                 at \in {"applying", "signing"} => f \in Files /\ Content[p][f] \in Contents
          PROVE  MigrationTypes'
      <3>1. PICK onto : onto = [boot[p] EXCEPT !.at = at]
        OBVIOUS
      <3>2. boot' = [boot EXCEPT ![p] = onto]
        BY <2>2, <3>1 DEF Stage
      <3>3. onto.at = at /\ onto.file = f
        BY <2>0, <2>1, <3>1
      <3>. QED  BY <2>2, <3>2, <3>3, BootMoves
    <2>3. ASSUME boot' = [boot EXCEPT ![p] = Down], UNCHANGED <<ledger, ran, starts>>
          PROVE  MigrationTypes'
      BY <2>1, <2>3, BootMoves
    <2>4. ASSUME NextFile(p), UNCHANGED <<ledger, ran, starts>>
          PROVE  MigrationTypes'
      <3>1. PICK onto : onto = [at |-> "lookup", file |-> boot[p].file + 1]
        OBVIOUS
      <3>2. boot' = [boot EXCEPT ![p] = onto] /\ onto.at = "lookup"
        BY <2>4, <3>1 DEF NextFile
      <3>. QED  BY <2>1, <2>4, <3>2, BootMoves
    <2>5. CASE StartBoot(p)
      <3>1. starts' \in 0..MaxStarts
        BY <2>1, <2>5, BootsAreKnown DEF StartBoot
      <3>. QED  BY <2>2, <2>5, <3>1 DEF StartBoot
    <2>6. CASE VerifyLedger(p)
      <3>1. CASE Verified(p)
        <4>1. Stage(p, "up")
          BY <2>6, <3>1 DEF VerifyLedger, Stage
        <4>. QED  BY <2>1, <2>2, <2>6, <4>1 DEF VerifyLedger
      <3>. QED  BY <2>3, <2>6, <3>1 DEF VerifyLedger
    <2>7. CASE TakeLatch(p) \/ MissLatch(p)
      BY <2>1, <2>2, <2>7 DEF TakeLatch, MissLatch
    <2>8. CASE ReadRow(p)
      <3>1. f \in Files /\ UNCHANGED <<ledger, ran, starts>>
        BY <2>0, <2>8 DEF ReadRow
      <3>2. Content[p][f] # NoFile => Content[p][f] \in Contents
        BY <3>1 DEF Contents
      <3>. QED  BY <2>0, <2>1, <2>2, <2>3, <2>4, <2>8, <3>1, <3>2 DEF ReadRow
    <2>9. ASSUME NEW content \in Contents, f \in Files, NextFile(p), starts' = starts,
                 ledger' = [ledger EXCEPT ![f] = content],
                 ran' = ran \/ ran' = [ran EXCEPT ![f] = Append(ran[f], content)]
          PROVE  MigrationTypes'
      <3>1. PICK onto : onto = [at |-> "lookup", file |-> boot[p].file + 1]
        OBVIOUS
      <3>2. boot' = [boot EXCEPT ![p] = onto] /\ onto.at = "lookup"
        BY <2>9, <3>1 DEF NextFile
      <3>3. \A q \in Boots : boot'[q] = IF q = p THEN onto ELSE boot[q]
        BY <2>1, <3>2
      <3>4. ledger' \in [Files -> Contents \cup {"absent", "unsigned"}]
        BY <2>9 DEF MigrationTypes
      <3>5. ran' \in [Files -> Seq(Contents \cup {OldContent})]
        <4>1. Append(ran[f], content) \in Seq(Contents \cup {OldContent})
          BY <2>9 DEF MigrationTypes
        <4>. QED  BY <2>9, <4>1 DEF MigrationTypes
      <3>. QED  BY <2>9, <3>2, <3>3, <3>4, <3>5 DEF MigrationTypes
    <2>10. CASE ApplyFile(p)
      <3>1. f \in Files /\ Content[p][f] \in Contents
        BY <2>0, <2>10 DEF ApplyFile, MigrationTypes
      <3>2. CASE ledger[f] = "absent"
        BY <2>0, <2>9, <2>10, <3>1, <3>2 DEF ApplyFile
      <3>3. CASE ledger[f] # "absent"
        BY <2>0, <2>3, <2>10, <3>3 DEF ApplyFile
      <3>. QED  BY <3>2, <3>3
    <2>11. CASE SignFile(p)
      <3>1. f \in Files /\ Content[p][f] \in Contents
        BY <2>0, <2>11 DEF SignFile, MigrationTypes
      <3>. QED  BY <2>0, <2>9, <2>11, <3>1 DEF SignFile
    <2>12. CASE FinishBoot(p)
      BY <2>1, <2>2, <2>12 DEF FinishBoot
    <2>13. CASE BootEnds(p)
      BY <2>3, <2>13 DEF BootEnds
    <2>. QED  BY <1>1, <2>5, <2>6, <2>7, <2>8, <2>10, <2>11, <2>12, <2>13 DEF BootStep
  <1>2. CASE UNCHANGED migrationVars
    BY <1>2 DEF MigrationTypes, migrationVars
  <1>. QED  BY <1>1, <1>2 DEF MigrationNext

\* The ledger, what was committed, the lock and the boots have their types (db/migrations.ts).
THEOREM MigrationsTyped == MigrationSpec => []MigrationTypeOK
  <1>1. MigrationInit => MigrationInv /\ MigrationTypes
    BY InitMigrations, MigrationTypesInit
  <1>2. MigrationInv /\ MigrationTypes /\ [MigrationNext]_migrationVars => (MigrationInv /\ MigrationTypes)'
    <2>1. ASSUME MigrationInv, MigrationTypes, [MigrationNext]_migrationVars
          PROVE  MigrationInv' /\ MigrationTypes'
      BY <2>1, NextMigrations, MigrationTypesNext
    <2>. QED  BY <2>1
  <1>3. MigrationInv /\ MigrationTypes => MigrationTypeOK
    BY DEF MigrationInv, MigrationColumns, BootType, MigrationTypes, MigrationTypeOK
  <1>. QED  BY <1>1, <1>2, <1>3, PTL DEF MigrationSpec

-----------------------------------------------------------------------------
(* What the server serves from *)

\* Through every crossing of requests, reviews, restarts and boots, what the
\* server relies on is in the database (spots/store.ts, routes/affiliates.ts,
\* db/migrations.ts): the specifications share no variable, so each keeps its
\* part whatever the others do.
THEOREM MemoryCorrect == MemorySpec => []MemoryIsBacked
  BY SpotsCorrect, AffiliatesCorrect, MigrationsCorrect, PTL DEF MemorySpec, MemoryIsBacked

=============================================================================
