------------------------------ MODULE Accounts ------------------------------
(***************************************************************************)
(* Ways into an account (routes/auth.ts, auth/identityService.ts,           *)
(* auth/challengeService.ts): registering an e-mail address, the codes and  *)
(* grants sent to it, Google, and wallets.  A request is a list of          *)
(* statements; other requests run between any two of them, and it may end   *)
(* after any of them.                                                       *)
(***************************************************************************)
EXTENDS Integers, FiniteSets, Sequences

CONSTANTS MaxAccount,  \* bound: rows of users
          Emails,      \* addresses, each with its Google identity
          Wallets,
          NoWallet,
          Visits,      \* requests in flight
          MaxCode,     \* bound: rows of auth_challenges
          MaxTries,    \* max_attempts of a code
          MaxBreaks    \* bound: restarts and requests cut short

ASSUME AccountsAssumption ==
  /\ {MaxAccount, MaxCode, MaxTries} \subseteq Nat \ {0} /\ MaxBreaks \in Nat
  /\ NoWallet \notin Wallets

NoOne == 0
Rows == 1..MaxAccount
Codes == 1..MaxCode

VARIABLES accounts,  \* rows of users so far
          owner,     \* auth_identities by e-mail
          google,    \* and by the Google subject of an address
          walletId,  \* and by wallet
          wallet,    \* users.wallet_address
          seed,      \* the wallet in users.seed_id
          realMail,  \* the rows whose e-mail is not a placeholder
          password,  \* the rows with password_credentials
          record,    \* account_emails
          code,      \* auth_challenges, in the order they were made
          nonce,     \* wallets with a message to sign, in memory
          visit,     \* requests in flight
          breaks

accountVars == <<accounts, owner, google, walletId, wallet, seed, realMail, password,
                 record, code, nonce, visit, breaks>>
identities == <<owner, google, walletId>>
users == <<accounts, wallet, seed, realMail>>

-----------------------------------------------------------------------------
(* Rows and requests *)

NoCode == [purpose |-> "none", about |-> "none", user |-> NoOne, open |-> FALSE,
           fresh |-> FALSE, tries |-> 0, uses |-> 0]
NoVisit == [op |-> "none", todo |-> <<>>, mail |-> "none", wal |-> NoWallet,
            who |-> NoOne, bound |-> NoOne, note |-> FALSE]

\* What a request does, statement by statement; those that only change what
\* no other request reads are left out.
Statements(op) ==
  CASE op = "register" -> <<"free", "email", "password", "record", "retire", "code">>
    [] op = "resend"   -> <<"owner", "retire", "code">>
    [] op = "forgot"   -> <<"owner", "retire", "code">>
    [] op = "verify"   -> <<"consume", "verified">>
    [] op = "verifyCode" -> <<"consume", "code">>
    [] op = "reset"    -> <<"consume", "password">>
    [] op = "google"   -> <<"byGoogle", "readRecord", "byEmail">>
    [] op = "wallet"   -> <<"byWallet", "bySeed", "bindSeed", "completed", "code">>
    [] op = "complete" -> <<"consume", "byWallet", "bySeed", "bindSeed", "join">>

\* The purpose of the code a request makes, and of the one it consumes.
Makes(op) == CASE op \in {"register", "resend"} -> "signup"
               [] op = "forgot" -> "reset"
               [] op = "verifyCode" -> "grant"
               [] op = "wallet" -> "onboarding"
Takes(op) == CASE op = "verify" -> "signup"
               [] op = "verifyCode" -> "reset"
               [] op = "reset" -> "grant"
               [] op = "complete" -> "onboarding"

Busy(r, statement) == visit[r].todo # <<>> /\ Head(visit[r].todo) = statement

\* The request goes on with the given statements for the given account.
Turn(r, todo, who, note) ==
  visit' = [visit EXCEPT ![r] =
              IF todo = <<>> THEN NoVisit
              ELSE [@ EXCEPT !.todo = todo, !.who = who, !.note = note]]
Go(r) == Turn(r, Tail(visit[r].todo), visit[r].who, visit[r].note)
End(r) == visit' = [visit EXCEPT ![r] = NoVisit]

HolderOf(w) == IF \E u \in Rows : wallet[u] = w THEN CHOOSE u \in Rows : wallet[u] = w
               ELSE NoOne
SeededBy(w) == IF \E u \in Rows : seed[u] = w THEN CHOOSE u \in Rows : seed[u] = w
               ELSE NoOne

\* A wallet is refused to a second account by the check or the unique index.
MayBind(u, w) == HolderOf(w) \in {NoOne, u}

\* An address or subject is linked to one account; to the same one again.
\* Mutant for OwnersAgree: ON CONFLICT DO UPDATE takes the identity over.
MayLink_Any(holder, u) == TRUE
MayLink(holder, u) == holder \in {NoOne, u}

-----------------------------------------------------------------------------
(* Registering and linking *)

\* Either the address has no identity, and a new account is made for it, or
\* the request is refused (or the mail budget is used up).
Free(r) ==
  /\ Busy(r, "free")
  /\ \/ End(r) /\ UNCHANGED users
     \/ /\ owner[visit[r].mail] = NoOne /\ accounts < MaxAccount
        /\ accounts' = accounts + 1
        /\ realMail' = realMail \cup {accounts + 1}
        /\ Turn(r, Tail(visit[r].todo), accounts + 1, FALSE)
        /\ UNCHANGED <<wallet, seed>>
  /\ UNCHANGED <<identities, password, record, code, nonce, breaks>>

LinkEmail(r) ==
  /\ Busy(r, "email")
  /\ LET e == visit[r].mail IN
     IF MayLink(owner[e], visit[r].who)
     THEN owner' = [owner EXCEPT ![e] = visit[r].who] /\ Go(r)
     ELSE End(r) /\ UNCHANGED owner
  /\ UNCHANGED <<users, google, walletId, password, record, code, nonce, breaks>>

LinkWallet(r) ==
  /\ Busy(r, "walletId")
  /\ LET w == visit[r].wal IN
     IF MayLink(walletId[w], visit[r].who)
     THEN walletId' = [walletId EXCEPT ![w] = visit[r].who] /\ Go(r)
     ELSE End(r) /\ UNCHANGED walletId
  /\ UNCHANGED <<users, owner, google, password, record, code, nonce, breaks>>

SetPassword(r) ==
  /\ Busy(r, "password")
  /\ password' = password \cup {visit[r].who} /\ Go(r)
  /\ UNCHANGED <<users, identities, record, code, nonce, breaks>>

\* The row of an address keeps the account it was made for.
RecordAccountEmail(r) ==
  /\ Busy(r, "record")
  /\ LET e == visit[r].mail
         verified == visit[r].op = "google" IN
     record' = [record EXCEPT ![e] =
                  [user |-> IF @.user = NoOne THEN visit[r].who ELSE @.user,
                   verified |-> verified]]
  /\ Go(r)
  /\ UNCHANGED <<users, identities, password, code, nonce, breaks>>

FindOwner(r) ==
  /\ Busy(r, "owner")
  /\ LET u == owner[visit[r].mail] IN
     \/ End(r)
     \/ u # NoOne /\ Turn(r, Tail(visit[r].todo), u, FALSE)
  /\ UNCHANGED <<users, identities, password, record, code, nonce, breaks>>

-----------------------------------------------------------------------------
(* Codes *)

\* createChallenge: one statement retires the codes the new one replaces ...
Retire(r) ==
  /\ Busy(r, "retire")
  /\ code' = [c \in Codes |->
                IF code[c].purpose = Makes(visit[r].op) /\ code[c].about = visit[r].mail
                THEN [code[c] EXCEPT !.open = FALSE] ELSE code[c]]
  /\ Go(r)
  /\ UNCHANGED <<users, identities, password, record, nonce, breaks>>

\* ... and the next one inserts it; a grant has a new target of its own.
MakeCode(r) ==
  /\ Busy(r, "code")
  /\ \E c \in Codes :
       /\ code[c] = NoCode /\ (c > 1 => code[c - 1] # NoCode)
       /\ code' = [code EXCEPT ![c] =
            [NoCode EXCEPT !.purpose = Makes(visit[r].op), !.user = visit[r].who,
                           !.about = IF visit[r].op = "wallet" THEN visit[r].wal
                                     ELSE visit[r].mail,
                           !.open = TRUE, !.fresh = TRUE]]
  /\ Go(r)
  /\ UNCHANGED <<users, identities, password, record, nonce, breaks>>

\* The row consumeChallenge locks: the newest open one; a grant names its own.
Locked(r, c) ==
  /\ code[c].open /\ code[c].purpose = Takes(visit[r].op)
  /\ code[c].about = IF visit[r].op = "complete" THEN visit[r].wal ELSE visit[r].mail
  /\ code[c].purpose \in {"signup", "reset"} =>
       \A d \in Codes : d > c /\ code[d].purpose = code[c].purpose
                          /\ code[d].about = code[c].about => ~code[d].open

Granted(r, u) ==
  visit' = [visit EXCEPT ![r].todo = Tail(@), ![r].who = u, ![r].bound = u]

Spent(c) == [code[c] EXCEPT !.open = FALSE, !.tries = @ + 1, !.uses = @ + 1]

\* consumeChallenge, one transaction: an expired or worn out code is closed, a
\* wrong one counted, the right one spent.
Consume(r) ==
  /\ Busy(r, "consume")
  /\ \/ (\A c \in Codes : ~Locked(r, c)) /\ End(r) /\ UNCHANGED code
     \/ \E c \in Codes :
          /\ Locked(r, c)
          /\ IF ~code[c].fresh \/ code[c].tries >= MaxTries
             THEN code' = [code EXCEPT ![c].open = FALSE] /\ End(r)
             ELSE \/ code' = [code EXCEPT ![c].tries = @ + 1] /\ End(r)
                  \/ /\ code' = [code EXCEPT ![c] = Spent(c)]
                     /\ Granted(r, code[c].user)
  /\ UNCHANGED <<users, identities, password, record, nonce, breaks>>

CodeExpires(c) ==
  /\ code[c].open /\ code[c].fresh
  /\ code' = [code EXCEPT ![c].fresh = FALSE]
  /\ UNCHANGED <<users, identities, password, record, nonce, visit, breaks>>

MarkEmailVerified(r) ==
  /\ Busy(r, "verified")
  /\ LET e == visit[r].mail IN
     record' = IF record[e].user = NoOne THEN record
               ELSE [record EXCEPT ![e].verified = TRUE]
  /\ Go(r)
  /\ UNCHANGED <<users, identities, password, code, nonce, breaks>>

-----------------------------------------------------------------------------
(* Google *)

ByGoogle(r) ==
  /\ Busy(r, "byGoogle")
  /\ IF google[visit[r].mail] # NoOne THEN End(r) ELSE Go(r)
  /\ UNCHANGED <<users, identities, password, record, code, nonce, breaks>>

ReadRecord(r) ==
  /\ Busy(r, "readRecord")
  /\ Turn(r, Tail(visit[r].todo), NoOne, ~record[visit[r].mail].verified)
  /\ UNCHANGED <<users, identities, password, record, code, nonce, breaks>>

\* The account of the address is linked, or a new one made.
ByEmail(r) ==
  /\ Busy(r, "byEmail")
  /\ LET u == owner[visit[r].mail] IN
     \/ /\ u # NoOne /\ Turn(r, <<"linkGoogle">>, u, visit[r].note) /\ UNCHANGED users
     \/ u = NoOne /\ End(r) /\ UNCHANGED users
     \/ /\ u = NoOne /\ accounts < MaxAccount
        /\ accounts' = accounts + 1 /\ realMail' = realMail \cup {accounts + 1}
        /\ Turn(r, <<"google", "email", "record">>, accounts + 1, FALSE)
        /\ UNCHANGED <<wallet, seed>>
  /\ UNCHANGED <<identities, password, record, code, nonce, breaks>>

\* linkGoogleToAccount, one transaction.
LinkGoogleToAccount(r) ==
  /\ Busy(r, "linkGoogle")
  /\ LET e == visit[r].mail
         u == visit[r].who IN
     /\ password' = IF visit[r].note THEN password \ {u} ELSE password
     /\ google' = IF google[e] = NoOne THEN [google EXCEPT ![e] = u] ELSE google
     /\ record' = IF record[e].user = NoOne THEN record
                  ELSE [record EXCEPT ![e].verified = TRUE]
  /\ Go(r)
  /\ UNCHANGED <<users, owner, walletId, code, nonce, breaks>>

LinkGoogle(r) ==
  /\ Busy(r, "google")
  /\ LET e == visit[r].mail IN
     IF MayLink(google[e], visit[r].who)
     THEN google' = [google EXCEPT ![e] = visit[r].who] /\ Go(r)
     ELSE End(r) /\ UNCHANGED google
  /\ UNCHANGED <<users, owner, walletId, password, record, code, nonce, breaks>>

-----------------------------------------------------------------------------
(* Wallets *)

WalletChallenge(w) ==
  /\ w \notin nonce /\ nonce' = nonce \cup {w}
  /\ UNCHANGED <<users, identities, password, record, code, visit, breaks>>

\* What follows once the account of a wallet is known.
Found(op) == IF op = "wallet" THEN <<"completed", "code">> ELSE <<"join">>

\* findWalletUser: by address, else by seed; a seeded account without a wallet
\* gets this one.
ByWallet(r) ==
  /\ Busy(r, "byWallet")
  /\ LET u == HolderOf(visit[r].wal) IN
     Turn(r, IF u # NoOne THEN Found(visit[r].op) ELSE Tail(visit[r].todo), u, FALSE)
  /\ UNCHANGED <<users, identities, password, record, code, nonce, breaks>>

BySeed(r) ==
  /\ Busy(r, "bySeed")
  /\ LET u == SeededBy(visit[r].wal) IN
     Turn(r, IF u # NoOne /\ wallet[u] = NoWallet THEN Tail(visit[r].todo)
             ELSE Found(visit[r].op), u, FALSE)
  /\ UNCHANGED <<users, identities, password, record, code, nonce, breaks>>

BindSeed(r) ==
  /\ Busy(r, "bindSeed") \/ Busy(r, "bind")
  /\ LET u == visit[r].who IN
     IF MayBind(u, visit[r].wal)
     THEN wallet' = [wallet EXCEPT ![u] = visit[r].wal] /\ Go(r)
     ELSE End(r) /\ UNCHANGED wallet
  /\ UNCHANGED <<accounts, seed, realMail, identities, password, record, code, nonce, breaks>>

\* walletSignIn: a completed account is signed in, another gets a grant.
Completed(u) == /\ u \in realMail
                /\ u \in password \/ \E e \in Emails : google[e] = u

WalletSignIn(r) ==
  /\ Busy(r, "completed")
  /\ IF visit[r].who # NoOne /\ Completed(visit[r].who) THEN End(r) ELSE Go(r)
  /\ UNCHANGED <<users, identities, password, record, code, nonce, breaks>>

\* complete-registration: the wallet joins the account of the address, whose
\* password was given, or its own account, or a new one, gets the address.
Join(r) ==
  /\ Busy(r, "join")
  /\ LET u == visit[r].who
         w == visit[r].wal
         o == owner[visit[r].mail] IN
     \/ End(r)
     \/ /\ visit[r].bound \in {NoOne, u}
        /\ \/ /\ o \in password /\ u \in {NoOne, o} /\ wallet[o] \in {NoWallet, w}
              /\ Turn(r, IF wallet[o] = w THEN <<"walletId">> ELSE <<"bind", "walletId">>,
                      o, FALSE)
           \/ /\ o = NoOne
              /\ Turn(r, <<IF u = NoOne THEN "create" ELSE "setEmail", "email", "password",
                           "record", "walletId">>, u, FALSE)
  /\ UNCHANGED <<users, identities, password, record, code, nonce, breaks>>

SetUserEmail(r) ==
  /\ Busy(r, "setEmail")
  /\ realMail' = realMail \cup {visit[r].who} /\ Go(r)
  /\ UNCHANGED <<accounts, wallet, seed, identities, password, record, code, nonce, breaks>>

\* One statement: a seeded row that appeared meanwhile is taken instead, and
\* gets the wallet if it has none.
CreateWalletUser(r) ==
  /\ Busy(r, "create")
  /\ LET w == visit[r].wal
         u == SeededBy(w) IN
     \/ /\ \/ u = NoOne /\ ~MayBind(NoOne, w)
           \/ u # NoOne /\ wallet[u] = NoWallet /\ ~MayBind(u, w)
        /\ End(r) /\ UNCHANGED users
     \/ /\ u = NoOne /\ MayBind(NoOne, w) /\ accounts < MaxAccount
        /\ accounts' = accounts + 1 /\ realMail' = realMail \cup {accounts + 1}
        /\ wallet' = [wallet EXCEPT ![accounts + 1] = w]
        /\ seed' = [seed EXCEPT ![accounts + 1] = w]
        /\ Turn(r, Tail(visit[r].todo), accounts + 1, FALSE)
     \/ /\ u # NoOne /\ (wallet[u] # NoWallet \/ MayBind(u, w))
        /\ wallet' = [wallet EXCEPT ![u] = IF @ = NoWallet THEN w ELSE @]
        /\ Turn(r, Tail(visit[r].todo), u, FALSE)
        /\ UNCHANGED <<accounts, seed, realMail>>
  /\ UNCHANGED <<identities, password, record, code, nonce, breaks>>

\* A traveler who is signed in links the wallet that signed, or unlinks it.
Bind(u, w) ==
  /\ u \in 1..accounts /\ w \in nonce
  /\ nonce' = nonce \ {w}
  /\ wallet' = IF MayBind(u, w) THEN [wallet EXCEPT ![u] = w] ELSE wallet
  /\ UNCHANGED <<accounts, seed, realMail, identities, password, record, code, visit, breaks>>

Unbind(u) ==
  /\ wallet[u] # NoWallet
  /\ wallet' = [wallet EXCEPT ![u] = NoWallet]
  /\ UNCHANGED <<accounts, seed, realMail, identities, password, record, code, nonce,
                 visit, breaks>>

-----------------------------------------------------------------------------

\* A legacy account may know only its wallet.
AccountsInit ==
  /\ \E old \in {{}} \cup {{w} : w \in Wallets} :
       /\ accounts = Cardinality(old)
       /\ wallet = [u \in Rows |-> IF u = 1 /\ old # {} THEN CHOOSE w \in old : TRUE
                                   ELSE NoWallet]
  /\ seed = wallet /\ realMail = {} /\ password = {}
  /\ owner = [e \in Emails |-> NoOne] /\ google = owner
  /\ walletId = [w \in Wallets |-> NoOne]
  /\ record = [e \in Emails |-> [user |-> NoOne, verified |-> FALSE]]
  /\ code = [c \in Codes |-> NoCode] /\ nonce = {}
  /\ visit = [r \in Visits |-> NoVisit] /\ breaks = 0

\* A request arrives; a wallet's login takes its message out of memory.
Arrive(r, op, e, w) ==
  /\ visit[r] = NoVisit
  /\ IF op = "wallet" THEN w \in nonce /\ nonce' = nonce \ {w} ELSE UNCHANGED nonce
  /\ visit' = [visit EXCEPT ![r] =
                 [NoVisit EXCEPT !.op = op, !.todo = Statements(op), !.mail = e, !.wal = w]]
  /\ UNCHANGED <<users, identities, password, record, code, breaks>>

\* A statement fails or the client's connection breaks: the rest never runs.
CutShort(r) ==
  /\ visit[r] # NoVisit /\ breaks < MaxBreaks
  /\ End(r) /\ breaks' = breaks + 1
  /\ UNCHANGED <<users, identities, password, record, code, nonce>>

ServerRestarts ==
  /\ breaks < MaxBreaks /\ breaks' = breaks + 1
  /\ nonce' = {} /\ visit' = [r \in Visits |-> NoVisit]
  /\ UNCHANGED <<users, identities, password, record, code>>

Statement(r) ==
  \/ Free(r) \/ LinkEmail(r) \/ LinkWallet(r) \/ SetPassword(r) \/ RecordAccountEmail(r)
  \/ FindOwner(r) \/ Retire(r) \/ MakeCode(r) \/ Consume(r) \/ MarkEmailVerified(r)
  \/ ByGoogle(r) \/ ReadRecord(r) \/ ByEmail(r) \/ LinkGoogleToAccount(r) \/ LinkGoogle(r)
  \/ ByWallet(r) \/ BySeed(r) \/ BindSeed(r) \/ WalletSignIn(r) \/ Join(r)
  \/ SetUserEmail(r) \/ CreateWalletUser(r) \/ CutShort(r)

\* Every request a client may make; complete-registration needs the grant of its
\* wallet, "wallet" the signed message.
AccountsNext ==
  \/ \E r \in Visits : Statement(r)
  \/ \E r \in Visits, e \in Emails,
        op \in {"register", "resend", "forgot", "verify", "verifyCode", "reset", "google"} :
       Arrive(r, op, e, NoWallet)
  \/ \E r \in Visits, e \in Emails, w \in Wallets :
       Arrive(r, "wallet", "none", w) \/ Arrive(r, "complete", e, w)
  \/ \E c \in Codes : CodeExpires(c)
  \/ \E w \in Wallets : WalletChallenge(w) \/ \E u \in Rows : Bind(u, w)
  \/ \E u \in Rows : Unbind(u)
  \/ ServerRestarts

AccountsSpec == AccountsInit /\ [][AccountsNext]_accountVars

-----------------------------------------------------------------------------
(* Properties *)

AccountsTypeOK ==
  /\ accounts \in 0..MaxAccount
  /\ owner \in [Emails -> {NoOne} \cup Rows] /\ google \in [Emails -> {NoOne} \cup Rows]
  /\ walletId \in [Wallets -> {NoOne} \cup Rows]
  /\ wallet \in [Rows -> Wallets \cup {NoWallet}] /\ seed \in [Rows -> Wallets \cup {NoWallet}]
  /\ realMail \subseteq 1..accounts /\ password \subseteq 1..accounts
  /\ record \in [Emails -> [user : {NoOne} \cup Rows, verified : BOOLEAN]]
  /\ \A c \in Codes : code[c].tries \in 0..MaxTries /\ code[c].user \in {NoOne} \cup Rows
  /\ nonce \subseteq Wallets /\ breaks \in 0..MaxBreaks

\* However registrations, Google sign-ins and wallets race, and wherever they
\* are cut short: an address, its record and every code sent to it belong to
\* one account, a code works once, and nobody waits for a code of no account.
OwnersAgree ==
  /\ \A e \in Emails : record[e].user \in {NoOne, owner[e]}
  /\ \A c \in Codes :
       /\ code[c].purpose \in {"signup", "reset", "grant"} =>
            code[c].user # NoOne /\ code[c].user = owner[code[c].about]
       /\ code[c].uses <= 1 /\ (code[c].open => code[c].uses = 0)
=============================================================================
