------------------------------ MODULE Sessions ------------------------------
(***************************************************************************)
(* Who is still signed in (middleware/auth.ts, auth/tokens.ts, auth/        *)
(* alphaSessionScopeBatcher.ts, the session routes of routes/auth.ts).      *)
(* A session is a token that carries the epoch of its account; each process *)
(* keeps the account's epoch for a while and looks it up in batches.  One   *)
(* account; tokens do not expire by age here.                               *)
(***************************************************************************)
EXTENDS Integers, FiniteSets

CONSTANTS Processes,    \* server processes, each with its caches
          Calls,        \* requests in flight
          Ttl,          \* SESSION_CACHE_TTL_MS
          LookupTicks,  \* assumed: ticks a batched query takes at most
          MaxFailures,  \* wrong passwords before the pause
          MaxEpoch,     \* bound: revocations
          MaxTick       \* bound: the clock

ASSUME SessionsAssumption ==
  {Ttl, LookupTicks, MaxFailures, MaxEpoch, MaxTick} \subseteq Nat \ {0} /\ MaxFailures > 1

Epochs == 0..MaxEpoch
Unread == -1

VARIABLES epoch,    \* users.session_epoch
          secret,   \* which password is set
          issued,   \* epochs of the tokens out there
          scope,    \* by process: the cached epoch and when it expires
          queue,    \* by process: calls waiting for the next batch
          flight,   \* by process: the batch under way, since when, what it read
          call,
          failures, \* by process: wrong passwords, and until when it pauses
          tick,
          ended,    \* when an epoch ended
          served    \* the last token accepted, and when

sessionVars == <<epoch, secret, issued, scope, queue, flight, call, failures, tick,
                 ended, served>>

Idle == [op |-> "none", at |-> "none", token |-> 0]
Landed == [callers |-> {}, since |-> 0, read |-> Unread]
Nothing == [epoch |-> Unread, until |-> 0]
NoFailure == [count |-> 0, until |-> 0]

-----------------------------------------------------------------------------
(* Authentication *)

\* Mutant for RevokedSessionsEnd: an entry never expires.
Cached_Forever(p) == scope[p] # Nothing
Cached(p) == tick < scope[p].until

After(op) == CASE op = "visit" -> "none" [] op = "upgrade" -> "issue" [] op = "revoke" -> "bump"

Accepted(c, read) == IF c.token # read \/ c.op = "visit" THEN Idle
                     ELSE [c EXCEPT !.op = After(c.op)]

Serve(tokens, read) ==
  served' = IF read \in tokens THEN [epoch |-> read, at |-> tick] ELSE served

\* A request with a token: decided from the cache or queued for the next batch.
Authenticate(k, p, op, token) ==
  /\ call[k] = Idle /\ token \in issued
  /\ LET arrived == [op |-> op, at |-> p, token |-> token] IN
     IF Cached(p)
     THEN /\ call' = [call EXCEPT ![k] = Accepted(arrived, scope[p].epoch)]
          /\ Serve({token}, scope[p].epoch) /\ UNCHANGED queue
     ELSE /\ call' = [call EXCEPT ![k] = arrived]
          /\ queue' = [queue EXCEPT ![p] = @ \cup {k}] /\ UNCHANGED served
  /\ UNCHANGED <<epoch, secret, issued, scope, flight, failures, tick, ended>>

\* executeBatch: the queue goes out unless a batch is under way.
ExecuteBatch(p) ==
  /\ queue[p] # {} /\ flight[p] = Landed
  /\ flight' = [flight EXCEPT ![p] = [callers |-> queue[p], since |-> tick, read |-> Unread]]
  /\ queue' = [queue EXCEPT ![p] = {}]
  /\ UNCHANGED <<epoch, secret, issued, scope, call, failures, tick, ended, served>>

FindSessionScopes(p) ==
  /\ flight[p].callers # {} /\ flight[p].read = Unread
  /\ flight' = [flight EXCEPT ![p].read = epoch]
  /\ UNCHANGED <<epoch, secret, issued, scope, queue, call, failures, tick, ended, served>>

\* The answer settles every caller, and each puts it into the cache.
ResolveBatch(p) ==
  /\ flight[p].read # Unread
  /\ LET read == flight[p].read
         callers == flight[p].callers IN
     /\ scope' = [scope EXCEPT ![p] = [epoch |-> read, until |-> tick + Ttl]]
     /\ call' = [k \in Calls |-> IF k \in callers THEN Accepted(call[k], read) ELSE call[k]]
     /\ Serve({call[k].token : k \in callers}, read)
  /\ flight' = [flight EXCEPT ![p] = Landed]
  /\ UNCHANGED <<epoch, secret, issued, queue, failures, tick, ended>>

\* A failed query answers 503 and caches nothing.
RejectBatch(p) ==
  /\ flight[p].callers # {}
  /\ call' = [k \in Calls |-> IF k \in flight[p].callers THEN Idle ELSE call[k]]
  /\ flight' = [flight EXCEPT ![p] = Landed]
  /\ UNCHANGED <<epoch, secret, issued, scope, queue, failures, tick, ended, served>>

-----------------------------------------------------------------------------
(* Signing in, upgrading, revoking *)

\* A process that counted too many wrong passwords does not look at one.
Throttled(p) == tick < failures[p].until

\* Mutant for TravelersTypeOK: the count goes on after a pause.
RecordFailure_GoesOn(p) ==
  failures' = [failures EXCEPT ![p] =
    [count |-> @.count + 1, until |-> IF @.count + 1 >= MaxFailures THEN tick + Ttl ELSE 0]]
\* The first one, or the first after a pause or a window, opens a record.
RecordFailure(p) ==
  \/ failures' = [failures EXCEPT ![p] = [count |-> 1, until |-> 0]]
  \/ /\ failures[p].count > 0 /\ failures[p].until = 0
     /\ failures' = [failures EXCEPT ![p] =
          [count |-> @.count + 1,
           until |-> IF @.count + 1 >= MaxFailures THEN tick + Ttl ELSE 0]]

Login(k, p, word) ==
  /\ call[k] = Idle /\ ~Throttled(p)
  /\ IF word = secret
     THEN call' = [call EXCEPT ![k] = [op |-> "issue", at |-> p, token |-> 0]]
          /\ failures' = [failures EXCEPT ![p] = NoFailure]
     ELSE RecordFailure(p) /\ UNCHANGED call
  /\ UNCHANGED <<epoch, secret, issued, scope, queue, flight, tick, ended, served>>

\* findById, then a token with the epoch it read.
IssueToken(k) ==
  /\ call[k].op = "issue"
  /\ issued' = issued \cup {epoch} /\ call' = [call EXCEPT ![k] = Idle]
  /\ UNCHANGED <<epoch, secret, scope, queue, flight, failures, tick, ended, served>>

\* A reset whose grant was spent: three statements.
SetNewPassword(k, p) ==
  /\ call[k] = Idle /\ secret < MaxEpoch
  /\ secret' = secret + 1
  /\ call' = [call EXCEPT ![k] = [op |-> "bump", at |-> p, token |-> 0]]
  /\ UNCHANGED <<epoch, issued, scope, queue, flight, failures, tick, ended, served>>

BumpSessionEpoch(k) ==
  /\ call[k].op = "bump" /\ epoch < MaxEpoch
  /\ epoch' = epoch + 1 /\ ended' = [ended EXCEPT ![epoch] = tick]
  /\ call' = [call EXCEPT ![k].op = "forget"]
  /\ UNCHANGED <<secret, issued, scope, queue, flight, failures, tick, served>>

\* Only the cache of the process that answers is emptied.
InvalidateSessionScopeCache(k) ==
  /\ call[k].op = "forget"
  /\ scope' = [scope EXCEPT ![call[k].at] = Nothing]
  /\ call' = [call EXCEPT ![k] = Idle]
  /\ UNCHANGED <<epoch, secret, issued, queue, flight, failures, tick, ended, served>>

\* A process restarts: its caches, and the rest of its requests, are gone.
RestartProcess(p) ==
  /\ scope' = [scope EXCEPT ![p] = Nothing] /\ queue' = [queue EXCEPT ![p] = {}]
  /\ flight' = [flight EXCEPT ![p] = Landed]
  /\ failures' = [failures EXCEPT ![p] = NoFailure]
  /\ call' = [k \in Calls |-> IF call[k].at = p THEN Idle ELSE call[k]]
  /\ <<scope, queue, flight, failures, call>>' # <<scope, queue, flight, failures, call>>
  /\ UNCHANGED <<epoch, secret, issued, tick, ended, served>>

SessionTick ==
  /\ tick < MaxTick
  /\ \A p \in Processes : flight[p].callers # {} => tick < flight[p].since + LookupTicks
  /\ tick' = tick + 1
  /\ UNCHANGED <<epoch, secret, issued, scope, queue, flight, call, failures, ended, served>>

-----------------------------------------------------------------------------

SessionInit ==
  /\ epoch = 0 /\ secret = 0 /\ issued = {0} /\ tick = 0
  /\ scope = [p \in Processes |-> Nothing] /\ queue = [p \in Processes |-> {}]
  /\ flight = [p \in Processes |-> Landed] /\ failures = [p \in Processes |-> NoFailure]
  /\ call = [k \in Calls |-> Idle]
  /\ ended = [e \in Epochs |-> 0] /\ served = [epoch |-> 0, at |-> 0]

LookupStep ==
  \E p \in Processes :
    ExecuteBatch(p) \/ FindSessionScopes(p) \/ ResolveBatch(p) \/ RejectBatch(p)
    \/ RestartProcess(p)

CallStep(k) ==
  \/ \E p \in Processes :
       \/ \E op \in {"visit", "upgrade", "revoke"}, token \in issued :
            Authenticate(k, p, op, token)
       \/ \E word \in {secret - 1, secret} : Login(k, p, word)
       \/ SetNewPassword(k, p)
  \/ IssueToken(k) \/ BumpSessionEpoch(k) \/ InvalidateSessionScopeCache(k)

SessionNext == LookupStep \/ SessionTick \/ \E k \in Calls : CallStep(k)

SessionSpec == SessionInit /\ [][SessionNext]_sessionVars

-----------------------------------------------------------------------------
(* Properties *)

SessionTypeOK ==
  /\ epoch \in Epochs /\ secret \in Epochs /\ issued \subseteq 0..epoch /\ tick \in 0..MaxTick
  /\ \A p \in Processes :
       /\ scope[p].epoch \in {Unread} \cup 0..epoch /\ flight[p].read \in {Unread} \cup 0..epoch
       /\ queue[p] \cap flight[p].callers = {} /\ failures[p].count <= MaxFailures

\* A revoked session ends everywhere: once the epoch of a token is over, no
\* process accepts it for longer than a lookup takes and an entry is cached,
\* whichever process revoked it, restarted, or still had the answer coming.
RevokedSessionsEnd ==
  served.epoch < epoch => served.at < ended[served.epoch] + LookupTicks + Ttl
=============================================================================
