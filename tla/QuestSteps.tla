------------------------------ MODULE QuestSteps ------------------------------
(***************************************************************************)
(* The tasks of one attempt: the evidence a traveler posts for each, the   *)
(* passes and challenges that may stand in for it, the reviewers of photos *)
(* and of the attempt, and the submission that ends it.                    *)
(*                                                                         *)
(* Evidence is checked against unlocked reads and then written by four     *)
(* statements, each a transaction of its own: the task, the task it        *)
(* unlocks, the count, and the attempt.  request[r] is one HTTP request    *)
(* between them.  Reviews are transactions.                                *)
(*                                                                         *)
(* Each process also keeps the attempt in its memory, and of its tasks     *)
(* those that requests it served have saved there; a handler that finds no *)
(* attempt in progress in the table takes the one in the memory.           *)
(***************************************************************************)
EXTENDS Naturals, FiniteSets

CONSTANTS
  LastTask,          \* tasks are 1..LastTask, quest_step_evidence.step_order
  Snapshots,     \* how each is verified: "open" (a place or a printed code),
                 \* "photo", "ar", "host" (the host scans a pass) or "action"
  Required,      \* the tasks that must be done
  Processes,     \* API workers, each with its own memory
  Requests,
  ServedBy,      \* the process of each request
  Passes, NoPass,  \* nonces of AR challenges and of passes for the host
  MaxFaults      \* bound: failed statements and restarts

Tasks == 1..LastTask

ASSUME TasksAreSome == LastTask \in Nat \ {0} /\ Required \subseteq Tasks
ASSUME RequestsAreServed == ServedBy \in [Requests -> Processes]
ASSUME FaultsAreCounted == MaxFaults \in Nat
ASSUME CheckpointsKnown == Snapshots \subseteq [Tasks -> {"open", "photo", "ar", "host", "action"}]

VARIABLES
  terms,         \* step_order_mode, steps_snapshot, and whether the quest has a
                 \* funding plan
  questAttempt,  \* quest_attempts.status
  task,          \* quest_step_evidence.status
  verifiedSteps, \* quest_attempts.verified_steps
  mirror,        \* the attempt and its tasks in the memory of each process
  due,           \* updates of that attempt which follow a commit
  request,
  pass,          \* the tasks an issued nonce is good for
  claimed,       \* usedChallengeNonces, in the memory of each process
  reading,       \* what a submit or complete request decided to do: a set of
                 \* at most one decision
  faults,
  verified,      \* history: tasks the table or a memory had as verified
  spent,         \* history: how often a nonce verified a task, by process
  overlooked     \* history: tasks the completing request had no row of

rows == <<questAttempt, task, verifiedSteps>>
memory == <<mirror, due, request, claimed, reading>>
history == <<verified, spent, overlooked>>
stepVars == <<terms, rows, memory, pass, faults, history>>

Terms == [order : {"sequential", "any"}, checkpoint : Snapshots, funded : BOOLEAN]
Checkpoint == terms.checkpoint

AttemptStatus == {"none", "in_progress", "submitted", "completed", "abandoned"}
TaskStatus == {"none", "not_started", "ready", "pending_review", "verified", "needs_changes"}

Copy == [attempt : AttemptStatus, task : [Tasks -> TaskStatus]]
Update == [at : Processes, attempt : AttemptStatus, by : {"start", "submission", "review"}]
Decision == [kind : {"submit", "settle"}, at : Processes, inTable : BOOLEAN,
             missing : SUBSET Tasks]

Idle == [phase |-> "idle", task |-> 1, pass |-> NoPass, status |-> "ready", count |-> 0]
NoTasks == [s \in Tasks |-> "none"]

VerifiedCount == Cardinality({s \in Tasks : task[s] = "verified"})
Done(s) == task[s] \in {"verified", "pending_review"}

SetTask(s, status) == task' = [task EXCEPT ![s] = status]

\* What a process is still to remember of a committed change.
Owes(w, status, source) == due' = due \cup {[at |-> w, attempt |-> status, by |-> source]}

-----------------------------------------------------------------------------
(* The attempt a handler finds: the one in progress in the table, else the *)
(* one in progress in the memory of its process.                           *)

InTable == questAttempt = "in_progress"
ActiveAttempt(w) == InTable \/ mirror[w].attempt = "in_progress"
Found(w) == IF InTable THEN task ELSE mirror[w].task

-----------------------------------------------------------------------------
(* Starting, and the passes *)

InitialStatus(s) == IF terms.order = "any" \/ s = 1 THEN "ready" ELSE "not_started"

\* POST /quests/:id/attempts; an active attempt without funding is resumed,
\* which changes nothing.
StartAttempt(w) ==
  /\ questAttempt = "none"
  /\ questAttempt' = "in_progress"
  /\ task' = [s \in Tasks |-> InitialStatus(s)]
  /\ Owes(w, "in_progress", "start")
  /\ UNCHANGED <<terms, verifiedSteps, mirror, request, claimed, reading, pass, faults, history>>

\* A funded attempt that is resumed goes to the memory as well.
ResumeFunded(w) ==
  /\ terms.funded /\ questAttempt \in {"in_progress", "submitted"}
  /\ Owes(w, questAttempt, "start")
  /\ UNCHANGED <<terms, rows, mirror, request, claimed, reading, pass, faults, history>>

\* A start adds the attempt to the memory, the others change it if it is there,
\* and an approval also the tasks that are.
Tell(u) ==
  /\ u \in due
  /\ due' = due \ {u}
  /\ mirror' = [mirror EXCEPT
       ![u.at].attempt = IF u.by = "start" \/ @ # "none" THEN u.attempt ELSE @,
       ![u.at].task = [s \in Tasks |->
          IF u.by = "review" /\ u.attempt = "completed" /\ @[s] = "pending_review"
          THEN "verified" ELSE @[s]]]
  /\ UNCHANGED <<terms, rows, request, claimed, reading, pass, faults, history>>

Issue(w, p, tasks) ==
  /\ ActiveAttempt(w) /\ pass[p] = {}
  /\ pass' = [pass EXCEPT ![p] = tasks]
  /\ UNCHANGED <<terms, rows, memory, faults, history>>

\* POST .../ar-challenge, whatever the task's status.
IssueArChallenge(w, p, s) == Checkpoint[s] = "ar" /\ Found(w)[s] # "none" /\ Issue(w, p, {s})

\* POST .../qr-pass
IssueQrPass(w, p, s) ==
  /\ Checkpoint[s] = "host" /\ Found(w)[s] \notin {"none", "not_started"}
  /\ Issue(w, p, {s})

-----------------------------------------------------------------------------
(* Evidence: checks *)

\* What evidence that passes its checks makes of the task.
Outcome(s) == IF Checkpoint[s] = "photo" THEN "pending_review" ELSE "verified"

\* A task found in the memory is changed there before anything is written.
Begin(r, s, p) ==
  LET w == ServedBy[r] IN
  /\ request[r].phase = "idle"
  /\ ActiveAttempt(w)
  /\ request' = [request EXCEPT ![r] =
       [Idle EXCEPT !.phase = "task", !.task = s, !.pass = p, !.status = Outcome(s)]]
  /\ IF InTable THEN UNCHANGED <<mirror, verified>>
     ELSE /\ mirror' = [mirror EXCEPT ![w].task[s] = Outcome(s)]
          /\ verified' = IF Outcome(s) = "verified" THEN verified \cup {s} ELSE verified

\* Mutant: a nonce is claimed without looking whether it is.
Claim_Again(w, p) == claimed' = [claimed EXCEPT ![w] = @ \cup {p}]

\* claimChallengeNonce
Claim(w, p) == p \notin claimed[w] /\ claimed' = [claimed EXCEPT ![w] = @ \cup {p}]

Answerable(w, s) == Found(w)[s] \in {"ready", "needs_changes"}

unbegun == <<terms, rows, due, reading, pass, faults, spent, overlooked>>

\* POST .../evidence up to its first write, for a place, a printed code or a
\* photo.
PostEvidence(r, s) ==
  /\ Checkpoint[s] \in {"open", "photo"}
  /\ Answerable(ServedBy[r], s)
  /\ Begin(r, s, NoPass)
  /\ UNCHANGED <<unbegun, claimed>>

\* The same for something done elsewhere in the application: a quiz passed, a
\* spot saved or liked, a vote cast, which no task row records.
PostAction(r, s) ==
  /\ Checkpoint[s] = "action"
  /\ Answerable(ServedBy[r], s)
  /\ Begin(r, s, NoPass)
  /\ UNCHANGED <<unbegun, claimed>>

\* The same with the token of a challenge.
PostArEvidence(r, s, p) ==
  /\ Checkpoint[s] = "ar" /\ s \in pass[p]
  /\ Answerable(ServedBy[r], s)
  /\ Begin(r, s, p) /\ Claim(ServedBy[r], p)
  /\ UNCHANGED unbegun

\* POST .../host-verify-qr up to its first write; it looks the attempt up by
\* its id, so it is always the table's.
HostVerify(r, s, p) ==
  /\ InTable
  /\ Checkpoint[s] = "host" /\ s \in pass[p]
  /\ task[s] \notin {"verified", "not_started"}
  /\ Begin(r, s, p) /\ Claim(ServedBy[r], p)
  /\ UNCHANGED unbegun

\* recordFailure: a failed check counts a try and saves the task in the memory
\* as it was read (if it was read there, it is there already).
FailCheck(r, s) ==
  /\ request[r].phase = "idle"
  /\ InTable /\ Answerable(ServedBy[r], s)
  /\ request' = [request EXCEPT ![r] =
       [Idle EXCEPT !.phase = "mirror", !.task = s, !.status = task[s]]]
  /\ UNCHANGED <<unbegun, mirror, claimed, verified>>

-----------------------------------------------------------------------------
(* Evidence: writes *)

Goto(r, phase) == request' = [request EXCEPT ![r].phase = phase]

unwritten == <<mirror, due, claimed, reading, pass, faults>>

\* The task, by its id: its status may have changed since it was read.
WriteTask(r) ==
  LET s == request[r].task
      p == request[r].pass
  IN
  /\ request[r].phase = "task"
  /\ Goto(r, "unlock")
  /\ SetTask(s, request[r].status)
  /\ verified' = IF request[r].status = "verified" THEN verified \cup {s} ELSE verified
  /\ spent' = IF p = NoPass THEN spent ELSE [spent EXCEPT ![ServedBy[r]][p] = @ + 1]
  /\ UNCHANGED <<terms, questAttempt, verifiedSteps, unwritten, overlooked>>

\* The next task of a sequential quest.
Unlocks(s) == terms.order = "sequential" /\ s + 1 \in Tasks /\ task[s + 1] = "not_started"

Unlock(r) ==
  LET s == request[r].task IN
  /\ request[r].phase = "unlock"
  /\ Goto(r, "count")
  /\ IF Unlocks(s) THEN SetTask(s + 1, "ready") ELSE UNCHANGED task
  /\ UNCHANGED <<terms, questAttempt, verifiedSteps, unwritten, history>>

CountVerified(r) ==
  /\ request[r].phase = "count"
  /\ request' = [request EXCEPT ![r].phase = "attempt", ![r].count = VerifiedCount]
  /\ UNCHANGED <<terms, rows, unwritten, history>>

WriteCount(r) ==
  /\ request[r].phase = "attempt"
  /\ verifiedSteps' = request[r].count
  /\ Goto(r, "mirror")
  /\ UNCHANGED <<terms, questAttempt, task, unwritten, history>>

\* saveStepEvidence: the task as the request has it.  (A task the memory has is
\* never "not_started", so the next one is not unlocked there.)
MirrorTask(r) ==
  /\ request[r].phase = "mirror"
  /\ mirror' = [mirror EXCEPT ![ServedBy[r]].task[request[r].task] = request[r].status]
  /\ request' = [request EXCEPT ![r] = Idle]
  /\ UNCHANGED <<terms, rows, due, claimed, reading, pass, faults, history>>

\* One of the statements fails: those before it stay, and the nonce is free
\* again.
FailRequest(r) ==
  /\ request[r].phase \in {"task", "unlock", "count", "attempt"} /\ faults < MaxFaults
  /\ claimed' = [claimed EXCEPT ![ServedBy[r]] = @ \ {request[r].pass}]
  /\ request' = [request EXCEPT ![r] = Idle]
  /\ faults' = faults + 1
  /\ UNCHANGED <<terms, rows, mirror, due, reading, pass, history>>

\* A process restarts: the nonces and requests in its memory are gone, and it
\* loads the attempt, but none of its tasks.
Restart(w) ==
  /\ faults < MaxFaults
  /\ mirror' = [mirror EXCEPT ![w] = [attempt |-> questAttempt, task |-> NoTasks]]
  /\ due' = {u \in due : u.at # w}
  /\ request' = [r \in Requests |-> IF ServedBy[r] = w THEN Idle ELSE request[r]]
  /\ claimed' = [claimed EXCEPT ![w] = {}]
  /\ reading' = {d \in reading : d.at # w}
  /\ faults' = faults + 1
  /\ UNCHANGED <<terms, rows, pass, history>>

-----------------------------------------------------------------------------
(* Submitting *)

undecided == <<terms, task, verifiedSteps, mirror, request, claimed, pass, faults, verified, spent>>

\* Tasks with no row; in a memory, those it served no evidence of.
Missing(w) == {s \in Tasks : Found(w)[s] = "none"}

\* instantRewardEligible, with an author for whom it may be: no task waits
\* for a reviewer, a required one or not.
InstantReward(w) == \A s \in Tasks : Found(w)[s] # "pending_review"

\* handleSubmitOrCompleteAttempt reads the attempt and its tasks, and checks
\* the required ones it has; only /complete allows an instant reward.
ReadTasks(w, allowInstant) ==
  /\ reading = {}
  /\ ActiveAttempt(w)
  /\ \A s \in Required \ Missing(w) : Found(w)[s] \in {"verified", "pending_review"}
  /\ reading' = {[kind |-> IF allowInstant /\ InstantReward(w) THEN "settle" ELSE "submit",
                  at |-> w, inTable |-> InTable,
                  missing |-> IF InTable THEN {} ELSE Missing(w)]}
  /\ UNCHANGED <<undecided, questAttempt, due, overlooked>>

\* ... and writes the attempt, whatever it is by now unless its hold was paid
\* out; an attempt that came from the memory follows there.
SubmitAttempt(d) ==
  /\ d \in reading /\ d.kind = "submit"
  /\ terms.funded => questAttempt # "completed"
  /\ questAttempt' = "submitted" /\ reading' = {}
  /\ IF d.inTable THEN UNCHANGED due ELSE Owes(d.at, "submitted", "submission")
  /\ UNCHANGED <<undecided, overlooked>>

\* hasCompletedQuest refuses a second settlement.
CompleteAttempt(d) ==
  /\ d \in reading /\ d.kind = "settle"
  /\ questAttempt # "completed"
  /\ questAttempt' = "completed" /\ reading' = {}
  /\ Owes(d.at, "completed", "submission")
  /\ overlooked' = d.missing
  /\ UNCHANGED undecided

AbandonRequest ==
  /\ reading # {} /\ reading' = {}
  /\ UNCHANGED <<undecided, questAttempt, due, overlooked>>

-----------------------------------------------------------------------------
(* Reviewing *)

unreviewed == <<terms, mirror, request, claimed, reading, pass, faults, spent>>

\* PATCH /admin/quest-attempts/:id/steps/:stepOrder
ApproveTask(s) ==
  /\ task[s] = "pending_review"
  /\ SetTask(s, "verified")
  /\ verifiedSteps' = VerifiedCount + 1
  /\ verified' = verified \cup {s}
  /\ UNCHANGED <<unreviewed, questAttempt, due, overlooked>>

ChangeTask(s) ==
  /\ task[s] = "pending_review"
  /\ SetTask(s, "needs_changes")
  /\ UNCHANGED <<unreviewed, questAttempt, verifiedSteps, due, verified, overlooked>>

\* PATCH /admin/quest-attempts/:id, served by process w
ApproveAttempt(w) ==
  /\ questAttempt \notin {"none", "completed"}
  /\ terms.funded => questAttempt = "submitted"
  /\ \A s \in Required : task[s] = "verified"
  /\ questAttempt' = "completed"
  /\ Owes(w, "completed", "review")
  /\ overlooked' = {}
  /\ UNCHANGED <<unreviewed, task, verifiedSteps, verified>>

PendingToChanges ==
  task' = [s \in Tasks |-> IF task[s] = "pending_review" THEN "needs_changes" ELSE task[s]]

\* Of one task, whatever its status, or of all that are pending.
RequestChanges(w, s) ==
  /\ questAttempt # "none"
  /\ questAttempt' = "in_progress"
  /\ SetTask(s, "needs_changes")
  /\ Owes(w, "in_progress", "review")
  /\ UNCHANGED <<unreviewed, verifiedSteps, verified, overlooked>>

RequestAllChanges(w) ==
  /\ questAttempt # "none"
  /\ questAttempt' = "in_progress"
  /\ PendingToChanges
  /\ Owes(w, "in_progress", "review")
  /\ UNCHANGED <<unreviewed, verifiedSteps, verified, overlooked>>

RejectAttempt(w) ==
  /\ questAttempt # "none"
  /\ IF terms.funded
     THEN questAttempt' = "in_progress" /\ PendingToChanges
     ELSE questAttempt' = "abandoned" /\ UNCHANGED task
  /\ Owes(w, questAttempt', "review")
  /\ UNCHANGED <<unreviewed, verifiedSteps, verified, overlooked>>

-----------------------------------------------------------------------------

StepInit ==
  /\ terms \in Terms
  /\ questAttempt = "none"
  /\ task = NoTasks
  /\ verifiedSteps = 0
  /\ mirror = [w \in Processes |-> [attempt |-> "none", task |-> NoTasks]]
  /\ due = {}
  /\ request = [r \in Requests |-> Idle]
  /\ pass = [p \in Passes |-> {}]
  /\ claimed = [w \in Processes |-> {}] /\ reading = {} /\ faults = 0
  /\ verified = {} /\ spent = [w \in Processes |-> [p \in Passes |-> 0]] /\ overlooked = {}

Serving(w) ==
  \/ StartAttempt(w) \/ ResumeFunded(w) \/ Restart(w)
  \/ \E p \in Passes, s \in Tasks : IssueArChallenge(w, p, s) \/ IssueQrPass(w, p, s)

Evidence(r) ==
  \/ \E s \in Tasks :
       \/ PostEvidence(r, s) \/ PostAction(r, s) \/ FailCheck(r, s)
       \/ \E p \in Passes : PostArEvidence(r, s, p) \/ HostVerify(r, s, p)
  \/ WriteTask(r) \/ Unlock(r) \/ CountVerified(r) \/ WriteCount(r) \/ MirrorTask(r)
  \/ FailRequest(r)

Submission ==
  \/ \E w \in Processes, allowInstant \in BOOLEAN : ReadTasks(w, allowInstant)
  \/ \E d \in reading : SubmitAttempt(d) \/ CompleteAttempt(d)
  \/ AbandonRequest

Review ==
  \/ \E s \in Tasks : ApproveTask(s) \/ ChangeTask(s)
  \/ \E w \in Processes :
       \/ ApproveAttempt(w) \/ RequestAllChanges(w) \/ RejectAttempt(w)
       \/ \E s \in Tasks : RequestChanges(w, s)

StepNext ==
  \/ \E w \in Processes : Serving(w)
  \/ \E u \in due : Tell(u)
  \/ \E r \in Requests : Evidence(r)
  \/ Submission
  \/ Review

StepSpec == StepInit /\ [][StepNext]_stepVars

-----------------------------------------------------------------------------
(* Properties *)

StepTypeOK ==
  /\ terms \in Terms
  /\ questAttempt \in AttemptStatus
  /\ task \in [Tasks -> TaskStatus]
  /\ verifiedSteps \in 0..LastTask
  /\ mirror \in [Processes -> Copy]
  /\ due \subseteq Update
  /\ request \in [Requests ->
       [phase : {"idle", "task", "unlock", "count", "attempt", "mirror"}, task : Tasks,
        pass : Passes \cup {NoPass}, status : TaskStatus, count : 0..LastTask]]
  /\ pass \in [Passes -> SUBSET Tasks] /\ claimed \in [Processes -> SUBSET Passes]
  /\ reading \subseteq Decision
  /\ faults \in 0..MaxFaults
  /\ verified \subseteq Tasks /\ spent \in [Processes -> [Passes -> Nat]]
  /\ overlooked \subseteq Tasks

\* A reward is paid at once "when every step was verified by the server"
\* (routes/quests.ts), and a reviewer completes what is verified: each required
\* task of a completed attempt was verified at some time.  The code does not
\* keep this: a process that has the attempt in its memory, in progress and
\* with no row of a task, completes it without having looked at that task.
CompletedOnEvidence == questAttempt = "completed" => Required \subseteq verified

\* What it keeps, with requests at several processes, memories behind the
\* table, failed statements, restarts and reviews in between: a required task
\* of a completed attempt that was never verified is one the completing request
\* had no row of, having found the attempt in its memory.
CompletedOnWhatWasRead == questAttempt = "completed" => Required \subseteq verified \cup overlooked

\* A pass verifies one task once at a process, however it is presented and
\* whatever a reviewer sends back, as long as no process restarts or loses a
\* statement (after which its nonce is forgotten or released).  Processes do
\* not tell each other which passes they took.
PassSpentOnce == faults = 0 => \A w \in Processes, p \in Passes : spent[w][p] <= 1

\* What the traveler is told of a locked task ("Complete previous steps
\* first") helps: with no request in flight, one before it is not done yet.
\* A fault between the two statements leaves the next task locked for good.
LockedHelps ==
  faults = 0 /\ (\A r \in Requests : request[r].phase = "idle") =>
    \A s \in Tasks : task[s] = "not_started" => \E t \in 1..(s - 1) : ~Done(t)

\* The three together: a completed attempt has the evidence there was to see, a
\* pass is good for one task, and a locked task can be reached.
StepsHold == CompletedOnWhatWasRead /\ PassSpentOnce /\ LockedHelps
=============================================================================
