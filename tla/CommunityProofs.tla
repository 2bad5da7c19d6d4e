--------------------------- MODULE CommunityProofs ---------------------------
(***************************************************************************)
(* Theorems about what travelers do together and step by step: the tasks   *)
(* of an attempt hold what StepsHold promises for any tasks, requests,     *)
(* passes and number of faults; the ballots and rounds of the weekly       *)
(* elections add up, and no result changes later, for any towns, voters,   *)
(* weights and windows; the points of the travelers, the pots and the      *)
(* proposals are what their ledger says for any travelers, proposals,      *)
(* fees, shares and cap; the stamps, shields, streaks and quizzes of a     *)
(* passport add up for any calendar, amounts and caps.  BadgeProofs has    *)
(* those about the Plaza, and about the side as a whole.                   *)
(***************************************************************************)
EXTENDS CommunitySide, SumLemmas

\* The nonce a request holds while its task is not written: claimed by its
\* process, not spent there, and no other request's of that process.
Presents(r, p) == request[r].phase = "task" /\ request[r].pass = p

\* An attempt that was started has a row of each task, and what evidence makes
\* of a task is decided before it is written.
RowsInv ==
  /\ questAttempt = "none" =>
       due = {} /\ reading = {} /\ \A w \in Processes : mirror[w].attempt = "none"
  /\ questAttempt # "none" => \A s \in Tasks : task[s] # "none"
  /\ \A r \in Requests :
       request[r].phase = "task" => request[r].status \in {"pending_review", "verified"}

\* What the table, a memory (of a required task) or a request beyond its first
\* write has as verified was verified; a review that a memory still has to hear
\* of completed what was; and a submit request that decided to settle has seen
\* every required task verified, of those it had.
EvidenceInv ==
  /\ \A s \in Tasks : task[s] = "verified" => s \in verified
  /\ \A w \in Processes, s \in Required : mirror[w].task[s] = "verified" => s \in verified
  /\ \A r \in Requests :
       request[r].phase \in {"unlock", "count", "attempt", "mirror"}
         /\ request[r].status = "verified" => request[r].task \in verified
  /\ \A u \in due : u.by = "review" /\ u.attempt = "completed" => Required \subseteq verified
  /\ \A d \in reading : d.kind = "settle" => Required \ d.missing \subseteq verified
  /\ CompletedOnWhatWasRead

\* While no fault has freed a nonce, one that a process has not claimed is
\* unspent there, and a request that presents one is alone with it.
PassInv ==
  faults = 0 => \A p \in Passes :
    /\ \A w \in Processes : spent[w][p] <= 1 /\ (p \notin claimed[w] => spent[w][p] = 0)
    /\ \A r \in Requests : Presents(r, p) /\ p # NoPass =>
         p \in claimed[ServedBy[r]] /\ spent[ServedBy[r]][p] = 0
    /\ \A r, q \in Requests :
         Presents(r, p) /\ Presents(q, p) /\ p # NoPass /\ ServedBy[r] = ServedBy[q] => r = q

\* A locked task has one before it that is not done, or that a request has
\* just done and whose successor it is about to unlock.
WillUnlock(s) == \E r \in Requests : request[r].phase = "unlock" /\ request[r].task = s

LockedInv ==
  faults = 0 => \A s \in Tasks : task[s] = "not_started" =>
    /\ terms.order = "sequential" /\ s > 1
    /\ Done(s - 1) => WillUnlock(s - 1)

StepInv == StepTypeOK /\ RowsInv /\ EvidenceInv /\ PassInv /\ LockedInv

-----------------------------------------------------------------------------
(* The count of verified tasks *)

\* COUNT(*) over the tasks is within their number, and one below it while a
\* task is not verified.
LEMMA VerifiedCountBound ==
  /\ VerifiedCount \in 0..LastTask
  /\ \A s \in Tasks : task[s] # "verified" => VerifiedCount + 1 \in 0..LastTask
<1> DEFINE Good == {s \in Tasks : task[s] = "verified"}
<1>1. IsFiniteSet(Tasks) /\ Cardinality(Tasks) = LastTask
  BY FS_Interval, TasksAreSome DEF Tasks
<1>2. IsFiniteSet(Good) /\ Cardinality(Good) <= LastTask
  BY FS_Subset, <1>1
<1>3. Cardinality(Good) \in Nat
  BY FS_CardinalityType, <1>2
<1>4. ASSUME NEW s \in Tasks, task[s] # "verified"
      PROVE  Cardinality(Good) # LastTask
  <2>1. Good \in SUBSET Tasks /\ Good # Tasks
    BY <1>4
  <2> QED BY <2>1, <1>1, FS_Subset
<1> QED BY <1>2, <1>3, <1>4, TasksAreSome DEF VerifiedCount

-----------------------------------------------------------------------------
(* Types *)

RequestType ==
  [phase : {"idle", "task", "unlock", "count", "attempt", "mirror"}, task : Tasks,
   pass : Passes \cup {NoPass}, status : TaskStatus, count : 0..LastTask]

LEMMA IdleIsRequest == Idle \in RequestType
  BY TasksAreSome DEF Idle, RequestType, Tasks, TaskStatus

LEMMA NoTasksTyped == NoTasks \in [Tasks -> TaskStatus]
  BY DEF NoTasks, TaskStatus

LEMMA InitSteps == StepInit => StepInv
<1> SUFFICES ASSUME StepInit PROVE StepInv
  OBVIOUS
<1>1. StepTypeOK
  <2>1. [attempt |-> "none", task |-> NoTasks] \in Copy
    BY NoTasksTyped DEF Copy, AttemptStatus
  <2> QED
    BY <2>1, NoTasksTyped, IdleIsRequest, TasksAreSome, FaultsAreCounted
       DEF StepInit, StepTypeOK, RequestType, AttemptStatus
<1>2. RowsInv /\ EvidenceInv
  BY TasksAreSome DEF StepInit, RowsInv, EvidenceInv, CompletedOnWhatWasRead, Idle, NoTasks
<1>3. PassInv
  BY RequestsAreServed DEF StepInit, PassInv, Presents, Idle
<1>4. LockedInv
  BY DEF StepInit, LockedInv, NoTasks
<1> QED BY <1>1, <1>2, <1>3, <1>4 DEF StepInv

\* What evidence makes of the request that brings it.
Begun(s, p) == [Idle EXCEPT !.phase = "task", !.task = s, !.pass = p, !.status = Outcome(s)]

LEMMA BegunIs ==
  ASSUME NEW s \in Tasks, NEW p \in Passes \cup {NoPass}
  PROVE  /\ Begun(s, p) \in RequestType
         /\ Begun(s, p).phase = "task" /\ Begun(s, p).pass = p
         /\ Begun(s, p).status \in {"pending_review", "verified"}
<1>1. Outcome(s) \in {"pending_review", "verified"}
  BY DEF Outcome
<1>2. Outcome(s) \in TaskStatus
  BY <1>1 DEF TaskStatus
<1> HIDE DEF Outcome
<1>3. Begun(s, p) \in RequestType
  BY <1>2, IdleIsRequest DEF Begun, RequestType
<1>4. /\ Begun(s, p).phase = "task" /\ Begun(s, p).pass = p
      /\ Begun(s, p).status = Outcome(s)
  BY IdleIsRequest DEF Begun, RequestType
<1> QED BY <1>1, <1>3, <1>4

\* A task saved in a memory.
LEMMA CopyChanged ==
  ASSUME mirror \in [Processes -> Copy], NEW r \in Requests, NEW s \in Tasks,
         NEW status \in TaskStatus
  PROVE  [mirror EXCEPT ![ServedBy[r]].task[s] = status] \in [Processes -> Copy]
<1>1. PICK w \in Processes : w = ServedBy[r]
  BY RequestsAreServed
<1>2. [mirror[w] EXCEPT !.task[s] = status] \in Copy
  BY DEF Copy
<1>3. [mirror EXCEPT ![w].task[s] = status] = [mirror EXCEPT ![w] = [mirror[w] EXCEPT !.task[s] = status]]
  OBVIOUS
<1>4. [mirror EXCEPT ![w] = [mirror[w] EXCEPT !.task[s] = status]] \in [Processes -> Copy]
  BY <1>2
<1> QED BY <1>1, <1>3, <1>4

LEMMA BeginTyped ==
  ASSUME StepTypeOK, NEW r \in Requests, NEW s \in Tasks, NEW p \in Passes \cup {NoPass},
         Begin(r, s, p)
  PROVE  /\ request' \in [Requests -> RequestType]
         /\ mirror' \in [Processes -> Copy]
         /\ verified' \subseteq Tasks
<1>1. request' = [request EXCEPT ![r] = Begun(s, p)]
  BY DEF Begin, Begun
<1>2. request' \in [Requests -> RequestType]
  BY <1>1, BegunIs DEF StepTypeOK, RequestType
<1>3. Outcome(s) \in TaskStatus
  BY DEF Outcome, TaskStatus
<1>4. mirror' \in [Processes -> Copy]
  <2>1. mirror' \in {mirror, [mirror EXCEPT ![ServedBy[r]].task[s] = Outcome(s)]}
    BY DEF Begin
  <2> QED BY <1>3, <2>1, CopyChanged DEF StepTypeOK
<1>5. verified' \subseteq Tasks
  BY DEF Begin, StepTypeOK
<1> QED BY <1>2, <1>4, <1>5

\* A memory that hears of a commit.
LEMMA TellTyped ==
  ASSUME StepTypeOK, NEW u \in due, Tell(u)
  PROVE  mirror' \in [Processes -> Copy]
<1> DEFINE w == u.at
           heard == [s \in Tasks |->
             IF u.by = "review" /\ u.attempt = "completed" /\ mirror[w].task[s] = "pending_review"
             THEN "verified" ELSE mirror[w].task[s]]
<1>1. w \in Processes /\ u.attempt \in AttemptStatus
  BY DEF StepTypeOK, Update
<1>2. mirror[w] \in Copy /\ heard \in [Tasks -> TaskStatus]
  BY <1>1 DEF StepTypeOK, Copy, TaskStatus
<1>3. mirror' = [mirror EXCEPT
        ![w].attempt = IF u.by = "start" \/ @ # "none" THEN u.attempt ELSE @, ![w].task = heard]
  BY DEF Tell
<1> HIDE DEF heard
<1> QED BY <1>1, <1>2, <1>3 DEF StepTypeOK, Copy

LEMMA OwesTyped ==
  ASSUME StepTypeOK, NEW w \in Processes, NEW status \in AttemptStatus,
         NEW source \in {"start", "submission", "review"}, Owes(w, status, source)
  PROVE  due' \subseteq Update
  BY DEF Owes, StepTypeOK, Update

LEMMA StepTypes ==
  ASSUME StepTypeOK, StepNext
  PROVE  StepTypeOK'
<1> USE DEF rows, memory, history
<1>0. request \in [Requests -> RequestType]
  BY DEF RequestType, StepTypeOK
<1>1. ASSUME NEW w \in Processes, StartAttempt(w) \/ ResumeFunded(w)
      PROVE  StepTypeOK'
  <2>1. due' \subseteq Update
    BY <1>1, OwesTyped DEF StartAttempt, ResumeFunded, AttemptStatus
  <2> QED
    BY <1>1, <2>1
       DEF StepTypeOK, StartAttempt, ResumeFunded, InitialStatus, AttemptStatus, TaskStatus
<1>2. ASSUME NEW u \in due, Tell(u)
      PROVE  StepTypeOK'
  BY <1>2, TellTyped DEF StepTypeOK, Tell
<1>3. ASSUME NEW w \in Processes, NEW p \in Passes, NEW s \in Tasks,
             IssueArChallenge(w, p, s) \/ IssueQrPass(w, p, s)
      PROVE  StepTypeOK'
  <2>1. Issue(w, p, {s})
    BY <1>3 DEF IssueArChallenge, IssueQrPass
  <2>2. pass' \in [Passes -> SUBSET Tasks]
    BY <2>1 DEF StepTypeOK, Issue
  <2> QED BY <2>1, <2>2 DEF StepTypeOK, Issue
<1>4. ASSUME NEW r \in Requests, NEW s \in Tasks, PostEvidence(r, s) \/ PostAction(r, s)
      PROVE  StepTypeOK'
  BY <1>4, BeginTyped DEF StepTypeOK, PostEvidence, PostAction, unbegun, RequestType
<1>5. ASSUME NEW r \in Requests, NEW s \in Tasks, NEW p \in Passes,
             PostArEvidence(r, s, p) \/ HostVerify(r, s, p)
      PROVE  StepTypeOK'
  <2>1. /\ request' \in [Requests -> RequestType]
        /\ mirror' \in [Processes -> Copy] /\ verified' \subseteq Tasks
    BY <1>5, BeginTyped DEF PostArEvidence, HostVerify
  <2>2. PICK w \in Processes : w = ServedBy[r]
    BY RequestsAreServed
  <2>3. claimed' = [claimed EXCEPT ![w] = @ \cup {p}]
    BY <1>5, <2>2 DEF PostArEvidence, HostVerify, Claim
  <2>4. claimed' \in [Processes -> SUBSET Passes]
    BY <2>3 DEF StepTypeOK
  <2> QED
    BY <1>5, <2>1, <2>4 DEF StepTypeOK, PostArEvidence, HostVerify, unbegun, RequestType
<1>6. ASSUME NEW r \in Requests, NEW s \in Tasks, FailCheck(r, s)
      PROVE  StepTypeOK'
  <2>1. [Idle EXCEPT !.phase = "mirror", !.task = s, !.status = task[s]] \in RequestType
    BY IdleIsRequest DEF RequestType, StepTypeOK
  <2>2. request' \in [Requests -> RequestType]
    BY <1>0, <1>6, <2>1 DEF FailCheck
  <2> QED BY <1>6, <2>2 DEF StepTypeOK, FailCheck, unbegun, RequestType
<1>7. ASSUME NEW r \in Requests, WriteTask(r)
      PROVE  StepTypeOK'
  <2>1. request' \in [Requests -> RequestType]
    BY <1>0, <1>7 DEF WriteTask, Goto, RequestType
  <2>2. /\ request[r].task \in Tasks /\ request[r].pass \in Passes \cup {NoPass}
        /\ request[r].status \in TaskStatus
    BY <1>0 DEF RequestType
  <2>3. spent' \in [Processes -> [Passes -> Nat]] /\ verified' \subseteq Tasks
    BY <1>7, <2>2, RequestsAreServed DEF StepTypeOK, WriteTask
  <2>4. task' \in [Tasks -> TaskStatus]
    BY <1>7, <2>2 DEF StepTypeOK, WriteTask, SetTask
  <2> QED BY <1>7, <2>1, <2>3, <2>4 DEF StepTypeOK, WriteTask, unwritten, RequestType
<1>8. ASSUME NEW r \in Requests, Unlock(r)
      PROVE  StepTypeOK'
  <2>1. request' \in [Requests -> RequestType]
    BY <1>0, <1>8 DEF Unlock, Goto, RequestType
  <2>2. task' \in [Tasks -> TaskStatus]
    BY <1>8 DEF StepTypeOK, Unlock, SetTask, Unlocks, TaskStatus
  <2> QED BY <1>8, <2>1, <2>2 DEF StepTypeOK, Unlock, unwritten, RequestType
<1>9. ASSUME NEW r \in Requests, CountVerified(r) \/ WriteCount(r)
      PROVE  StepTypeOK'
  <2>1. CASE CountVerified(r)
    <3>1. request' \in [Requests -> RequestType]
      BY <1>0, <2>1, VerifiedCountBound, ZenonT(40) DEF CountVerified, RequestType
    <3> QED BY <2>1, <3>1 DEF StepTypeOK, CountVerified, unwritten, RequestType
  <2>2. CASE WriteCount(r)
    <3>1. request' \in [Requests -> RequestType]
      BY <1>0, <2>2 DEF WriteCount, Goto, RequestType
    <3>2. request[r].count \in 0..LastTask
      BY <1>0 DEF RequestType
    <3> QED BY <2>2, <3>1, <3>2 DEF StepTypeOK, WriteCount, unwritten, RequestType
  <2> QED BY <1>9, <2>1, <2>2
<1>10. ASSUME NEW r \in Requests, MirrorTask(r)
       PROVE  StepTypeOK'
  <2>1. request' \in [Requests -> RequestType]
    BY <1>0, <1>10, IdleIsRequest DEF MirrorTask
  <2>2. request[r].task \in Tasks /\ request[r].status \in TaskStatus
    BY <1>0 DEF RequestType
  <2>3. mirror' \in [Processes -> Copy]
    BY <1>10, <2>2, CopyChanged DEF StepTypeOK, MirrorTask
  <2> QED BY <1>10, <2>1, <2>3 DEF StepTypeOK, MirrorTask, RequestType
<1>11. ASSUME NEW r \in Requests, FailRequest(r)
       PROVE  StepTypeOK'
  <2>1. request' \in [Requests -> RequestType]
    BY <1>0, <1>11, IdleIsRequest DEF FailRequest
  <2>2. PICK w \in Processes : w = ServedBy[r]
    BY RequestsAreServed
  <2>3. claimed' = [claimed EXCEPT ![w] = @ \ {request[r].pass}]
    BY <1>11, <2>2 DEF FailRequest
  <2>4. claimed' \in [Processes -> SUBSET Passes]
    BY <2>3 DEF StepTypeOK
  <2>5. faults' \in 0..MaxFaults
    BY <1>11, FaultsAreCounted DEF StepTypeOK, FailRequest
  <2> QED BY <1>11, <2>1, <2>4, <2>5 DEF StepTypeOK, FailRequest, RequestType
<1>12. ASSUME NEW w \in Processes, Restart(w)
       PROVE  StepTypeOK'
  <2>1. request' \in [Requests -> RequestType]
    BY <1>0, <1>12, IdleIsRequest DEF Restart
  <2>2. mirror' \in [Processes -> Copy]
    BY <1>12, NoTasksTyped DEF StepTypeOK, Restart, Copy
  <2>3. faults' \in 0..MaxFaults
    BY <1>12, FaultsAreCounted DEF StepTypeOK, Restart
  <2> QED BY <1>12, <2>1, <2>2, <2>3 DEF StepTypeOK, Restart, RequestType
<1>13. ASSUME NEW w \in Processes, NEW allowInstant \in BOOLEAN, ReadTasks(w, allowInstant)
       PROVE  StepTypeOK'
  <2>1. reading' \subseteq Decision
    BY <1>13 DEF ReadTasks, Decision, InTable, Missing
  <2> QED BY <1>13, <2>1 DEF StepTypeOK, ReadTasks, undecided
<1>14. ASSUME NEW d \in reading, SubmitAttempt(d) \/ CompleteAttempt(d)
       PROVE  StepTypeOK'
  <2>1. d.at \in Processes /\ d.missing \subseteq Tasks
    BY DEF StepTypeOK, Decision
  <2>2. due' \subseteq Update
    BY <1>14, <2>1, OwesTyped DEF SubmitAttempt, CompleteAttempt, AttemptStatus, StepTypeOK
  <2> QED
    BY <1>14, <2>1, <2>2
       DEF StepTypeOK, SubmitAttempt, CompleteAttempt, undecided, AttemptStatus
<1>15. CASE AbandonRequest
  BY <1>15 DEF StepTypeOK, AbandonRequest, undecided
<1>16. ASSUME NEW s \in Tasks, ApproveTask(s)
       PROVE  StepTypeOK'
  BY <1>16, VerifiedCountBound DEF StepTypeOK, ApproveTask, SetTask, unreviewed, TaskStatus
<1>17. ASSUME NEW s \in Tasks, ChangeTask(s)
       PROVE  StepTypeOK'
  BY <1>17 DEF StepTypeOK, ChangeTask, SetTask, unreviewed, TaskStatus
<1>18. ASSUME NEW w \in Processes, ApproveAttempt(w)
       PROVE  StepTypeOK'
  <2>1. due' \subseteq Update
    BY <1>18, OwesTyped DEF ApproveAttempt, AttemptStatus
  <2> QED BY <1>18, <2>1 DEF StepTypeOK, ApproveAttempt, unreviewed, AttemptStatus
<1>19. ASSUME NEW w \in Processes,
              \/ RequestAllChanges(w) \/ RejectAttempt(w)
              \/ \E s \in Tasks : RequestChanges(w, s)
       PROVE  StepTypeOK'
  <2>1. task' \in [Tasks -> TaskStatus] /\ questAttempt' \in AttemptStatus
    BY <1>19 DEF StepTypeOK, RequestAllChanges, RejectAttempt, RequestChanges, PendingToChanges,
       SetTask, AttemptStatus, TaskStatus
  <2>2. due' \subseteq Update
    BY <1>19, <2>1, OwesTyped DEF RequestAllChanges, RejectAttempt, RequestChanges, AttemptStatus
  <2> QED
    BY <1>19, <2>1, <2>2
       DEF StepTypeOK, RequestAllChanges, RejectAttempt, RequestChanges, unreviewed
<1> QED
  BY <1>1, <1>2, <1>3, <1>4, <1>5, <1>6, <1>7, <1>8, <1>9, <1>10, <1>11, <1>12, <1>13, <1>14,
     <1>15, <1>16, <1>17, <1>18, <1>19
     DEF StepNext, Serving, Evidence, Submission, Review

-----------------------------------------------------------------------------
(* The rows of an attempt that was started *)

LEMMA BeginsRequest ==
  ASSUME StepTypeOK, NEW r \in Requests, NEW s \in Tasks, NEW p \in Passes \cup {NoPass},
         Begin(r, s, p)
  PROVE  /\ request[r].phase = "idle"
         /\ request'[r] = Begun(s, p)
         /\ \A q \in Requests \ {r} : request'[q] = request[q]
  BY DEF Begin, Begun, StepTypeOK

\* What Begin leaves: no request, row or submission but the memory of one.
LEMMA RowsStay ==
  ASSUME StepInv, StepNext
  PROVE  RowsInv'
<1> USE DEF StepInv, RowsInv, rows, memory, history
<1>1. ASSUME NEW w \in Processes, StartAttempt(w)
      PROVE  RowsInv'
  BY <1>1 DEF StartAttempt, InitialStatus
<1>2. ASSUME NEW w \in Processes, ResumeFunded(w)
      PROVE  RowsInv'
  BY <1>2 DEF ResumeFunded
<1>3. ASSUME NEW u \in due, Tell(u)
      PROVE  RowsInv'
  BY <1>3 DEF Tell
<1>4. ASSUME NEW w \in Processes, NEW p \in Passes, NEW s \in Tasks,
             IssueArChallenge(w, p, s) \/ IssueQrPass(w, p, s)
      PROVE  RowsInv'
  BY <1>4 DEF IssueArChallenge, IssueQrPass, Issue
<1>5. ASSUME NEW r \in Requests, NEW s \in Tasks, NEW p \in Passes \cup {NoPass}, Begin(r, s, p),
             UNCHANGED <<questAttempt, task, due, reading>>
      PROVE  RowsInv'
  <2>1. \A q \in Requests :
          request'[q].phase = "task" => request'[q].status \in {"pending_review", "verified"}
    BY <1>5, BeginsRequest, BegunIs
  <2>2. \A w \in Processes : mirror'[w].attempt = mirror[w].attempt
    <3>1. \/ mirror' = mirror
          \/ mirror' = [mirror EXCEPT ![ServedBy[r]].task[s] = Outcome(s)]
      BY <1>5 DEF Begin
    <3>2. mirror \in [Processes -> Copy]
      BY DEF StepTypeOK
    <3> QED BY <3>1, <3>2, RequestsAreServed DEF Copy
  <2> QED BY <1>5, <2>1, <2>2
<1>6. ASSUME NEW r \in Requests, NEW s \in Tasks, PostEvidence(r, s) \/ PostAction(r, s)
      PROVE  RowsInv'
  BY <1>5, <1>6 DEF PostEvidence, PostAction, unbegun
<1>7. ASSUME NEW r \in Requests, NEW s \in Tasks, NEW p \in Passes,
             PostArEvidence(r, s, p) \/ HostVerify(r, s, p)
      PROVE  RowsInv'
  BY <1>5, <1>7 DEF PostArEvidence, HostVerify, unbegun
<1>8. ASSUME NEW r \in Requests, NEW s \in Tasks, FailCheck(r, s)
      PROVE  RowsInv'
  <2>1. request'[r].phase = "mirror" /\ \A q \in Requests \ {r} : request'[q] = request[q]
    BY <1>8, IdleIsRequest DEF FailCheck, StepTypeOK, RequestType
  <2> QED BY <1>8, <2>1 DEF FailCheck, unbegun
<1>9. ASSUME NEW r \in Requests, WriteTask(r)
      PROVE  RowsInv'
  <2>1. request'[r].phase = "unlock" /\ \A q \in Requests \ {r} : request'[q] = request[q]
    BY <1>9 DEF WriteTask, Goto, StepTypeOK
  <2>2. \A t \in Tasks : task'[t] = task[t] \/ task'[t] \in {"pending_review", "verified"}
    BY <1>9 DEF WriteTask, SetTask, StepTypeOK
  <2> QED BY <1>9, <2>1, <2>2 DEF WriteTask, unwritten
<1>10. ASSUME NEW r \in Requests, Unlock(r) \/ CountVerified(r) \/ WriteCount(r)
       PROVE  RowsInv'
  <2>1. request'[r].phase # "task" /\ \A q \in Requests \ {r} : request'[q] = request[q]
    BY <1>10 DEF Unlock, CountVerified, WriteCount, Goto, StepTypeOK
  <2>2. \A t \in Tasks : task'[t] = task[t] \/ task'[t] = "ready"
    BY <1>10 DEF Unlock, CountVerified, WriteCount, SetTask, StepTypeOK
  <2> QED BY <1>10, <2>1, <2>2 DEF Unlock, CountVerified, WriteCount, unwritten
<1>11. ASSUME NEW r \in Requests, MirrorTask(r)
       PROVE  RowsInv'
  <2>1. request'[r].phase # "task" /\ \A q \in Requests \ {r} : request'[q] = request[q]
    BY <1>11 DEF MirrorTask, StepTypeOK, Idle
  <2>2. \A w \in Processes : mirror'[w].attempt = mirror[w].attempt
    BY <1>11, RequestsAreServed DEF MirrorTask, StepTypeOK, Copy
  <2> QED BY <1>11, <2>1, <2>2 DEF MirrorTask
<1>12. ASSUME NEW r \in Requests, FailRequest(r)
       PROVE  RowsInv'
  BY <1>12 DEF FailRequest, StepTypeOK, Idle
<1>13. ASSUME NEW w \in Processes, Restart(w)
       PROVE  RowsInv'
  BY <1>13 DEF Restart, StepTypeOK, Idle
<1>14. CASE Submission
  <2>1. ASSUME NEW w \in Processes, NEW allowInstant \in BOOLEAN, ReadTasks(w, allowInstant)
        PROVE  RowsInv'
    BY <2>1 DEF ReadTasks, ActiveAttempt, InTable, undecided
  <2>2. ASSUME NEW d \in reading, SubmitAttempt(d) \/ CompleteAttempt(d)
        PROVE  RowsInv'
    BY <2>2 DEF SubmitAttempt, CompleteAttempt, undecided
  <2>3. CASE AbandonRequest
    BY <2>3 DEF AbandonRequest, undecided
  <2> QED BY <1>14, <2>1, <2>2, <2>3 DEF Submission
<1>15. ASSUME NEW s \in Tasks, ApproveTask(s) \/ ChangeTask(s)
       PROVE  RowsInv'
  BY <1>15 DEF ApproveTask, ChangeTask, SetTask, unreviewed, StepTypeOK
<1>16. ASSUME NEW w \in Processes,
              \/ ApproveAttempt(w) \/ RequestAllChanges(w) \/ RejectAttempt(w)
              \/ \E s \in Tasks : RequestChanges(w, s)
       PROVE  RowsInv'
  BY <1>16 DEF ApproveAttempt, RequestAllChanges, RejectAttempt, RequestChanges, SetTask,
     PendingToChanges, unreviewed, StepTypeOK
<1> QED
  BY <1>1, <1>2, <1>3, <1>4, <1>6, <1>7, <1>8, <1>9, <1>10, <1>11, <1>12, <1>13, <1>14, <1>15,
     <1>16 DEF StepNext, Serving, Evidence, Review

-----------------------------------------------------------------------------
(* Evidence *)

LEMMA EvidenceBegins ==
  ASSUME StepInv, NEW r \in Requests, NEW s \in Tasks, NEW p \in Passes \cup {NoPass},
         Begin(r, s, p), UNCHANGED <<questAttempt, task, due, reading, overlooked>>
  PROVE  EvidenceInv'
<1>1. verified \subseteq verified'
  BY DEF Begin
<1>2. \A q \in Requests : request'[q].phase = "task" \/ request'[q] = request[q]
  BY BeginsRequest, BegunIs DEF StepInv
<1>3. \A w \in Processes, t \in Tasks :
        \/ mirror'[w].task[t] = mirror[w].task[t]
        \/ mirror'[w].task[t] = "verified" => t \in verified'
  <2>1. PICK v \in Processes : v = ServedBy[r]
    BY RequestsAreServed
  <2>2. \/ mirror' = mirror
        \/ /\ mirror' = [mirror EXCEPT ![v].task[s] = Outcome(s)]
           /\ Outcome(s) = "verified" => s \in verified'
    BY <2>1 DEF Begin
  <2>3. mirror \in [Processes -> Copy] /\ s \in Tasks
    BY DEF StepInv, StepTypeOK
  <2> QED BY <2>2, <2>3 DEF Copy
<1> QED
  BY <1>1, <1>2, <1>3, TasksAreSome DEF StepInv, EvidenceInv, CompletedOnWhatWasRead

LEMMA EvidenceStays ==
  ASSUME StepInv, StepNext
  PROVE  EvidenceInv'
<1> USE DEF StepInv, EvidenceInv, CompletedOnWhatWasRead, rows, memory, history
<1>1. ASSUME NEW w \in Processes, StartAttempt(w) \/ ResumeFunded(w)
      PROVE  EvidenceInv'
  BY <1>1 DEF StartAttempt, InitialStatus, ResumeFunded, Owes
<1>2. ASSUME NEW u \in due, Tell(u)
      PROVE  EvidenceInv'
  <2>1. \A w \in Processes, t \in Required :
          mirror'[w].task[t] = "verified" =>
            mirror[w].task[t] = "verified" \/ Required \subseteq verified
    <3>1. PICK v \in Processes : v = u.at
      BY DEF StepTypeOK, Update
    <3>2. ASSUME NEW t \in Tasks, mirror'[v].task[t] # mirror[v].task[t]
          PROVE  u.by = "review" /\ u.attempt = "completed"
      BY <1>2, <3>1, <3>2 DEF Tell, StepTypeOK, Copy
    <3>3. \A w \in Processes \ {v} : mirror'[w] = mirror[w]
      BY <1>2, <3>1 DEF Tell, StepTypeOK
    <3> QED BY <3>2, <3>3, TasksAreSome
  <2> QED BY <1>2, <2>1 DEF Tell
<1>3. ASSUME NEW w \in Processes, NEW p \in Passes, NEW s \in Tasks,
             IssueArChallenge(w, p, s) \/ IssueQrPass(w, p, s)
      PROVE  EvidenceInv'
  BY <1>3 DEF IssueArChallenge, IssueQrPass, Issue
<1>4. ASSUME NEW r \in Requests, NEW s \in Tasks, PostEvidence(r, s) \/ PostAction(r, s)
      PROVE  EvidenceInv'
  BY <1>4, EvidenceBegins DEF PostEvidence, PostAction, unbegun
<1>5. ASSUME NEW r \in Requests, NEW s \in Tasks, NEW p \in Passes,
             PostArEvidence(r, s, p) \/ HostVerify(r, s, p)
      PROVE  EvidenceInv'
  BY <1>5, EvidenceBegins DEF PostArEvidence, HostVerify, unbegun
<1>6. ASSUME NEW r \in Requests, NEW s \in Tasks, FailCheck(r, s)
      PROVE  EvidenceInv'
  <2>1. /\ request'[r].status = task[s] /\ request'[r].task = s
        /\ \A q \in Requests \ {r} : request'[q] = request[q]
    BY <1>6, IdleIsRequest DEF FailCheck, StepTypeOK, RequestType
  <2> QED BY <1>6, <2>1 DEF FailCheck, unbegun
<1>7. ASSUME NEW r \in Requests, WriteTask(r)
      PROVE  EvidenceInv'
  <2>1. /\ request[r].task \in Tasks
        /\ request'[r].task = request[r].task /\ request'[r].status = request[r].status
        /\ \A q \in Requests \ {r} : request'[q] = request[q]
    BY <1>7 DEF WriteTask, Goto, StepTypeOK
  <2>2. /\ verified \subseteq verified'
        /\ request[r].status = "verified" => request[r].task \in verified'
    BY <1>7 DEF WriteTask
  <2>3. /\ task'[request[r].task] = request[r].status
        /\ \A t \in Tasks \ {request[r].task} : task'[t] = task[t]
    BY <1>7, <2>1 DEF WriteTask, SetTask, StepTypeOK
  <2> QED BY <1>7, <2>1, <2>2, <2>3 DEF WriteTask, unwritten
<1>8. ASSUME NEW r \in Requests, Unlock(r) \/ CountVerified(r) \/ WriteCount(r)
      PROVE  EvidenceInv'
  <2>1. /\ request'[r].task = request[r].task /\ request'[r].status = request[r].status
        /\ request[r].phase \in {"unlock", "count", "attempt"}
        /\ \A q \in Requests \ {r} : request'[q] = request[q]
    BY <1>8 DEF Unlock, CountVerified, WriteCount, Goto, StepTypeOK
  <2>2. \A t \in Tasks : task'[t] = task[t] \/ task'[t] = "ready"
    BY <1>8 DEF Unlock, CountVerified, WriteCount, SetTask, StepTypeOK
  <2> QED BY <1>8, <2>1, <2>2 DEF Unlock, CountVerified, WriteCount, unwritten
<1>9. ASSUME NEW r \in Requests, MirrorTask(r)
      PROVE  EvidenceInv'
  <2>1. /\ request'[r].phase = "idle"
        /\ \A q \in Requests \ {r} : request'[q] = request[q]
    BY <1>9 DEF MirrorTask, Idle, StepTypeOK
  <2>2. PICK v \in Processes : v = ServedBy[r]
    BY RequestsAreServed
  <2>3. mirror' = [mirror EXCEPT ![v].task[request[r].task] = request[r].status]
    BY <1>9, <2>2 DEF MirrorTask
  <2>4. \A w \in Processes, t \in Tasks :
          \/ mirror'[w].task[t] = mirror[w].task[t]
          \/ mirror'[w].task[t] = "verified" => t \in verified
    BY <1>9, <2>3 DEF MirrorTask, StepTypeOK, Copy
  <2> QED BY <1>9, <2>1, <2>4, TasksAreSome DEF MirrorTask
<1>10. ASSUME NEW r \in Requests, FailRequest(r)
       PROVE  EvidenceInv'
  BY <1>10 DEF FailRequest, Idle, StepTypeOK
<1>11. ASSUME NEW w \in Processes, Restart(w)
       PROVE  EvidenceInv'
  <2>1. \A v \in Processes, t \in Tasks :
          mirror'[v].task[t] = mirror[v].task[t] \/ mirror'[v].task[t] = "none"
    BY <1>11 DEF Restart, NoTasks, StepTypeOK
  <2>2. \A r \in Requests : request'[r].phase = "idle" \/ request'[r] = request[r]
    BY <1>11 DEF Restart, Idle, StepTypeOK
  <2> QED BY <1>11, <2>1, <2>2, TasksAreSome DEF Restart
<1>12. CASE Submission
  <2>1. ASSUME NEW w \in Processes, NEW allowInstant \in BOOLEAN, ReadTasks(w, allowInstant)
        PROVE  EvidenceInv'
    <3> DEFINE kind == IF allowInstant /\ InstantReward(w) THEN "settle" ELSE "submit"
               missing == IF InTable THEN {} ELSE Missing(w)
    <3>1. reading' = {[kind |-> kind, at |-> w, inTable |-> InTable, missing |-> missing]}
      BY <2>1 DEF ReadTasks
    <3>2. ASSUME kind = "settle", NEW s \in Required, s \notin missing
          PROVE  s \in verified
      <4>1. s \notin Missing(w) /\ s \in Tasks
        BY <3>2, <2>1, TasksAreSome DEF Missing, Found, InTable, RowsInv
      <4>2. Found(w)[s] = "verified"
        BY <2>1, <3>2, <4>1 DEF ReadTasks, InstantReward
      <4> QED BY <3>2, <4>1, <4>2 DEF Found
    <3> HIDE DEF kind, missing
    <3>3. \A d \in reading' : d.kind = "settle" => Required \ d.missing \subseteq verified
      BY <3>1, <3>2
    <3> QED BY <2>1, <3>3 DEF ReadTasks, undecided
  <2>2. ASSUME NEW d \in reading, SubmitAttempt(d) \/ CompleteAttempt(d)
        PROVE  EvidenceInv'
    BY <2>2 DEF SubmitAttempt, CompleteAttempt, Owes, undecided
  <2>3. CASE AbandonRequest
    BY <2>3 DEF AbandonRequest, undecided
  <2> QED BY <1>12, <2>1, <2>2, <2>3 DEF Submission
<1>13. ASSUME NEW s \in Tasks, ApproveTask(s) \/ ChangeTask(s)
       PROVE  EvidenceInv'
  BY <1>13 DEF ApproveTask, ChangeTask, SetTask, unreviewed, StepTypeOK
<1>14. ASSUME NEW w \in Processes, ApproveAttempt(w)
       PROVE  EvidenceInv'
  BY <1>14, TasksAreSome DEF ApproveAttempt, Owes, unreviewed
<1>15. ASSUME NEW w \in Processes,
              \/ RequestAllChanges(w) \/ RejectAttempt(w)
              \/ \E s \in Tasks : RequestChanges(w, s)
       PROVE  EvidenceInv'
  <2>1. \A t \in Tasks : task'[t] = task[t] \/ task'[t] = "needs_changes"
    BY <1>15 DEF RequestAllChanges, RejectAttempt, RequestChanges, SetTask, PendingToChanges,
       StepTypeOK
  <2>2. questAttempt' # "completed" /\ \A u \in due' : u \in due \/ u.attempt # "completed"
    BY <1>15 DEF RequestAllChanges, RejectAttempt, RequestChanges, Owes
  <2> QED
    BY <1>15, <2>1, <2>2 DEF RequestAllChanges, RejectAttempt, RequestChanges, unreviewed
<1> QED
  BY <1>1, <1>2, <1>3, <1>4, <1>5, <1>6, <1>7, <1>8, <1>9, <1>10, <1>11, <1>12, <1>13, <1>14,
     <1>15 DEF StepNext, Serving, Evidence, Review

-----------------------------------------------------------------------------
(* Passes *)

LEMMA PassStays ==
  ASSUME StepInv, StepNext
  PROVE  PassInv'
<1> USE DEF StepInv, PassInv, Presents, rows, memory, history
<1>0. ASSUME UNCHANGED <<claimed, spent, faults>>,
             \A r \in Requests : request'[r] = request[r] \/ request'[r].phase # "task"
      PROVE  PassInv'
  BY <1>0
<1>1. ASSUME UNCHANGED <<request, claimed, spent, faults>>
      PROVE  PassInv'
  BY <1>1
<1>2. ASSUME NEW w \in Processes, StartAttempt(w) \/ ResumeFunded(w)
      PROVE  PassInv'
  BY <1>1, <1>2 DEF StartAttempt, ResumeFunded
<1>3. ASSUME NEW u \in due, Tell(u)
      PROVE  PassInv'
  BY <1>1, <1>3 DEF Tell
<1>4. ASSUME NEW w \in Processes, NEW p \in Passes, NEW s \in Tasks,
             IssueArChallenge(w, p, s) \/ IssueQrPass(w, p, s)
      PROVE  PassInv'
  BY <1>1, <1>4 DEF IssueArChallenge, IssueQrPass, Issue
<1>5. CASE Submission
  BY <1>1, <1>5 DEF Submission, ReadTasks, SubmitAttempt, CompleteAttempt, AbandonRequest,
     undecided
<1>6. CASE Review
  BY <1>1, <1>6 DEF Review, ApproveTask, ChangeTask, RequestChanges, ApproveAttempt,
     RequestAllChanges, RejectAttempt, unreviewed
<1>7. ASSUME NEW r \in Requests, NEW s \in Tasks, PostEvidence(r, s) \/ PostAction(r, s)
      PROVE  PassInv'
  <2>1. Begin(r, s, NoPass) /\ UNCHANGED <<claimed, spent, faults>>
    BY <1>7 DEF PostEvidence, PostAction, unbegun
  <2>2. /\ request'[r].pass = NoPass
        /\ \A q \in Requests \ {r} : request'[q] = request[q]
    BY <2>1, BeginsRequest, BegunIs
  <2> QED BY <2>1, <2>2
<1>8. ASSUME NEW r \in Requests, NEW s \in Tasks, NEW p \in Passes,
             PostArEvidence(r, s, p) \/ HostVerify(r, s, p)
      PROVE  PassInv'
  <2>1. PICK v \in Processes : v = ServedBy[r]
    BY RequestsAreServed
  <2>2. /\ Begin(r, s, p) /\ UNCHANGED <<spent, faults>>
        /\ p \notin claimed[v] /\ claimed' = [claimed EXCEPT ![v] = @ \cup {p}]
    BY <1>8, <2>1 DEF PostArEvidence, HostVerify, Claim, unbegun
  <2>3. /\ request'[r].phase = "task" /\ request'[r].pass = p
        /\ \A q \in Requests \ {r} : request'[q] = request[q]
    BY <2>2, BeginsRequest, BegunIs
  <2>4. /\ claimed'[v] = claimed[v] \cup {p}
        /\ \A w \in Processes \ {v} : claimed'[w] = claimed[w]
    BY <2>2 DEF StepTypeOK
  <2> QED BY <2>1, <2>2, <2>3, <2>4, RequestsAreServed
<1>9. ASSUME NEW r \in Requests, NEW s \in Tasks, FailCheck(r, s)
      PROVE  PassInv'
  <2>1. request'[r].phase = "mirror" /\ \A q \in Requests \ {r} : request'[q] = request[q]
    BY <1>9, IdleIsRequest DEF FailCheck, StepTypeOK, RequestType
  <2> QED BY <1>0, <1>9, <2>1 DEF FailCheck, unbegun
<1>10. ASSUME NEW r \in Requests, WriteTask(r)
       PROVE  PassInv'
  <2>1. PICK v \in Processes : v = ServedBy[r]
    BY RequestsAreServed
  <2>2. /\ request'[r].phase = "unlock"
        /\ \A q \in Requests \ {r} : request'[q] = request[q]
        /\ UNCHANGED <<claimed, faults>>
    BY <1>10 DEF WriteTask, Goto, StepTypeOK, unwritten
  <2>3. CASE request[r].pass = NoPass
    BY <1>10, <2>2, <2>3 DEF WriteTask
  <2>4. CASE request[r].pass # NoPass
    <3>1. PICK p \in Passes : p = request[r].pass
      BY <2>4 DEF StepTypeOK
    <3>2. spent' = [spent EXCEPT ![v][p] = @ + 1] /\ Presents(r, p)
      BY <1>10, <2>1, <2>4, <3>1 DEF WriteTask
    <3>3. /\ spent'[v][p] = spent[v][p] + 1
          /\ \A w \in Processes, t \in Passes : w # v \/ t # p => spent'[w][t] = spent[w][t]
      BY <3>2 DEF StepTypeOK
    <3> QED BY <2>1, <2>2, <2>4, <3>1, <3>2, <3>3, RequestsAreServed
  <2> QED BY <2>3, <2>4
<1>11. ASSUME NEW r \in Requests, Unlock(r) \/ CountVerified(r) \/ WriteCount(r) \/ MirrorTask(r)
       PROVE  PassInv'
  <2>1. /\ request'[r].phase # "task"
        /\ \A q \in Requests \ {r} : request'[q] = request[q]
        /\ UNCHANGED <<claimed, spent, faults>>
    BY <1>11 DEF Unlock, CountVerified, WriteCount, MirrorTask, Goto, Idle, StepTypeOK, unwritten
  <2> QED BY <1>0, <2>1
<1>12. CASE \/ \E w \in Processes : Restart(w)
            \/ \E r \in Requests : FailRequest(r)
  BY <1>12 DEF Restart, FailRequest, StepTypeOK
<1> QED
  BY <1>2, <1>3, <1>4, <1>5, <1>6, <1>7, <1>8, <1>9, <1>10, <1>11, <1>12
     DEF StepNext, Serving, Evidence

-----------------------------------------------------------------------------
(* Locked tasks *)

LEMMA LockedStays ==
  ASSUME StepInv, StepNext
  PROVE  LockedInv'
<1> USE DEF StepInv, LockedInv, WillUnlock, Done, rows, memory, history
<1>0. \A s \in Tasks : s > 1 => s - 1 \in Tasks
  BY TasksAreSome DEF Tasks
<1>1. ASSUME NEW w \in Processes, StartAttempt(w)
      PROVE  LockedInv'
  <2>1. \A s \in Tasks : task'[s] = "not_started" => terms.order = "sequential" /\ s > 1
    BY <1>1 DEF StartAttempt, InitialStatus, Terms, Tasks, StepTypeOK
  <2>2. \A s \in Tasks : task'[s] \in {"ready", "not_started"}
    BY <1>1 DEF StartAttempt, InitialStatus
  <2> QED BY <1>0, <1>1, <2>1, <2>2 DEF StartAttempt
<1>2. ASSUME UNCHANGED <<terms, task, faults>>,
             \A q \in Requests : request[q].phase = "unlock" => request'[q] = request[q]
      PROVE  LockedInv'
  BY <1>2
<1>3. ASSUME NEW w \in Processes, ResumeFunded(w) \/ ApproveAttempt(w)
      PROVE  LockedInv'
  BY <1>2, <1>3 DEF ResumeFunded, ApproveAttempt, unreviewed
<1>4. ASSUME NEW u \in due, Tell(u)
      PROVE  LockedInv'
  BY <1>2, <1>4 DEF Tell
<1>5. CASE Submission
  BY <1>2, <1>5 DEF Submission, ReadTasks, SubmitAttempt, CompleteAttempt, AbandonRequest,
     undecided
<1>6. ASSUME NEW w \in Processes, NEW p \in Passes, NEW s \in Tasks,
             IssueArChallenge(w, p, s) \/ IssueQrPass(w, p, s)
      PROVE  LockedInv'
  BY <1>2, <1>6 DEF IssueArChallenge, IssueQrPass, Issue
<1>7. ASSUME NEW r \in Requests, NEW s \in Tasks, NEW p \in Passes \cup {NoPass}, Begin(r, s, p),
             UNCHANGED <<terms, task, faults>>
      PROVE  LockedInv'
  BY <1>2, <1>7, BeginsRequest
<1>8. ASSUME NEW r \in Requests, NEW s \in Tasks,
             \/ PostEvidence(r, s) \/ PostAction(r, s)
             \/ \E p \in Passes : PostArEvidence(r, s, p) \/ HostVerify(r, s, p)
      PROVE  LockedInv'
  BY <1>7, <1>8 DEF PostEvidence, PostAction, PostArEvidence, HostVerify, unbegun
<1>9. ASSUME NEW r \in Requests, NEW s \in Tasks, FailCheck(r, s)
      PROVE  LockedInv'
  BY <1>2, <1>9 DEF FailCheck, unbegun, StepTypeOK
<1>10. ASSUME NEW r \in Requests, WriteTask(r)
       PROVE  LockedInv'
  <2> DEFINE s == request[r].task
  <2>1. /\ s \in Tasks
        /\ request'[r].phase = "unlock" /\ request'[r].task = s
        /\ \A q \in Requests \ {r} : request'[q] = request[q]
        /\ request[r].phase = "task"
        /\ UNCHANGED <<terms, faults>>
    BY <1>10 DEF WriteTask, Goto, StepTypeOK, unwritten
  <2>2. /\ task'[s] \in {"pending_review", "verified"}
        /\ \A t \in Tasks \ {s} : task'[t] = task[t]
    BY <1>10, <2>1 DEF WriteTask, SetTask, StepTypeOK, RowsInv
  <2> QED BY <1>0, <2>1, <2>2
<1>11. ASSUME NEW r \in Requests, Unlock(r)
       PROVE  LockedInv'
  <2> DEFINE s == request[r].task
  <2>1. /\ s \in Tasks
        /\ request'[r].phase = "count"
        /\ \A q \in Requests \ {r} : request'[q] = request[q]
        /\ UNCHANGED <<terms, faults>>
    BY <1>11 DEF Unlock, Goto, StepTypeOK, unwritten
  <2>2. CASE Unlocks(s)
    <3>1. /\ s + 1 \in Tasks /\ task'[s + 1] = "ready"
          /\ ~(task[s + 1] \in {"verified", "pending_review"})
          /\ \A t \in Tasks \ {s + 1} : task'[t] = task[t]
      BY <1>11, <2>2 DEF Unlock, Unlocks, SetTask, StepTypeOK
    <3>2. \A t \in Tasks : t # s + 1 => t - 1 # s
      BY <2>1 DEF Tasks
    <3> QED BY <1>0, <2>1, <3>1, <3>2
  <2>3. CASE ~Unlocks(s)
    <3>1. task' = task
      BY <1>11, <2>3 DEF Unlock
    <3>2. \A t \in Tasks : task[t] = "not_started" /\ terms.order = "sequential" => t - 1 # s
      BY <2>1, <2>3 DEF Unlocks, Tasks
    <3> QED BY <2>1, <3>1, <3>2
  <2> QED BY <2>2, <2>3
<1>12. ASSUME NEW r \in Requests, CountVerified(r) \/ WriteCount(r) \/ MirrorTask(r)
       PROVE  LockedInv'
  BY <1>2, <1>12 DEF CountVerified, WriteCount, MirrorTask, Goto, StepTypeOK, unwritten
<1>13. CASE \/ \E w \in Processes : Restart(w)
            \/ \E r \in Requests : FailRequest(r)
  BY <1>13 DEF Restart, FailRequest, StepTypeOK
<1>14. ASSUME UNCHANGED <<terms, request, faults>>,
              \A s \in Tasks :
                /\ task'[s] = "not_started" => task[s] = "not_started"
                /\ task'[s] \in {"verified", "pending_review"} =>
                     task[s] \in {"verified", "pending_review"}
       PROVE  LockedInv'
  BY <1>0, <1>14
<1>15. ASSUME NEW s \in Tasks, ApproveTask(s) \/ ChangeTask(s)
       PROVE  LockedInv'
  BY <1>14, <1>15 DEF ApproveTask, ChangeTask, SetTask, unreviewed, StepTypeOK
<1>16. ASSUME NEW w \in Processes,
              \/ RequestAllChanges(w) \/ RejectAttempt(w)
              \/ \E s \in Tasks : RequestChanges(w, s)
       PROVE  LockedInv'
  BY <1>14, <1>16 DEF RequestAllChanges, RejectAttempt, RequestChanges, SetTask,
     PendingToChanges, unreviewed, StepTypeOK
<1> QED
  BY <1>1, <1>3, <1>4, <1>5, <1>6, <1>8, <1>9, <1>10, <1>11, <1>12, <1>13, <1>15, <1>16
     DEF StepNext, Serving, Evidence, Review

-----------------------------------------------------------------------------

\* With nobody about to unlock it, what is before a locked task is not done.
LEMMA StepInvHolds == StepInv => StepsHold
<1> SUFFICES ASSUME StepInv PROVE StepsHold
  OBVIOUS
<1>1. CompletedOnWhatWasRead
  BY DEF StepInv, EvidenceInv
<1>2. PassSpentOnce
  BY DEF StepInv, PassInv, PassSpentOnce
<1>3. LockedHelps
  <2> SUFFICES ASSUME faults = 0, \A r \in Requests : request[r].phase = "idle",
                      NEW s \in Tasks, task[s] = "not_started"
               PROVE  \E t \in 1..(s - 1) : ~Done(t)
    BY DEF LockedHelps
  <2>1. s > 1 /\ ~Done(s - 1)
    BY DEF StepInv, LockedInv, WillUnlock
  <2>2. s - 1 \in 1..(s - 1)
    BY <2>1 DEF Tasks
  <2> QED BY <2>1, <2>2
<1> QED BY <1>1, <1>2, <1>3 DEF StepsHold

\* Each column and each memory keeps its type for any tasks, requests, passes
\* and processes, the count of verified tasks within their number; and a
\* completed attempt has the evidence its request had rows for, a pass is good
\* for one task at a process, and a locked task can be reached (quests.ts: the
\* evidence, submit and review handlers).
THEOREM StepsCorrect == StepSpec => [](StepTypeOK /\ StepsHold)
<1>1. StepInit => StepInv
  BY InitSteps
<1>2. StepInv /\ [StepNext]_stepVars => StepInv'
  <2> SUFFICES ASSUME StepInv, [StepNext]_stepVars PROVE StepInv'
    OBVIOUS
  <2>1. CASE StepNext
    BY <2>1, StepTypes, RowsStay, EvidenceStays, PassStays, LockedStays DEF StepInv
  <2>2. CASE UNCHANGED stepVars
    BY <2>2 DEF StepInv, stepVars, StepTypeOK, RowsInv, EvidenceInv, CompletedOnWhatWasRead,
       PassInv, Presents, LockedInv, WillUnlock, Done, rows, memory, history
  <2> QED BY <2>1, <2>2
<1>3. StepInv => StepTypeOK /\ StepsHold
  BY StepInvHolds DEF StepInv
<1> QED BY <1>1, <1>2, <1>3, PTL DEF StepSpec

-----------------------------------------------------------------------------
(* Juanchoice: ballots *)

Weights == {0} \cup DOMAIN BoostCost
BallotRow == [spot : Spots \cup {NoSpot}, weight : Weights, spent : Nat]
BallotRows == [Campaigns -> [Voters -> BallotRow]]

\* What a ballot cost, and the civic XP it gave.
CostOf(b) == IF b.weight > 0 THEN BoostCost[b.weight] ELSE 0
XpOf(b) == IF b.weight > 0 THEN FirstBallotXp + (b.weight - 1) * TierXp ELSE 0

Spendings(v) == [c \in Campaigns |-> ballot[c][v].spent]
Gains(v) == [c \in Campaigns |-> XpOf(ballot[c][v])]
Losses == [v \in Voters |-> Purse - purse[v]]

BallotInv ==
  /\ ballot \in BallotRows
  /\ purse \in [Voters -> Nat] /\ sink \in Nat /\ civicXp \in [Voters -> Nat]
  /\ \A c \in Campaigns, v \in Voters : ballot[c][v].spent = CostOf(ballot[c][v])
  /\ \A v \in Voters :
       /\ purse[v] + SumFunctionOnSet(Spendings(v), Campaigns) = Purse
       /\ civicXp[v] = SumFunctionOnSet(Gains(v), Campaigns)
  /\ sink = SumFunctionOnSet(Losses, Voters)

LEMMA RoundsAreFinite ==
  /\ IsFiniteSet(Campaigns) /\ IsFiniteSet(Voters) /\ IsFiniteSet(Spots)
  /\ FirstBallotXp \in Nat /\ TierXp \in Nat /\ Purse \in Nat /\ MinisterRest \in Nat
  /\ WeekTicks \in Nat /\ DayTicks \in Nat /\ MaxWeek \in Nat
  <1>1. IsFiniteSet(Weeks)
    BY WeekHasDays, FS_Interval DEF Weeks
  <1>2. IsFiniteSet(Campaigns)
    BY <1>1, ElectionNumbers, FS_Union DEF Campaigns
  <1>. QED  BY <1>2, ElectionNumbers, WeekHasDays

LEMMA BallotFields ==
  /\ \A b \in BallotRow : /\ b.weight \in Weights /\ b.spent \in Nat /\ b.spot \in Spots \cup {NoSpot}
                          /\ XpOf(b) \in Nat /\ CostOf(b) \in Nat
  /\ \A w \in Weights : w \in Nat /\ (w # 0 => w \in DOMAIN BoostCost /\ w >= 1)
  <1>1. \A w \in Weights : w \in Nat /\ (w # 0 => w \in DOMAIN BoostCost /\ w >= 1)
    BY HeavierCostsMore DEF Weights
  <1>2. ASSUME NEW b \in BallotRow
        PROVE  /\ b.weight \in Weights /\ b.spent \in Nat /\ b.spot \in Spots \cup {NoSpot}
               /\ XpOf(b) \in Nat /\ CostOf(b) \in Nat
    <2>1. b.weight \in Weights /\ b.spent \in Nat /\ b.spot \in Spots \cup {NoSpot}
      BY DEF BallotRow
    <2>2. PICK w \in Weights : w = b.weight
      BY <2>1
    <2>3. w > 0 => BoostCost[w] \in Nat
      BY <1>1, HeavierCostsMore
    <2>4. w > 0 => (w - 1) * TierXp \in Nat
      <3>1. \A x, y \in Nat : x * y \in Nat
        OBVIOUS
      <3>2. w > 0 => w - 1 \in Nat
        BY <1>1
      <3>. QED  BY <3>1, <3>2, RoundsAreFinite
    <2>5. XpOf(b) \in Nat
      BY <1>1, <2>2, <2>4, RoundsAreFinite DEF XpOf
    <2>. QED  BY <2>1, <2>2, <2>3, <2>5 DEF CostOf
  <1>. QED  BY <1>1, <1>2

\* A ballot of v in round c becomes b, at a price in points and for xp.
LEMMA BallotCast ==
  ASSUME BallotInv, NEW c \in Campaigns, NEW v \in Voters, NEW b \in BallotRow,
         NEW price \in Nat, NEW xp \in Nat, purse[v] >= price,
         b.spent = CostOf(b), b.spent = ballot[c][v].spent + price,
         XpOf(b) = XpOf(ballot[c][v]) + xp,
         ballot' = [ballot EXCEPT ![c][v] = b],
         purse' = [purse EXCEPT ![v] = @ - price], sink' = sink + price,
         civicXp' = [civicXp EXCEPT ![v] = @ + xp]
  PROVE  BallotInv'
  <1>1. /\ ballot' \in BallotRows /\ ballot'[c][v] = b
        /\ \A d \in Campaigns, u \in Voters : d # c \/ u # v => ballot'[d][u] = ballot[d][u]
    BY DEF BallotInv, BallotRows
  <1>2. /\ purse' \in [Voters -> Nat] /\ sink' \in Nat /\ civicXp' \in [Voters -> Nat]
        /\ purse'[v] = purse[v] - price /\ civicXp'[v] = civicXp[v] + xp
        /\ \A u \in Voters \ {v} : purse'[u] = purse[u] /\ civicXp'[u] = civicXp[u]
        /\ purse[v] \in Nat /\ civicXp[v] \in Nat /\ sink \in Nat
    BY DEF BallotInv
  <1>3. \A d \in Campaigns, u \in Voters : ballot'[d][u].spent = CostOf(ballot'[d][u])
    BY <1>1, ZenonT(40) DEF BallotInv
  <1>4. \A u \in Voters, d \in Campaigns :
          /\ Spendings(u)[d] = ballot[d][u].spent /\ Spendings(u)[d] \in Int
          /\ Spendings(u)'[d] = ballot'[d][u].spent /\ Spendings(u)'[d] \in Int
          /\ Gains(u)[d] = XpOf(ballot[d][u]) /\ Gains(u)[d] \in Int
          /\ Gains(u)'[d] = XpOf(ballot'[d][u]) /\ Gains(u)'[d] \in Int
    <2>1. \A u \in Voters, d \in Campaigns : ballot[d][u] \in BallotRow /\ ballot'[d][u] \in BallotRow
      BY <1>1 DEF BallotInv, BallotRows
    <2>2. \A x : XpOf(x)' = XpOf(x)
      BY DEF XpOf
    <2>. QED  BY <2>1, <2>2, BallotFields DEF Spendings, Gains
  <1>5. ASSUME NEW u \in Voters
        PROVE  /\ purse'[u] + SumFunctionOnSet(Spendings(u)', Campaigns) = Purse
               /\ civicXp'[u] = SumFunctionOnSet(Gains(u)', Campaigns)
    <2>1. /\ purse[u] + SumFunctionOnSet(Spendings(u), Campaigns) = Purse
          /\ civicXp[u] = SumFunctionOnSet(Gains(u), Campaigns)
      BY DEF BallotInv
    <2>2. SumFunctionOnSet(Spendings(u), Campaigns) \in Int /\ SumFunctionOnSet(Gains(u), Campaigns) \in Int
      BY <1>4, RoundsAreFinite, SumIsInt
    <2>3. CASE u = v
      <3>0. PICK old, new, had, got :
              /\ old = Spendings(v) /\ new = Spendings(v)' /\ had = Gains(v) /\ got = Gains(v)'
        OBVIOUS
      <3>1. /\ SumFunctionOnSet(Spendings(v)', Campaigns) =
                 SumFunctionOnSet(Spendings(v), Campaigns) + Spendings(v)'[c] - Spendings(v)[c]
            /\ SumFunctionOnSet(Gains(v)', Campaigns) =
                 SumFunctionOnSet(Gains(v), Campaigns) + Gains(v)'[c] - Gains(v)[c]
        <4>1. \A d \in Campaigns : old[d] \in Int /\ new[d] \in Int /\ had[d] \in Int /\ got[d] \in Int
          BY <1>4, <3>0
        <4>2. \A d \in Campaigns \ {c} : new[d] = old[d] /\ got[d] = had[d]
          BY <1>1, <1>4, <3>0
        <4>3. SumFunctionOnSet(new, Campaigns) = SumFunctionOnSet(old, Campaigns) + new[c] - old[c]
          <5>1. \A d \in Campaigns : old[d] \in Int /\ new[d] \in Int
            BY <4>1
          <5>2. \A d \in Campaigns \ {c} : new[d] = old[d]
            BY <4>2
          <5>3. IsFiniteSet(Campaigns)
            BY RoundsAreFinite
          <5>. QED  BY <5>1, <5>2, <5>3, SumUpdated, SMTT(40)
        <4>4. SumFunctionOnSet(got, Campaigns) = SumFunctionOnSet(had, Campaigns) + got[c] - had[c]
          <5>1. \A d \in Campaigns : had[d] \in Int /\ got[d] \in Int
            BY <4>1
          <5>2. \A d \in Campaigns \ {c} : got[d] = had[d]
            BY <4>2
          <5>3. IsFiniteSet(Campaigns)
            BY RoundsAreFinite
          <5>. QED  BY <5>1, <5>2, <5>3, SumUpdated, SMTT(40)
        <4>. QED  BY <3>0, <4>3, <4>4
      <3>2. /\ Spendings(v)'[c] = Spendings(v)[c] + price
            /\ Gains(v)'[c] = Gains(v)[c] + xp
            /\ Spendings(v)[c] \in Int /\ Gains(v)[c] \in Int
        BY <1>1, <1>4
      <3>. QED  BY <1>2, <2>1, <2>2, <2>3, <3>1, <3>2
    <2>4. CASE u # v
      <3>1. \A d \in Campaigns : Spendings(u)'[d] = Spendings(u)[d] /\ Gains(u)'[d] = Gains(u)[d]
        BY <1>1, <1>4, <2>4
      <3>2. /\ SumFunctionOnSet(Spendings(u)', Campaigns) = SumFunctionOnSet(Spendings(u), Campaigns)
            /\ SumFunctionOnSet(Gains(u)', Campaigns) = SumFunctionOnSet(Gains(u), Campaigns)
        BY <3>1, RoundsAreFinite, SumOfEqual
      <3>. QED  BY <1>2, <2>1, <2>4, <3>2
    <2>. QED  BY <2>3, <2>4
  <1>6. sink' = SumFunctionOnSet(Losses', Voters)
    <2>1. \A u \in Voters : Losses[u] \in Int /\ Losses'[u] \in Int
      BY <1>2, RoundsAreFinite DEF Losses, BallotInv
    <2>2. \A u \in Voters \ {v} : Losses'[u] = Losses[u]
      BY <1>2 DEF Losses
    <2>3. SumFunctionOnSet(Losses', Voters) = SumFunctionOnSet(Losses, Voters) + Losses'[v] - Losses[v]
      BY <2>1, <2>2, RoundsAreFinite, SumUpdated
    <2>4. Losses'[v] = Losses[v] + price /\ Losses[v] \in Int
      BY <1>2, <2>1, RoundsAreFinite DEF Losses
    <2>5. sink = SumFunctionOnSet(Losses, Voters)
      BY DEF BallotInv
    <2>. QED  BY <1>2, <2>3, <2>4, <2>5
  <1>7. \A x : CostOf(x)' = CostOf(x)
    BY DEF CostOf
  <1>. QED  BY <1>1, <1>2, <1>3, <1>5, <1>6, <1>7 DEF BallotInv

LEMMA BallotsUntouched ==
  ASSUME BallotInv, UNCHANGED <<ballot, purse, sink, civicXp>>
  PROVE  BallotInv'
  <1>1. \A v : Spendings(v)' = Spendings(v) /\ Gains(v)' = Gains(v)
    BY DEF Spendings, Gains, XpOf
  <1>2. Losses' = Losses
    BY DEF Losses
  <1>. QED  BY <1>1, <1>2 DEF BallotInv, CostOf

LEMMA CastKeepsBallots ==
  ASSUME BallotInv, NEW c \in Campaigns, NEW v \in Voters, NEW s \in Spots, CastBallot(c, v, s)
  PROVE  BallotInv'
  <1>1. PICK old \in BallotRow : old = ballot[c][v]
    BY DEF BallotInv, BallotRows
  <1>2. PICK w \in Weights : w = old.weight
    BY BallotFields
  <1>. DEFINE b == [old EXCEPT !.spot = s, !.weight = IF w = 0 THEN 1 ELSE w]
              xp == IF w = 0 THEN FirstBallotXp ELSE 0
  <1>3. v \notin Voted(c) <=> w = 0
    BY <1>1, <1>2, BallotFields DEF Voted
  <1>4. ballot' = [ballot EXCEPT ![c][v] = b]
    <2>1. ballot' = [ballot EXCEPT ![c][v].spot = s, ![c][v].weight = IF v \notin Voted(c) THEN 1 ELSE @]
      BY DEF CastBallot
    <2>. QED  BY <1>1, <1>2, <1>3, <2>1 DEF BallotInv, BallotRows
  <1>5. b \in BallotRow /\ b.spent = old.spent /\ b.weight = IF w = 0 THEN 1 ELSE w
    BY <1>1, HeavierCostsMore DEF BallotRow, Weights
  <1>6. old.spent = CostOf(old) /\ old.spent \in Nat
    BY <1>1, BallotFields DEF BallotInv
  <1>7. b.spent = CostOf(b) /\ XpOf(b) = XpOf(old) + xp
    <2>1. CASE w = 0
      <3>1. CostOf(old) = 0 /\ XpOf(old) = 0
        BY <1>2, <2>1 DEF CostOf, XpOf
      <3>2. CostOf(b) = 0 /\ XpOf(b) = FirstBallotXp
        <4>1. (1 - 1) * TierXp = 0
          BY RoundsAreFinite
        <4>. QED  BY <1>5, <2>1, <4>1, RoundsAreFinite, HeavierCostsMore DEF CostOf, XpOf
      <3>. QED  BY <1>5, <1>6, <2>1, <3>1, <3>2, RoundsAreFinite
    <2>2. CASE w # 0
      <3>1. b.weight = old.weight
        BY <1>2, <1>5, <2>2
      <3>2. CostOf(b) = CostOf(old) /\ XpOf(b) = XpOf(old)
        BY <3>1 DEF CostOf, XpOf
      <3>3. XpOf(old) \in Nat
        BY BallotFields
      <3>. QED  BY <1>5, <1>6, <2>2, <3>2, <3>3
    <2>. QED  BY <2>1, <2>2
  <1>8. purse' = [purse EXCEPT ![v] = @ - 0] /\ sink' = sink + 0 /\ purse[v] >= 0
    BY DEF CastBallot, BallotInv
  <1>9. civicXp' = [civicXp EXCEPT ![v] = @ + xp]
    BY <1>3 DEF CastBallot
  <1>10. xp \in Nat /\ 0 \in Nat
    BY RoundsAreFinite
  <1>11. b.spent = old.spent + 0
    BY <1>5, <1>6
  <1>. HIDE DEF b, xp
  <1>. QED  BY <1>1, <1>4, <1>5, <1>7, <1>8, <1>9, <1>10, <1>11, BallotCast

LEMMA MaxOfTwo ==
  ASSUME NEW x \in Nat
  PROVE  Max({1, x}) = IF x > 1 THEN x ELSE 1
  <1>. DEFINE m == IF x > 1 THEN x ELSE 1
  <1>1. m \in {1, x} /\ \A y \in {1, x} : m >= y
    OBVIOUS
  <1>2. \A z \in {1, x} : (\A y \in {1, x} : z >= y) => z = m
    OBVIOUS
  <1>. QED  BY <1>1, <1>2 DEF Max

LEMMA BoostKeepsBallots ==
  ASSUME BallotInv, NEW c \in Campaigns, NEW v \in Voters, NEW s \in Spots,
         NEW weight \in DOMAIN BoostCost, CastBoostedBallot(c, v, s, weight)
  PROVE  BallotInv'
  <1>1. PICK old \in BallotRow : old = ballot[c][v]
    BY DEF BallotInv, BallotRows
  <1>2. PICK w \in Weights : w = old.weight
    BY BallotFields
  <1>3. PICK paid \in DOMAIN BoostCost : paid = (IF w = 0 THEN 1 ELSE w) /\ paid = PaidWeight(c, v)
    <2>1. w \in Nat /\ (w # 0 => w \in DOMAIN BoostCost /\ w >= 1) /\ 1 \in DOMAIN BoostCost
      BY BallotFields, HeavierCostsMore
    <2>2. PaidWeight(c, v) = IF w = 0 THEN 1 ELSE w
      BY <1>1, <1>2, <2>1, MaxOfTwo DEF PaidWeight
    <2>. QED  BY <2>1, <2>2
  <1>4. /\ w \in Nat /\ paid \in Nat \ {0} /\ weight \in Nat \ {0} /\ weight > w /\ paid <= weight
        /\ BoostCost[weight] \in Nat /\ BoostCost[paid] \in Nat /\ BoostCost[paid] <= BoostCost[weight]
    <2>1. w \in Nat /\ weight \in Nat \ {0} /\ weight > w /\ paid \in Nat \ {0}
      BY <1>1, <1>2, BallotFields, HeavierCostsMore DEF CastBoostedBallot
    <2>2. paid <= weight
      BY <1>3, <2>1
    <2>. QED  BY <2>1, <2>2, HeavierCostsMore
  <1>. DEFINE price == BoostCost[weight] - BoostCost[paid]
              b == [spot |-> s, weight |-> weight, spent |-> old.spent + price]
              first == IF w = 0 THEN FirstBallotXp ELSE 0
              xp == (weight - paid) * TierXp + first
  <1>5. v \notin Voted(c) <=> w = 0
    BY <1>1, <1>2, BallotFields DEF Voted
  <1>6. /\ purse[v] >= price /\ purse' = [purse EXCEPT ![v] = @ - price] /\ sink' = sink + price
        /\ ballot' = [ballot EXCEPT ![c][v] = b]
    BY <1>1, <1>3 DEF CastBoostedBallot, PaidWeight, BallotInv, BallotRows
  <1>7. price \in Nat /\ old.spent \in Nat /\ old.spent = CostOf(old)
    BY <1>1, <1>4, BallotFields DEF BallotInv
  <1>8. b \in BallotRow /\ b.spent = old.spent + price /\ b.weight = weight
    BY <1>7 DEF BallotRow, Weights
  <1>9. xp \in Nat
    <2>1. \A x, y \in Nat : x * y \in Nat
      OBVIOUS
    <2>2. weight - paid \in Nat
      BY <1>4
    <2>3. (weight - paid) * TierXp \in Nat
      BY <2>1, <2>2, RoundsAreFinite
    <2>. QED  BY <2>3, RoundsAreFinite
  <1>10. b.spent = CostOf(b)
    <2>1. CostOf(old) = BoostCost[paid]
      BY <1>2, <1>3, <1>4, HeavierCostsMore DEF CostOf
    <2>2. CostOf(b) = BoostCost[weight]
      BY <1>4, <1>8 DEF CostOf
    <2>. QED  BY <1>4, <1>7, <1>8, <2>1, <2>2
  <1>11. XpOf(b) = XpOf(old) + xp
    <2>1. XpOf(b) = FirstBallotXp + (weight - 1) * TierXp
      BY <1>4, <1>8 DEF XpOf
    <2>2. (weight - 1) * TierXp = (paid - 1) * TierXp + (weight - paid) * TierXp
      <3>1. \A x, y, z \in Int : (x + y) * z = x * z + y * z
        OBVIOUS
      <3>2. weight - 1 = (paid - 1) + (weight - paid) /\ paid - 1 \in Int /\ weight - paid \in Int
        BY <1>4
      <3>. QED  BY <3>1, <3>2, RoundsAreFinite
    <2>3. PICK above \in Int, tiers \in Int : above = (paid - 1) * TierXp /\ tiers = (weight - paid) * TierXp
      BY <1>4, RoundsAreFinite
    <2>4. CASE w = 0
      <3>1. above = 0
        BY <1>3, <2>3, <2>4, RoundsAreFinite
      <3>2. XpOf(old) = 0
        BY <1>2, <2>4 DEF XpOf
      <3>. QED  BY <2>1, <2>2, <2>3, <2>4, <3>1, <3>2, RoundsAreFinite
    <2>5. CASE w # 0
      <3>1. XpOf(old) = FirstBallotXp + above
        BY <1>2, <1>3, <1>4, <2>3, <2>5 DEF XpOf
      <3>. QED  BY <2>1, <2>2, <2>3, <2>5, <3>1, RoundsAreFinite
    <2>. QED  BY <2>4, <2>5
  <1>12. civicXp' = [civicXp EXCEPT ![v] = @ + xp]
    <2>1. civicXp' = [civicXp EXCEPT ![v] = @ + (weight - paid) * TierXp + first]
      BY <1>3, <1>5 DEF CastBoostedBallot
    <2>2. civicXp \in [Voters -> Nat] /\ civicXp[v] \in Nat
      BY DEF BallotInv
    <2>3. PICK tiers \in Int : tiers = (weight - paid) * TierXp
      BY <1>4, RoundsAreFinite
    <2>4. first \in Int
      BY RoundsAreFinite
    <2>5. \A x, y, z \in Int : x + y + z = x + (y + z)
      OBVIOUS
    <2>6. civicXp[v] + tiers + first = civicXp[v] + (tiers + first)
      BY <2>2, <2>3, <2>4, <2>5
    <2>. HIDE DEF first
    <2>7. civicXp' = [civicXp EXCEPT ![v] = civicXp[v] + tiers + first]
      BY <2>1, <2>3
    <2>8. xp = tiers + first
      BY <2>3 DEF xp
    <2>. QED  BY <2>6, <2>7, <2>8
  <1>. HIDE DEF b, xp, price
  <1>. QED  BY <1>1, <1>6, <1>7, <1>8, <1>9, <1>10, <1>11, <1>12, BallotCast

LEMMA BallotsAtFirst ==
  ASSUME ElectionInit
  PROVE  BallotInv
  <1>1. NoBallot \in BallotRow /\ NoBallot.weight = 0 /\ NoBallot.spent = 0
    BY DEF NoBallot, BallotRow, Weights
  <1>2. ballot \in BallotRows /\ \A c \in Campaigns, v \in Voters : ballot[c][v] = NoBallot
    BY <1>1 DEF ElectionInit, BallotRows
  <1>3. CostOf(NoBallot) = 0 /\ XpOf(NoBallot) = 0
    BY <1>1 DEF CostOf, XpOf
  <1>4. Cardinality(Campaigns) \in Nat /\ Cardinality(Voters) \in Nat
    BY RoundsAreFinite, FS_CardinalityType
  <1>5. ASSUME NEW v \in Voters
        PROVE  /\ SumFunctionOnSet(Spendings(v), Campaigns) = 0
               /\ SumFunctionOnSet(Gains(v), Campaigns) = 0
    <2>1. \A c \in Campaigns : Spendings(v)[c] = 0 /\ Gains(v)[c] = 0
      BY <1>1, <1>2, <1>3 DEF Spendings, Gains
    <2>2. /\ SumFunctionOnSet(Spendings(v), Campaigns) = 0 * Cardinality(Campaigns)
          /\ SumFunctionOnSet(Gains(v), Campaigns) = 0 * Cardinality(Campaigns)
      BY <2>1, RoundsAreFinite, SumOfConstant
    <2>. QED  BY <1>4, <2>2
  <1>6. SumFunctionOnSet(Losses, Voters) = 0
    <2>1. \A v \in Voters : Losses[v] = 0
      BY RoundsAreFinite DEF Losses, ElectionInit
    <2>2. SumFunctionOnSet(Losses, Voters) = 0 * Cardinality(Voters)
      BY <2>1, RoundsAreFinite, SumOfConstant
    <2>. QED  BY <1>4, <2>2
  <1>7. /\ purse \in [Voters -> Nat] /\ sink = 0 /\ civicXp \in [Voters -> Nat]
        /\ \A v \in Voters : purse[v] = Purse /\ civicXp[v] = 0
    BY RoundsAreFinite DEF ElectionInit
  <1>. QED  BY <1>1, <1>2, <1>3, <1>5, <1>6, <1>7, RoundsAreFinite DEF BallotInv

-----------------------------------------------------------------------------
(* Juanchoice: rounds *)

InForce == {"scheduled", "voting", "finalized"}

RoundTables == [Campaigns -> CampaignRow]
RosterTables == [Campaigns -> [Spots -> {"none", "eligible", "suspended"}]]
PeriodTables == [Weeks -> {"none", "planned", "missed", "postponed", "prepared", "cancelled"}]
Tables == [period : PeriodTables, campaign : RoundTables, candidate : RosterTables]

\* No two rounds of a table that run, or ran, overlap.
Apart(table) ==
  \A c, d \in Campaigns :
    c # d /\ table[c].status \in InForce /\ table[d].status \in InForce
      => table[c].closes <= table[d].opens \/ table[d].closes <= table[c].opens

RoundInv ==
  /\ campaign \in RoundTables /\ candidate \in RosterTables /\ period \in PeriodTables
  /\ result \in [Campaigns -> [done : BOOLEAN, winners : SUBSET Spots,
                               minister : Spots \cup {NoSpot}, votes : Nat]]
  /\ state \in [Spots -> [losses : 0..10, minister : Int]]
  /\ published \subseteq Spots /\ now \in 0..MaxTime
  /\ Apart(campaign)

LEMMA RowFields ==
  \A row \in CampaignRow :
    /\ row.opens \in Nat /\ row.closes \in Nat
    /\ row.status \in {"none", "draft", "scheduled", "voting", "finalized", "cancelled"}
  BY DEF CampaignRow

\* A row that is not a round, has the window it had, or one that is free.
LEMMA RowChanged ==
  ASSUME NEW table \in RoundTables, Apart(table), NEW c \in Campaigns, NEW row \in CampaignRow,
         \/ row.status \notin InForce
         \/ table[c].status \in InForce /\ row.opens = table[c].opens /\ row.closes = table[c].closes
         \/ ~Overlapping(table, row.opens, row.closes)
  PROVE  [table EXCEPT ![c] = row] \in RoundTables /\ Apart([table EXCEPT ![c] = row])
  <1>. DEFINE new == [table EXCEPT ![c] = row]
  <1>1. new \in RoundTables /\ new[c] = row /\ \A d \in Campaigns \ {c} : new[d] = table[d]
    BY DEF RoundTables
  <1>2. \A d \in Campaigns : table[d] \in CampaignRow
    BY DEF RoundTables
  <1>3. ASSUME NEW d \in Campaigns \ {c}, row.status \in InForce, table[d].status \in InForce
        PROVE  row.closes <= table[d].opens \/ table[d].closes <= row.opens
    <2>1. CASE table[c].status \in InForce /\ row.opens = table[c].opens /\ row.closes = table[c].closes
      BY <1>3, <2>1 DEF Apart
    <2>2. CASE ~Overlapping(table, row.opens, row.closes)
      <3>1. ~(table[d].opens < row.closes /\ table[d].closes > row.opens)
        BY <1>3, <2>2 DEF Overlapping, InForce
      <3>2. table[d].opens \in Nat /\ table[d].closes \in Nat /\ row.opens \in Nat /\ row.closes \in Nat
        BY <1>2, RowFields
      <3>. QED  BY <3>1, <3>2
    <2>. QED  BY <1>3, <2>1, <2>2
  <1>4. Apart(new)
    <2>1. SUFFICES ASSUME NEW a \in Campaigns, NEW d \in Campaigns, a # d,
                          new[a].status \in InForce, new[d].status \in InForce
                   PROVE  new[a].closes <= new[d].opens \/ new[d].closes <= new[a].opens
      BY DEF Apart
    <2>. HIDE DEF new
    <2>2. CASE a = c
      BY <1>1, <1>3, <2>1, <2>2
    <2>3. CASE d = c
      BY <1>1, <1>3, <2>1, <2>3
    <2>4. CASE a # c /\ d # c
      BY <1>1, <2>1, <2>4 DEF Apart
    <2>. QED  BY <2>2, <2>3, <2>4
  <1>. QED  BY <1>1, <1>4

LEMMA TableFields ==
  /\ \A db \in Tables : /\ db.period \in PeriodTables /\ db.campaign \in RoundTables
                        /\ db.candidate \in RosterTables
  /\ \A db \in Tables, p \in PeriodTables : [db EXCEPT !.period = p] \in Tables
  BY DEF Tables

LEMMA PeriodSet ==
  ASSUME NEW db \in Tables, NEW w \in Weeks,
         NEW status \in {"planned", "missed", "postponed", "prepared", "cancelled"}
  PROVE  /\ SetPeriod(db, w, status) \in Tables
         /\ SetPeriod(db, w, status).campaign = db.campaign
         /\ SetPeriod(db, w, status).candidate = db.candidate
  <1>1. [db.period EXCEPT ![w] = status] \in PeriodTables
    BY DEF Tables, PeriodTables
  <1>2. SetPeriod(db, w, status) = [db EXCEPT !.period = [db.period EXCEPT ![w] = status]]
    BY DEF Tables, SetPeriod
  <1>. QED  BY <1>1, <1>2 DEF Tables

LEMMA EnsuredKeeps ==
  ASSUME NEW db \in Tables, NEW w \in Weeks, NEW t
  PROVE  Ensured(db, w, t) \in Tables /\ Ensured(db, w, t).campaign = db.campaign
  BY PeriodSet DEF Ensured

\* The window of a week.
LEMMA WeekWindow ==
  ASSUME NEW w \in Weeks
  PROVE  Opens(w) \in Nat /\ Closes(w) \in Nat /\ w \in Campaigns
  <1>1. w \in Nat /\ w - 1 \in Nat /\ w \in Campaigns
    BY RoundsAreFinite DEF Weeks, Campaigns
  <1>2. \A x, y \in Nat : x * y \in Nat
    OBVIOUS
  <1>. QED  BY <1>1, <1>2, RoundsAreFinite DEF Opens, Closes

LEMMA PreparedKeeps ==
  ASSUME NEW db \in Tables, Apart(db.campaign), NEW w \in Weeks, NEW t, NEW row \in Prepared(db, w, t)
  PROVE  row \in Tables /\ Apart(row.campaign)
  <1>1. \/ row = SetPeriod(db, w, "missed") \/ row = db \/ row = SetPeriod(db, w, "postponed")
        \/ /\ ~Overlapping(db.campaign, Opens(w), Closes(w))
           /\ \E spots \in Rosters(w) :
                row = [SetPeriod(db, w, "prepared") EXCEPT
                        !.campaign[w] = [status |-> "scheduled", opens |-> Opens(w), closes |-> Closes(w)],
                        !.candidate[w] = [s \in Spots |-> IF s \in spots THEN "eligible" ELSE "none"]]
    BY DEF Prepared
  <1>2. CASE row = SetPeriod(db, w, "missed") \/ row = db \/ row = SetPeriod(db, w, "postponed")
    <2>1. /\ SetPeriod(db, w, "missed") \in Tables /\ SetPeriod(db, w, "missed").campaign = db.campaign
          /\ SetPeriod(db, w, "postponed") \in Tables /\ SetPeriod(db, w, "postponed").campaign = db.campaign
      BY PeriodSet
    <2>. QED  BY <1>2, <2>1
  <1>3. ASSUME ~Overlapping(db.campaign, Opens(w), Closes(w)), NEW spots,
               row = [SetPeriod(db, w, "prepared") EXCEPT
                        !.campaign[w] = [status |-> "scheduled", opens |-> Opens(w), closes |-> Closes(w)],
                        !.candidate[w] = [s \in Spots |-> IF s \in spots THEN "eligible" ELSE "none"]]
        PROVE  row \in Tables /\ Apart(row.campaign)
    <2>1. PICK base \in Tables : /\ base = SetPeriod(db, w, "prepared")
                                 /\ base.campaign = db.campaign /\ base.candidate = db.candidate
      BY PeriodSet
    <2>2. PICK round : round = [status |-> "scheduled", opens |-> Opens(w), closes |-> Closes(w)]
      OBVIOUS
    <2>3. PICK roster : roster = [s \in Spots |-> IF s \in spots THEN "eligible" ELSE "none"]
      OBVIOUS
    <2>4. row = [base EXCEPT !.campaign[w] = round, !.candidate[w] = roster]
      BY <1>3, <2>1, <2>2, <2>3
    <2>5. round \in CampaignRow /\ round.opens = Opens(w) /\ round.closes = Closes(w)
      BY <2>2, WeekWindow DEF CampaignRow
    <2>6. roster \in [Spots -> {"none", "eligible", "suspended"}]
      BY <2>3
    <2>7. /\ [base.campaign EXCEPT ![w] = round] \in RoundTables
          /\ Apart([base.campaign EXCEPT ![w] = round])
      BY <1>3, <2>1, <2>5, WeekWindow, TableFields, RowChanged
    <2>8. [base.candidate EXCEPT ![w] = roster] \in RosterTables
      BY <2>6, WeekWindow, TableFields DEF RosterTables
    <2>9. /\ row.campaign = [base.campaign EXCEPT ![w] = round]
          /\ row.candidate = [base.candidate EXCEPT ![w] = roster] /\ row.period = base.period
          /\ row = [period |-> row.period, campaign |-> row.campaign, candidate |-> row.candidate]
      BY <2>4 DEF Tables
    <2>10. row \in Tables
      BY <2>7, <2>8, <2>9, TableFields DEF Tables
    <2>. QED  BY <2>7, <2>9, <2>10
  <1>. QED  BY <1>1, <1>2, <1>3

LEMMA RecheckedKeeps ==
  ASSUME NEW db \in Tables, Apart(db.campaign), NEW w \in Weeks, NEW busy, NEW row \in Rechecked(db, w, busy)
  PROVE  row \in Tables /\ Apart(row.campaign)
  <1>1. PICK rosters : rosters \in [Spots -> {"none", "eligible", "suspended"}] /\
          \/ row = db
          \/ row = [SetPeriod(db, w, "cancelled") EXCEPT
                      !.campaign[w].status = "cancelled", !.candidate[w] = rosters]
          \/ row = [db EXCEPT !.candidate[w] = rosters]
    <2>. DEFINE standing == {s \in Spots : db.candidate[w][s] = "eligible"}
                able == {s \in published \ busy : Rested(s, Opens(w))}
                live == standing \cap able
                suspended == [s \in Spots |-> IF s \in standing \ live THEN "suspended"
                                              ELSE db.candidate[w][s]]
    <2>1. suspended \in [Spots -> {"none", "eligible", "suspended"}]
      <3>1. db.candidate[w] \in [Spots -> {"none", "eligible", "suspended"}]
        BY WeekWindow, TableFields DEF RosterTables
      <3>. QED  BY <3>1
    <2>2. \/ row = db
          \/ \E added :
               row = IF Cardinality(live \cup added) < Minimum
                     THEN [SetPeriod(db, w, "cancelled") EXCEPT
                             !.campaign[w].status = "cancelled", !.candidate[w] = suspended]
                     ELSE [db EXCEPT !.candidate[w] =
                             [s \in Spots |-> IF s \in added THEN "eligible" ELSE suspended[s]]]
      BY DEF Rechecked
    <2>. HIDE DEF suspended, live, able, standing
    <2>3. \A added : [s \in Spots |-> IF s \in added THEN "eligible" ELSE suspended[s]]
                       \in [Spots -> {"none", "eligible", "suspended"}]
      BY <2>1
    <2>. QED  BY <2>1, <2>2, <2>3
  <1>2. CASE row = db
    BY <1>2
  <1>3. CASE row = [db EXCEPT !.candidate[w] = rosters]
    <2>1. [db.candidate EXCEPT ![w] = rosters] \in RosterTables
      BY <1>1, WeekWindow, TableFields DEF RosterTables
    <2>2. /\ row.campaign = db.campaign /\ row.period = db.period
          /\ row.candidate = [db.candidate EXCEPT ![w] = rosters]
          /\ row = [period |-> row.period, campaign |-> row.campaign, candidate |-> row.candidate]
      BY <1>3 DEF Tables
    <2>3. row \in Tables
      BY <2>1, <2>2, TableFields DEF Tables
    <2>. QED  BY <2>2, <2>3
  <1>4. CASE row = [SetPeriod(db, w, "cancelled") EXCEPT
                      !.campaign[w].status = "cancelled", !.candidate[w] = rosters]
    <2>1. PICK base \in Tables : /\ base = SetPeriod(db, w, "cancelled")
                                 /\ base.campaign = db.campaign /\ base.candidate = db.candidate
      BY PeriodSet
    <2>2. PICK round : round = [base.campaign[w] EXCEPT !.status = "cancelled"]
      OBVIOUS
    <2>3. base.campaign[w] \in CampaignRow
      BY WeekWindow, TableFields DEF RoundTables
    <2>4. round \in CampaignRow /\ round.status = "cancelled"
      BY <2>2, <2>3 DEF CampaignRow
    <2>5. /\ [base.campaign EXCEPT ![w] = round] \in RoundTables
          /\ Apart([base.campaign EXCEPT ![w] = round])
      <3>1. round.status \notin InForce
        BY <2>4 DEF InForce
      <3>. QED  BY <2>1, <2>4, <3>1, WeekWindow, TableFields, RowChanged
    <2>6. [base.candidate EXCEPT ![w] = rosters] \in RosterTables
      BY <1>1, WeekWindow, TableFields DEF RosterTables
    <2>7. row = [base EXCEPT !.campaign[w] = round, !.candidate[w] = rosters]
      BY <1>4, <2>1, <2>2
    <2>8. /\ row.campaign = [base.campaign EXCEPT ![w] = round]
          /\ row.candidate = [base.candidate EXCEPT ![w] = rosters] /\ row.period = base.period
          /\ row = [period |-> row.period, campaign |-> row.campaign, candidate |-> row.candidate]
      BY <2>7 DEF Tables
    <2>9. row \in Tables
      BY <2>5, <2>6, <2>8, TableFields DEF Tables
    <2>. QED  BY <2>5, <2>8, <2>9
  <1>. QED  BY <1>1, <1>2, <1>3, <1>4

LEMMA ReconciledKeeps ==
  ASSUME NEW db \in Tables, Apart(db.campaign), NEW w, NEW t, NEW row \in Reconciled(db, w, t)
  PROVE  row \in Tables /\ Apart(row.campaign)
  <1>1. CASE w \notin Weeks
    BY <1>1 DEF Reconciled
  <1>2. CASE w \in Weeks
    <2>1. PICK base \in Tables : base = Ensured(db, w, t) /\ Apart(base.campaign)
      BY <1>2, EnsuredKeeps
    <2>2. \/ row \in Prepared(base, w, t)
          \/ \E busy \in SUBSET Spots : row \in Rechecked(base, w, busy)
          \/ row = base
      BY <1>2, <2>1 DEF Reconciled
    <2>. QED  BY <1>2, <2>1, <2>2, PreparedKeeps, RecheckedKeeps
  <1>. QED  BY <1>1, <1>2

roundVars == <<campaign, candidate, result, state, period, published, now>>

\* One campaign's row changes, and nothing else of the rounds.
LEMMA RowKeepsRounds ==
  ASSUME RoundInv, NEW c \in Campaigns, NEW row \in CampaignRow,
         \/ row.status \notin InForce
         \/ /\ campaign[c].status \in InForce
            /\ row.opens = campaign[c].opens /\ row.closes = campaign[c].closes
         \/ ~Overlapping(campaign, row.opens, row.closes),
         campaign' = [campaign EXCEPT ![c] = row],
         UNCHANGED <<candidate, result, state, period, published, now>>
  PROVE  RoundInv'
  <1>1. campaign' \in RoundTables /\ Apart(campaign')
    BY RowChanged DEF RoundInv
  <1>2. Apart(campaign)'
    BY <1>1 DEF Apart
  <1>. QED  BY <1>1, <1>2 DEF RoundInv

LEMMA StatusKeepsRounds ==
  ASSUME RoundInv, NEW c \in Campaigns,
         NEW status \in {"draft", "scheduled", "voting", "finalized", "cancelled"},
         \/ status \notin InForce \/ campaign[c].status \in InForce
         \/ ~Overlapping(campaign, campaign[c].opens, campaign[c].closes)
  PROVE  \E row \in CampaignRow :
           /\ [campaign EXCEPT ![c].status = status] = [campaign EXCEPT ![c] = row]
           /\ \/ row.status \notin InForce
              \/ /\ campaign[c].status \in InForce
                 /\ row.opens = campaign[c].opens /\ row.closes = campaign[c].closes
              \/ ~Overlapping(campaign, row.opens, row.closes)
  <1>1. PICK row : row = [campaign[c] EXCEPT !.status = status]
    OBVIOUS
  <1>2. campaign[c] \in CampaignRow
    BY DEF RoundInv, RoundTables
  <1>3. /\ row \in CampaignRow /\ row.status = status
        /\ row.opens = campaign[c].opens /\ row.closes = campaign[c].closes
    BY <1>1, <1>2 DEF CampaignRow
  <1>4. [campaign EXCEPT ![c].status = status] = [campaign EXCEPT ![c] = row]
    BY <1>1
  <1>. QED  BY <1>3, <1>4

LEMMA RoundsUntouched ==
  ASSUME RoundInv, UNCHANGED roundVars
  PROVE  RoundInv'
  BY DEF RoundInv, roundVars, Apart

LEMMA DraftKeepsRounds ==
  ASSUME RoundInv, NEW c \in Drafts, DraftStep(c)
  PROVE  RoundInv'
  <1>0. c \in Campaigns
    BY DEF Campaigns
  <1>1. ASSUME NEW window \in Windows, CreateDraft(c, window)
        PROVE  RoundInv'
    <2>1. PICK row : row = [status |-> "draft", opens |-> window[1], closes |-> window[2]]
      OBVIOUS
    <2>2. window[1] \in Nat /\ window[2] \in Nat
      BY ElectionNumbers
    <2>3. row \in CampaignRow /\ row.status \notin InForce
      BY <2>1, <2>2 DEF CampaignRow, InForce
    <2>. QED  BY <1>0, <1>1, <2>1, <2>3, RowKeepsRounds DEF CreateDraft
  <1>2. ASSUME NEW s \in Spots, AddCandidate(c, s)
        PROVE  RoundInv'
    <2>1. candidate' \in RosterTables
      BY <1>0, <1>2 DEF AddCandidate, RoundInv, RosterTables
    <2>2. UNCHANGED <<campaign, result, state, period, published, now>>
      BY <1>2 DEF AddCandidate
    <2>. QED  BY <2>1, <2>2 DEF RoundInv, Apart
  <1>3. CASE PublishCampaign(c)
    <2>1. PICK status \in {"scheduled", "voting"} : campaign' = [campaign EXCEPT ![c].status = status]
      BY <1>3 DEF PublishCampaign
    <2>2. ~Overlapping(campaign, campaign[c].opens, campaign[c].closes)
      BY <1>3 DEF PublishCampaign
    <2>3. UNCHANGED <<candidate, result, state, period, published, now>>
      BY <1>3 DEF PublishCampaign
    <2>4. PICK row \in CampaignRow :
            /\ [campaign EXCEPT ![c].status = status] = [campaign EXCEPT ![c] = row]
            /\ \/ row.status \notin InForce
               \/ /\ campaign[c].status \in InForce
                  /\ row.opens = campaign[c].opens /\ row.closes = campaign[c].closes
               \/ ~Overlapping(campaign, row.opens, row.closes)
      BY <1>0, <2>2, StatusKeepsRounds
    <2>. QED  BY <1>0, <2>1, <2>3, <2>4, RowKeepsRounds
  <1>. QED  BY <1>1, <1>2, <1>3 DEF DraftStep

LEMMA ModerateKeepsRounds ==
  ASSUME RoundInv, NEW c \in Campaigns, NEW s \in Spots, ModerateCandidate(c, s)
  PROVE  RoundInv'
  <1>1. candidate' \in RosterTables
    BY DEF ModerateCandidate, RoundInv, RosterTables
  <1>2. UNCHANGED <<campaign, result, state, period, published, now>>
    BY DEF ModerateCandidate
  <1>. QED  BY <1>1, <1>2 DEF RoundInv, Apart

LEMMA CancelKeepsRounds ==
  ASSUME RoundInv, NEW c \in Campaigns, CancelCampaign(c)
  PROVE  RoundInv'
  <1>1. "cancelled" \notin InForce
    BY DEF InForce
  <1>2. PICK row \in CampaignRow :
          /\ [campaign EXCEPT ![c].status = "cancelled"] = [campaign EXCEPT ![c] = row]
          /\ \/ row.status \notin InForce
             \/ /\ campaign[c].status \in InForce
                /\ row.opens = campaign[c].opens /\ row.closes = campaign[c].closes
             \/ ~Overlapping(campaign, row.opens, row.closes)
    BY <1>1, StatusKeepsRounds
  <1>. QED  BY <1>2, RowKeepsRounds DEF CancelCampaign

\* What a spot has in a round is a number.
LEMMA TallyIsNat ==
  ASSUME BallotInv, NEW c \in Campaigns
  PROVE  \A s \in Spots : Tally(c, s) \in Nat
  <1>1. TAKE s \in Spots
  <1>. DEFINE voted == {v \in Voted(c) : ballot[c][v].spot = s}
              weight == [v \in voted |-> ballot[c][v].weight]
  <1>2. voted \subseteq Voters /\ IsFiniteSet(voted)
    BY RoundsAreFinite, FS_Subset DEF Voted
  <1>3. \A v \in voted : weight[v] \in Nat
    <2>1. \A v \in voted : ballot[c][v] \in BallotRow
      BY <1>2 DEF BallotInv, BallotRows
    <2>. QED  BY <2>1, BallotFields
  <1>. HIDE DEF voted
  <1>4. SumFunctionOnSet(weight, voted) = MapThenSumSet(LAMBDA v : ballot[c][v].weight, voted)
    BY DEF MapThenSumSet, MapThenFoldSet, SumFunctionOnSet, FoldFunctionOnSet
  <1>5. Tally(c, s) = MapThenSumSet(LAMBDA v : ballot[c][v].weight, voted)
    BY DEF Tally, voted
  <1>. HIDE DEF weight
  <1>6. SumFunctionOnSet(weight, voted) \in Nat
    BY <1>2, <1>3, SumIsNat
  <1>. QED  BY <1>4, <1>5, <1>6

LEMMA VotesAreNat ==
  ASSUME BallotInv, NEW c \in Campaigns, NEW standing \in SUBSET Spots
  PROVE  MapThenSumSet(LAMBDA s : Tally(c, s), standing) \in Nat
  <1>. DEFINE votes == [s \in standing |-> Tally(c, s)]
  <1>1. IsFiniteSet(standing) /\ \A s \in standing : votes[s] \in Nat
    BY RoundsAreFinite, FS_Subset, TallyIsNat
  <1>2. SumFunctionOnSet(votes, standing) = MapThenSumSet(LAMBDA s : Tally(c, s), standing)
    BY DEF MapThenSumSet, MapThenFoldSet, SumFunctionOnSet, FoldFunctionOnSet
  <1>. HIDE DEF votes
  <1>3. SumFunctionOnSet(votes, standing) \in Nat
    BY <1>1, SumIsNat
  <1>. QED  BY <1>2, <1>3

LEMMA MinOfTen ==
  ASSUME NEW x \in Nat
  PROVE  Min({x, 10}) \in 0..10
  <1>. DEFINE m == IF x < 10 THEN x ELSE 10
  <1>1. m \in {x, 10} /\ \A y \in {x, 10} : m <= y
    OBVIOUS
  <1>2. \A z \in {x, 10} : (\A y \in {x, 10} : z <= y) => z = m
    OBVIOUS
  <1>3. Min({x, 10}) = m
    BY <1>1, <1>2 DEF Min
  <1>. QED  BY <1>3

LEMMA MinisterIsSpot ==
  ASSUME NEW c, NEW standing \in SUBSET Spots, NEW winners
  PROVE  MinisterOf(c, standing, winners) \in Spots \cup {NoSpot}
  <1>. DEFINE second == Leading(c, standing \ winners)
  <1>1. second \subseteq Spots
    BY DEF Leading
  <1>2. second # {} => (CHOOSE s \in second : TRUE) \in second
    OBVIOUS
  <1>3. Cardinality(second) = 1 => second # {}
    BY FS_EmptySet
  <1>4. MinisterOf(c, standing, winners) =
          IF Weekly(c) /\ Cardinality(winners) = 1 /\ Cardinality(second) = 1
          THEN CHOOSE s \in second : TRUE ELSE NoSpot
    BY DEF MinisterOf
  <1>. HIDE DEF second
  <1>. QED  BY <1>1, <1>2, <1>3, <1>4

LEMMA FinalizeKeepsRounds ==
  ASSUME RoundInv, BallotInv, NEW c \in Campaigns, FinalizeCampaign(c)
  PROVE  RoundInv'
  <1>1. PICK standing \in SUBSET Spots : standing = {s \in Spots : Votable(c, s)}
    OBVIOUS
  <1>2. PICK winners \in SUBSET Spots : winners = Leading(c, standing)
    BY DEF Leading
  <1>3. PICK minister \in Spots \cup {NoSpot} : minister = MinisterOf(c, standing, winners)
    BY MinisterIsSpot
  <1>4. PICK votes \in Nat : votes = MapThenSumSet(LAMBDA s : Tally(c, s), standing)
    BY VotesAreNat
  <1>5. /\ campaign[c].status \in {"scheduled", "voting"}
        /\ campaign' = [campaign EXCEPT ![c].status = "finalized"]
        /\ result' = [result EXCEPT ![c] =
             [done |-> TRUE, winners |-> winners, minister |-> minister, votes |-> votes]]
        /\ state' = [s \in Spots |->
             IF ~Weekly(c) \/ s \notin standing THEN state[s]
             ELSE IF s \in winners \cup {minister}
             THEN [losses |-> 0,
                   minister |-> IF s = minister THEN campaign[c].closes ELSE state[s].minister]
             ELSE [state[s] EXCEPT !.losses = Min({@ + 1, 10})]]
        /\ UNCHANGED <<candidate, period, published, now>>
    BY <1>1, <1>2, <1>3, <1>4 DEF FinalizeCampaign
  <1>6. campaign[c].status \in InForce
    BY <1>5 DEF InForce
  <1>7. PICK row \in CampaignRow :
          /\ campaign' = [campaign EXCEPT ![c] = row]
          /\ \/ row.status \notin InForce
             \/ /\ campaign[c].status \in InForce
                /\ row.opens = campaign[c].opens /\ row.closes = campaign[c].closes
             \/ ~Overlapping(campaign, row.opens, row.closes)
    BY <1>5, <1>6, StatusKeepsRounds
  <1>8. campaign' \in RoundTables /\ Apart(campaign')
    BY <1>7, RowChanged DEF RoundInv
  <1>9. result' \in [Campaigns -> [done : BOOLEAN, winners : SUBSET Spots,
                                   minister : Spots \cup {NoSpot}, votes : Nat]]
    BY <1>5 DEF RoundInv
  <1>10. state' \in [Spots -> [losses : 0..10, minister : Int]]
    <2>1. campaign[c].closes \in Int
      <3>1. campaign[c] \in CampaignRow
        BY DEF RoundInv, RoundTables
      <3>. QED  BY <3>1, RowFields
    <2>2. ASSUME NEW s \in Spots
          PROVE  state'[s] \in [losses : 0..10, minister : Int]
      <3>1. PICK old \in [losses : 0..10, minister : Int] : old = state[s]
        BY DEF RoundInv
      <3>2. old.losses \in 0..10 /\ old.minister \in Int
        OBVIOUS
      <3>3. PICK many \in 0..10 : many = Min({old.losses + 1, 10})
        BY <3>2, MinOfTen
      <3>4. [old EXCEPT !.losses = many] \in [losses : 0..10, minister : Int]
        OBVIOUS
      <3>5. [losses |-> 0, minister |-> IF s = minister THEN campaign[c].closes ELSE old.minister]
              \in [losses : 0..10, minister : Int]
        BY <2>1, <3>2
      <3>6. state'[s] = IF ~Weekly(c) \/ s \notin standing THEN old
             ELSE IF s \in winners \cup {minister}
             THEN [losses |-> 0,
                   minister |-> IF s = minister THEN campaign[c].closes ELSE old.minister]
             ELSE [old EXCEPT !.losses = many]
        BY <1>5, <3>1, <3>3
      <3>. QED  BY <3>4, <3>5, <3>6
    <2>3. state' = [s \in Spots |-> state'[s]]
      BY <1>5
    <2>. QED  BY <2>2, <2>3
  <1>11. Apart(campaign)'
    BY <1>8 DEF Apart
  <1>. QED  BY <1>5, <1>8, <1>9, <1>10, <1>11 DEF RoundInv

LEMMA ReconcileKeepsRounds ==
  ASSUME RoundInv, NEW t, ReconcileSchedule(t)
  PROVE  RoundInv'
  <1>1. PICK first \in Reconciled(Rows, WeekOf(t), t) :
          \E db \in Reconciled(first, WeekOf(t) + 1, t) :
            /\ period' = db.period /\ campaign' = db.campaign /\ candidate' = db.candidate
            /\ UNCHANGED <<ballot, purses, result, state, published, now>>
    BY DEF ReconcileSchedule
  <1>2. PICK db \in Reconciled(first, WeekOf(t) + 1, t) :
            /\ period' = db.period /\ campaign' = db.campaign /\ candidate' = db.candidate
            /\ UNCHANGED <<ballot, purses, result, state, published, now>>
    BY <1>1
  <1>3. Rows \in Tables /\ Apart(Rows.campaign)
    BY DEF Rows, Tables, RoundInv
  <1>4. first \in Tables /\ Apart(first.campaign)
    BY <1>3, ReconciledKeeps
  <1>5. db \in Tables /\ Apart(db.campaign)
    BY <1>4, ReconciledKeeps
  <1>6. period' \in PeriodTables /\ campaign' \in RoundTables /\ candidate' \in RosterTables
    BY <1>2, <1>5, TableFields
  <1>7. Apart(campaign)'
    BY <1>2, <1>5 DEF Apart
  <1>. QED  BY <1>2, <1>6, <1>7 DEF RoundInv

LEMMA TimeIsNat == MaxTime \in Nat
  <1>1. \A x, y \in Nat : x * y \in Nat
    OBVIOUS
  <1>. QED  BY <1>1, RoundsAreFinite DEF MaxTime

LEMMA RoundsAtFirst ==
  ASSUME ElectionInit
  PROVE  RoundInv
  <1>1. campaign \in RoundTables /\ Apart(campaign)
    BY DEF ElectionInit, RoundTables, CampaignRow, Apart, InForce
  <1>2. /\ candidate \in RosterTables /\ period \in PeriodTables /\ published \subseteq Spots
    BY DEF ElectionInit, RosterTables, PeriodTables
  <1>3. result \in [Campaigns -> [done : BOOLEAN, winners : SUBSET Spots,
                                  minister : Spots \cup {NoSpot}, votes : Nat]]
    BY DEF ElectionInit, NoResult
  <1>4. state \in [Spots -> [losses : 0..10, minister : Int]]
    BY RoundsAreFinite DEF ElectionInit
  <1>5. now \in 0..MaxTime
    BY TimeIsNat DEF ElectionInit
  <1>. QED  BY <1>1, <1>2, <1>3, <1>4, <1>5 DEF RoundInv

LEMMA ElectionStepKeeps ==
  ASSUME RoundInv, BallotInv, ElectionNext
  PROVE  RoundInv' /\ BallotInv'
  <1>1. ASSUME NEW c \in Campaigns, NEW v \in Voters, NEW s \in Spots, Vote(c, v, s)
        PROVE  RoundInv' /\ BallotInv'
    <2>1. UNCHANGED roundVars
      BY <1>1 DEF Vote, CastBallot, CastBoostedBallot, roundVars
    <2>2. BallotInv'
      BY <1>1, CastKeepsBallots, BoostKeepsBallots DEF Vote
    <2>. QED  BY <2>1, <2>2, RoundsUntouched
  <1>2. ASSUME NEW c \in Campaigns, NEW s \in Spots, ModerateCandidate(c, s)
        PROVE  RoundInv' /\ BallotInv'
    BY <1>2, ModerateKeepsRounds, BallotsUntouched DEF ModerateCandidate, purses
  <1>3. ASSUME NEW c \in Campaigns, CancelCampaign(c)
        PROVE  RoundInv' /\ BallotInv'
    BY <1>3, CancelKeepsRounds, BallotsUntouched DEF CancelCampaign, purses
  <1>4. ASSUME NEW c \in Campaigns, FinalizeCampaign(c)
        PROVE  RoundInv' /\ BallotInv'
    <2>1. UNCHANGED <<ballot, purse, sink, civicXp>>
      BY <1>4 DEF FinalizeCampaign, purses
    <2>. QED  BY <1>4, <2>1, FinalizeKeepsRounds, BallotsUntouched
  <1>5. ASSUME NEW c \in Drafts, DraftStep(c)
        PROVE  RoundInv' /\ BallotInv'
    <2>1. UNCHANGED <<ballot, purse, sink, civicXp>>
      BY <1>5 DEF DraftStep, CreateDraft, AddCandidate, PublishCampaign, purses
    <2>. QED  BY <1>5, <2>1, DraftKeepsRounds, BallotsUntouched
  <1>6. ASSUME NEW s \in Spots, WithdrawSpot(s)
        PROVE  RoundInv' /\ BallotInv'
    <2>1. UNCHANGED <<ballot, purse, sink, civicXp, campaign, candidate, result, state, period, now>>
      BY <1>6 DEF WithdrawSpot, purses
    <2>2. published' \subseteq Spots
      BY <1>6 DEF WithdrawSpot, RoundInv
    <2>3. RoundInv'
      BY <2>1, <2>2 DEF RoundInv, Apart
    <2>. QED  BY <2>1, <2>3, BallotsUntouched
  <1>7. ASSUME NEW t, ReconcileSchedule(t)
        PROVE  RoundInv' /\ BallotInv'
    <2>1. UNCHANGED <<ballot, purse, sink, civicXp>>
      BY <1>7 DEF ReconcileSchedule, purses
    <2>. QED  BY <1>7, <2>1, ReconcileKeepsRounds, BallotsUntouched
  <1>8. CASE ElectionClock
    <2>1. UNCHANGED <<ballot, purse, sink, civicXp, campaign, candidate, result, state, period, published>>
      BY <1>8 DEF ElectionClock, purses
    <2>2. now' \in 0..MaxTime
      <3>1. now < MaxTime /\ now' = now + 1 /\ now \in 0..MaxTime /\ MaxTime \in Nat
        BY <1>8, TimeIsNat DEF ElectionClock, RoundInv
      <3>. QED  BY <3>1
    <2>3. RoundInv'
      BY <2>1, <2>2 DEF RoundInv, Apart
    <2>. QED  BY <2>1, <2>3, BallotsUntouched
  <1>. QED  BY <1>1, <1>2, <1>3, <1>4, <1>5, <1>6, <1>7, <1>8 DEF ElectionNext

LEMMA SpendingsInSum ==
  ASSUME NEW v, NEW S \in SUBSET Campaigns
  PROVE  SumFunctionOnSet(Spendings(v), S) = MapThenSumSet(LAMBDA c : ballot[c][v].spent, S)
  BY ZenonT(40) DEF Spendings, MapThenSumSet, MapThenFoldSet, SumFunctionOnSet, FoldFunctionOnSet

LEMMA LossesInSum ==
  ASSUME NEW S \in SUBSET Voters
  PROVE  SumFunctionOnSet(Losses, S) = MapThenSumSet(LAMBDA v : Purse - purse[v], S)
  BY ZenonT(40) DEF Losses, MapThenSumSet, MapThenFoldSet, SumFunctionOnSet, FoldFunctionOnSet

\* The XP of the rounds a voter took part in is that of all rounds.
LEMMA GainsInSum ==
  ASSUME BallotInv, NEW v \in Voters
  PROVE  SumFunctionOnSet(Gains(v), Campaigns) =
           MapThenSumSet(LAMBDA c : FirstBallotXp + (ballot[c][v].weight - 1) * TierXp,
                         {c \in Campaigns : v \in Voted(c)})
  <1>. DEFINE mine == {c \in Campaigns : v \in Voted(c)}
              gain == [c \in mine |-> FirstBallotXp + (ballot[c][v].weight - 1) * TierXp]
  <1>1. mine \subseteq Campaigns /\ IsFiniteSet(mine) /\ IsFiniteSet(Campaigns \ mine)
    BY RoundsAreFinite, FS_Subset
  <1>2. \A c \in Campaigns : ballot[c][v] \in BallotRow
    BY DEF BallotInv, BallotRows
  <1>3. \A c \in Campaigns : c \in mine <=> ballot[c][v].weight > 0
    BY DEF Voted
  <1>4. \A c \in mine : gain[c] = Gains(v)[c] /\ gain[c] \in Int
    BY <1>2, <1>3, BallotFields DEF Gains, XpOf
  <1>5. \A c \in Campaigns \ mine : Gains(v)[c] = 0
    BY <1>3 DEF Gains, XpOf
  <1>. HIDE DEF mine
  <1>6. SumFunctionOnSet(gain, mine) =
          MapThenSumSet(LAMBDA c : FirstBallotXp + (ballot[c][v].weight - 1) * TierXp, mine)
    BY ZenonT(40) DEF MapThenSumSet, MapThenFoldSet, SumFunctionOnSet, FoldFunctionOnSet
  <1>. HIDE DEF gain
  <1>7. PICK all : all = Gains(v)
    OBVIOUS
  <1>8. \A c \in Campaigns : all[c] \in Int
    BY <1>1, <1>2, <1>7, BallotFields DEF Gains
  <1>9. SumFunctionOnSet(all, Campaigns \ mine) = SumFunctionOnSet(all, Campaigns) - SumFunctionOnSet(all, mine)
    BY <1>1, <1>8, RoundsAreFinite, SumOfRest
  <1>10. SumFunctionOnSet(all, Campaigns \ mine) = 0
    <2>1. SumFunctionOnSet(all, Campaigns \ mine) = 0 * Cardinality(Campaigns \ mine)
      BY <1>1, <1>5, <1>7, SumOfConstant
    <2>2. Cardinality(Campaigns \ mine) \in Nat
      BY <1>1, FS_CardinalityType
    <2>. QED  BY <2>1, <2>2
  <1>11. SumFunctionOnSet(all, mine) = SumFunctionOnSet(gain, mine)
    BY <1>1, <1>4, <1>7, SumOfEqual
  <1>12. SumFunctionOnSet(all, Campaigns) \in Int /\ SumFunctionOnSet(all, mine) \in Int
    BY <1>1, <1>8, RoundsAreFinite, SumIsInt
  <1>13. SumFunctionOnSet(all, Campaigns) = SumFunctionOnSet(gain, mine)
    BY <1>9, <1>10, <1>11, <1>12
  <1>. QED  BY <1>6, <1>7, <1>13 DEF mine

LEMMA ElectionsImplied ==
  ASSUME RoundInv, BallotInv
  PROVE  ElectionTypeOK /\ ElectionsAddUp
  <1>1. ElectionTypeOK
    BY DEF RoundInv, BallotInv, RoundTables, RosterTables, PeriodTables, BallotRows, BallotRow, Weights,
           ElectionTypeOK
  <1>2. RoundsDisjoint
    <2>1. SUFFICES ASSUME NEW c \in Campaigns, NEW d \in Campaigns, c # d,
                          {campaign[c].status, campaign[d].status} \subseteq {"scheduled", "voting", "finalized"}
                   PROVE  campaign[c].closes <= campaign[d].opens \/ campaign[d].closes <= campaign[c].opens
      BY DEF RoundsDisjoint
    <2>2. campaign[c].status \in InForce /\ campaign[d].status \in InForce
      BY <2>1 DEF InForce
    <2>. QED  BY <2>1, <2>2 DEF RoundInv, Apart
  <1>3. BallotsPaidFor
    <2>1. \A c \in Campaigns, v \in Voters :
            ballot[c][v].spent = IF v \in Voted(c) THEN BoostCost[ballot[c][v].weight] ELSE 0
      BY DEF BallotInv, CostOf, Voted
    <2>2. \A v \in Voters :
            /\ purse[v] + MapThenSumSet(LAMBDA c : ballot[c][v].spent, Campaigns) = Purse
            /\ civicXp[v] = MapThenSumSet(
                 LAMBDA c : FirstBallotXp + (ballot[c][v].weight - 1) * TierXp,
                 {c \in Campaigns : v \in Voted(c)})
      BY SpendingsInSum, GainsInSum DEF BallotInv
    <2>3. sink = MapThenSumSet(LAMBDA v : Purse - purse[v], Voters)
      BY LossesInSum DEF BallotInv
    <2>. QED  BY <2>1, <2>2, <2>3 DEF BallotsPaidFor
  <1>. QED  BY <1>1, <1>2, <1>3 DEF ElectionsAddUp

\* The types, and that elections add up: whatever is drafted, prepared, rechecked,
\* cancelled or finalized, with a clock that moved on meanwhile, no two rounds
\* overlap, and through every switch and boost a voter paid what the weight costs.
THEOREM ElectionsCorrect == ElectionSpec => [](ElectionTypeOK /\ ElectionsAddUp)
  <1>1. ElectionInit => RoundInv /\ BallotInv
    BY RoundsAtFirst, BallotsAtFirst
  <1>2. RoundInv /\ BallotInv /\ [ElectionNext]_electionVars => (RoundInv /\ BallotInv)'
    <2>1. UNCHANGED electionVars => UNCHANGED roundVars /\ UNCHANGED <<ballot, purse, sink, civicXp>>
      BY DEF electionVars, roundVars
    <2>. QED  BY <2>1, ElectionStepKeeps, RoundsUntouched, BallotsUntouched
  <1>. QED  BY <1>1, <1>2, ElectionsImplied, PTL DEF ElectionSpec

-----------------------------------------------------------------------------
(* Juanchoice: what was voted on runs *)

\* A week that is not prepared has no campaign yet.
Unbegun(db) ==
  \A w \in Weeks : db.period[w] \in {"none", "planned"} => db.campaign[w].status = "none"

\* From one state of the tables to a later one: a week is cancelled only without
\* ballots, and a finalized campaign stays as it is.
Lasts(db, row) ==
  /\ \A w \in Weeks : row.period[w] = "cancelled" /\ db.period[w] # "cancelled" => Voted(w) = {}
  /\ \A c \in Campaigns : db.campaign[c].status = "finalized" =>
       row.campaign[c] = db.campaign[c] /\ row.candidate[c] = db.candidate[c]

ResultInv ==
  /\ Unbegun(Rows)
  /\ \A c \in Campaigns : result[c].done => campaign[c].status = "finalized"

LEMMA LastsOn ==
  ASSUME NEW db, NEW mid, NEW row, Lasts(db, mid), Lasts(mid, row)
  PROVE  Lasts(db, row)
  BY DEF Lasts

LEMMA EnsuredLasts ==
  ASSUME NEW db \in Tables, Unbegun(db), NEW w \in Weeks, NEW t
  PROVE  Lasts(db, Ensured(db, w, t)) /\ Unbegun(Ensured(db, w, t))
  <1>1. CASE db.period[w] # "none"
    BY <1>1 DEF Ensured, Lasts
  <1>2. CASE db.period[w] = "none"
    <2>1. PICK status \in {"missed", "planned"} : Ensured(db, w, t) = SetPeriod(db, w, status)
      BY <1>2 DEF Ensured
    <2>2. PICK row \in Tables : row = SetPeriod(db, w, status)
      BY PeriodSet
    <2>3. /\ row.campaign = db.campaign /\ row.candidate = db.candidate
          /\ row.period = [db.period EXCEPT ![w] = status]
      BY <2>2 DEF SetPeriod, Tables
    <2>4. db.period \in PeriodTables
      BY TableFields
    <2>5. row.period[w] = status /\ \A v \in Weeks \ {w} : row.period[v] = db.period[v]
      BY <2>3, <2>4 DEF PeriodTables
    <2>6. Lasts(db, row)
      BY <2>3, <2>5 DEF Lasts
    <2>7. Unbegun(row)
      BY <1>2, <2>3, <2>5 DEF Unbegun
    <2>. QED  BY <2>1, <2>2, <2>6, <2>7
  <1>. QED  BY <1>1, <1>2

\* Only a week without a campaign is prepared.
LEMMA PreparedLasts ==
  ASSUME NEW db \in Tables, Unbegun(db), NEW w \in Weeks, db.period[w] = "planned",
         NEW t, NEW row \in Prepared(db, w, t)
  PROVE  Lasts(db, row) /\ Unbegun(row)
  <1>1. db.campaign[w].status = "none"
    BY DEF Unbegun
  <1>2. \/ row = db
        \/ \E status \in {"missed", "postponed"} : row = SetPeriod(db, w, status)
        \/ \E round, roster :
             row = [SetPeriod(db, w, "prepared") EXCEPT !.campaign[w] = round, !.candidate[w] = roster]
    BY DEF Prepared
  <1>3. CASE row = db
    BY <1>3 DEF Lasts
  <1>4. db.period \in PeriodTables /\ db.campaign \in RoundTables /\ db.candidate \in RosterTables
        /\ w \in Campaigns
    BY TableFields, WeekWindow
  <1>5. ASSUME NEW status \in {"missed", "postponed"}, row = SetPeriod(db, w, status)
        PROVE  Lasts(db, row) /\ Unbegun(row)
    <2>1. /\ row.campaign = db.campaign /\ row.candidate = db.candidate
          /\ row.period = [db.period EXCEPT ![w] = status]
      BY <1>5 DEF SetPeriod, Tables
    <2>2. row.period[w] = status /\ \A v \in Weeks \ {w} : row.period[v] = db.period[v]
      BY <1>4, <2>1 DEF PeriodTables
    <2>. QED  BY <2>1, <2>2 DEF Lasts, Unbegun
  <1>6. ASSUME NEW round, NEW roster,
               row = [SetPeriod(db, w, "prepared") EXCEPT !.campaign[w] = round, !.candidate[w] = roster]
        PROVE  Lasts(db, row) /\ Unbegun(row)
    <2>1. PICK base \in Tables : base = SetPeriod(db, w, "prepared")
      BY PeriodSet
    <2>2. /\ base.campaign = db.campaign /\ base.candidate = db.candidate
          /\ base.period = [db.period EXCEPT ![w] = "prepared"]
      BY <2>1 DEF SetPeriod, Tables
    <2>3. row = [base EXCEPT !.campaign[w] = round, !.candidate[w] = roster]
      BY <1>6, <2>1
    <2>4. /\ row.campaign = [base.campaign EXCEPT ![w] = round]
          /\ row.candidate = [base.candidate EXCEPT ![w] = roster] /\ row.period = base.period
      BY <2>3 DEF Tables
    <2>5. row.period[w] = "prepared" /\ \A v \in Weeks \ {w} : row.period[v] = db.period[v]
      BY <1>4, <2>2, <2>4 DEF PeriodTables
    <2>6. \A c \in Campaigns \ {w} : row.campaign[c] = db.campaign[c] /\ row.candidate[c] = db.candidate[c]
      BY <1>4, <2>2, <2>4 DEF RoundTables, RosterTables
    <2>7. Weeks \subseteq Campaigns
      BY DEF Campaigns
    <2>. QED  BY <1>1, <2>5, <2>6, <2>7 DEF Lasts, Unbegun
  <1>. QED  BY <1>2, <1>3, <1>5, <1>6

\* A recheck works on a campaign that is open and has no ballot.
LEMMA RecheckedLasts ==
  ASSUME NEW db \in Tables, Unbegun(db), NEW w \in Weeks, NEW t, MayRecheck(db, w, t),
         db.period[w] = "prepared", NEW busy, NEW row \in Rechecked(db, w, busy)
  PROVE  Lasts(db, row) /\ Unbegun(row)
  <1>1. db.campaign[w].status # "finalized" /\ Voted(w) = {}
    BY DEF MayRecheck
  <1>2. \/ row = db
        \/ \E roster : row = [db EXCEPT !.candidate[w] = roster]
        \/ \E roster : row = [SetPeriod(db, w, "cancelled") EXCEPT
                               !.campaign[w].status = "cancelled", !.candidate[w] = roster]
    BY DEF Rechecked
  <1>3. CASE row = db
    BY <1>3 DEF Lasts
  <1>4. db.period \in PeriodTables /\ db.campaign \in RoundTables /\ db.candidate \in RosterTables
        /\ w \in Campaigns
    BY TableFields, WeekWindow
  <1>5. Weeks \subseteq Campaigns
    BY DEF Campaigns
  <1>6. ASSUME NEW roster, row = [db EXCEPT !.candidate[w] = roster]
        PROVE  Lasts(db, row) /\ Unbegun(row)
    <2>1. /\ row.campaign = db.campaign /\ row.period = db.period
          /\ row.candidate = [db.candidate EXCEPT ![w] = roster]
      BY <1>6 DEF Tables
    <2>2. \A c \in Campaigns \ {w} : row.candidate[c] = db.candidate[c]
      BY <1>4, <2>1 DEF RosterTables
    <2>. QED  BY <1>1, <2>1, <2>2 DEF Lasts, Unbegun
  <1>7. ASSUME NEW roster, row = [SetPeriod(db, w, "cancelled") EXCEPT
                               !.campaign[w].status = "cancelled", !.candidate[w] = roster]
        PROVE  Lasts(db, row) /\ Unbegun(row)
    <2>1. PICK base \in Tables : base = SetPeriod(db, w, "cancelled")
      BY PeriodSet
    <2>2. /\ base.campaign = db.campaign /\ base.candidate = db.candidate
          /\ base.period = [db.period EXCEPT ![w] = "cancelled"]
      BY <2>1 DEF SetPeriod, Tables
    <2>3. row = [base EXCEPT !.campaign[w].status = "cancelled", !.candidate[w] = roster]
      BY <1>7, <2>1
    <2>4. PICK round : round = [base.campaign[w] EXCEPT !.status = "cancelled"]
      OBVIOUS
    <2>5. /\ row.campaign = [base.campaign EXCEPT ![w] = round]
          /\ row.candidate = [base.candidate EXCEPT ![w] = roster] /\ row.period = base.period
      BY <2>3, <2>4 DEF Tables
    <2>6. row.period[w] = "cancelled" /\ \A v \in Weeks \ {w} : row.period[v] = db.period[v]
      BY <1>4, <2>2, <2>5 DEF PeriodTables
    <2>7. \A c \in Campaigns \ {w} : row.campaign[c] = db.campaign[c] /\ row.candidate[c] = db.candidate[c]
      BY <1>4, <2>2, <2>5 DEF RoundTables, RosterTables
    <2>. QED  BY <1>1, <1>5, <2>6, <2>7 DEF Lasts, Unbegun
  <1>. QED  BY <1>2, <1>3, <1>6, <1>7

LEMMA ReconciledLasts ==
  ASSUME NEW db \in Tables, Apart(db.campaign), Unbegun(db), NEW w, NEW t, NEW row \in Reconciled(db, w, t)
  PROVE  Lasts(db, row) /\ Unbegun(row)
  <1>1. CASE w \notin Weeks
    BY <1>1 DEF Reconciled, Lasts
  <1>2. CASE w \in Weeks
    <2>1. PICK base \in Tables : base = Ensured(db, w, t) /\ Lasts(db, base) /\ Unbegun(base)
      BY <1>2, EnsuredKeeps, EnsuredLasts
    <2>2. \/ base.period[w] = "planned" /\ row \in Prepared(base, w, t)
          \/ /\ base.period[w] = "prepared" /\ MayRecheck(base, w, t)
             /\ \E busy \in SUBSET Spots : row \in Rechecked(base, w, busy)
          \/ row = base
      BY <1>2, <2>1 DEF Reconciled
    <2>3. Lasts(base, base)
      BY DEF Lasts
    <2>4. Lasts(base, row) /\ Unbegun(row)
      BY <1>2, <2>1, <2>2, <2>3, PreparedLasts, RecheckedLasts
    <2>. QED  BY <2>1, <2>4, LastsOn
  <1>. QED  BY <1>1, <1>2

-----------------------------------------------------------------------------

\* What a step leaves of weeks and results.
ResultsStand ==
  /\ \A w \in Weeks : period'[w] = "cancelled" /\ period[w] # "cancelled" => Voted(w) = {}
  /\ \A c \in Campaigns : result[c].done =>
       /\ result'[c] = result[c] /\ ballot'[c] = ballot[c]
       /\ campaign'[c] = campaign[c] /\ candidate'[c] = candidate[c]

LEMMA UnbegunAsRows ==
  /\ Unbegun(Rows) <=>
       \A w \in Weeks : period[w] \in {"none", "planned"} => campaign[w].status = "none"
  /\ Unbegun(Rows)' <=>
       \A w \in Weeks : period'[w] \in {"none", "planned"} => campaign'[w].status = "none"
  BY DEF Unbegun, Rows

LEMMA ReconcileStands ==
  ASSUME RoundInv, ResultInv, NEW t, ReconcileSchedule(t)
  PROVE  ResultInv' /\ ResultsStand
  <1>1. PICK first \in Reconciled(Rows, WeekOf(t), t) :
          \E db \in Reconciled(first, WeekOf(t) + 1, t) :
            /\ period' = db.period /\ campaign' = db.campaign /\ candidate' = db.candidate
            /\ UNCHANGED <<ballot, purses, result, state, published, now>>
    BY DEF ReconcileSchedule
  <1>2. PICK db \in Reconciled(first, WeekOf(t) + 1, t) :
            /\ period' = db.period /\ campaign' = db.campaign /\ candidate' = db.candidate
            /\ UNCHANGED <<ballot, purses, result, state, published, now>>
    BY <1>1
  <1>3. Rows \in Tables /\ Apart(Rows.campaign) /\ Unbegun(Rows)
    BY DEF Rows, Tables, RoundInv, ResultInv
  <1>4. first \in Tables /\ Apart(first.campaign) /\ Lasts(Rows, first) /\ Unbegun(first)
    BY <1>3, ReconciledKeeps, ReconciledLasts
  <1>5. Lasts(first, db) /\ Unbegun(db)
    BY <1>4, ReconciledLasts
  <1>6. Lasts(Rows, db)
    BY <1>4, <1>5, LastsOn
  <1>7. /\ \A w \in Weeks : period'[w] = "cancelled" /\ period[w] # "cancelled" => Voted(w) = {}
        /\ \A c \in Campaigns : campaign[c].status = "finalized" =>
             campaign'[c] = campaign[c] /\ candidate'[c] = candidate[c]
    BY <1>2, <1>6 DEF Lasts, Rows
  <1>8. Unbegun(Rows)'
    <2>1. \A w \in Weeks : period'[w] \in {"none", "planned"} => campaign'[w].status = "none"
      BY <1>2, <1>5 DEF Unbegun
    <2>. QED  BY <2>1, UnbegunAsRows
  <1>9. result' = result /\ ballot' = ballot
    BY <1>2
  <1>. QED  BY <1>7, <1>8, <1>9 DEF ResultInv, ResultsStand

\* A ballot is cast, or a candidate moderated, in a campaign that is not
\* finalized.
LEMMA OpenRowStands ==
  ASSUME RoundInv, BallotInv, ResultInv, NEW c \in Campaigns, campaign[c].status # "finalized",
         \A d \in Campaigns \ {c} : ballot'[d] = ballot[d] /\ candidate'[d] = candidate[d],
         UNCHANGED <<campaign, result, period>>
  PROVE  ResultInv' /\ ResultsStand
  <1>1. Unbegun(Rows)'
    BY UnbegunAsRows DEF ResultInv
  <1>2. \A d \in Campaigns : result[d].done => d # c
    BY DEF ResultInv
  <1>. QED  BY <1>1, <1>2 DEF ResultInv, ResultsStand

\* A campaign's row changes that is not finalized; that of a week only when it
\* was prepared.
LEMMA StatusStands ==
  ASSUME RoundInv, ResultInv, NEW c \in Campaigns,
         campaign[c].status # "finalized", c \in Weeks => campaign[c].status # "none",
         NEW row, campaign' = [campaign EXCEPT ![c] = row],
         UNCHANGED <<ballot, candidate, period, result>>
  PROVE  ResultInv' /\ ResultsStand
  <1>1. \A d \in Campaigns \ {c} : campaign'[d] = campaign[d]
    BY DEF RoundInv, RoundTables
  <1>2. \A d \in Campaigns : result[d].done => d # c
    BY DEF ResultInv
  <1>3. Weeks \subseteq Campaigns
    BY DEF Campaigns
  <1>4. \A w \in Weeks : period'[w] \in {"none", "planned"} => campaign'[w].status = "none"
    BY <1>1, <1>3, UnbegunAsRows DEF ResultInv
  <1>. QED  BY <1>1, <1>2, <1>4, UnbegunAsRows DEF ResultInv, ResultsStand

LEMMA ElectionStepStands ==
  ASSUME RoundInv, BallotInv, ResultInv, ElectionNext
  PROVE  ResultInv' /\ ResultsStand
  <1>1. ASSUME NEW c \in Campaigns, NEW v \in Voters, NEW s \in Spots, Vote(c, v, s)
        PROVE  ResultInv' /\ ResultsStand
    <2>1. campaign[c].status # "finalized"
      BY <1>1 DEF Vote, CastBallot, CastBoostedBallot, InWindow
    <2>2. UNCHANGED <<campaign, candidate, result, period>>
      BY <1>1 DEF Vote, CastBallot, CastBoostedBallot
    <2>3. \A d \in Campaigns \ {c} : ballot'[d] = ballot[d]
      BY <1>1 DEF Vote, CastBallot, CastBoostedBallot, BallotInv, BallotRows
    <2>. QED  BY <2>1, <2>2, <2>3, OpenRowStands
  <1>2. ASSUME NEW c \in Campaigns, NEW s \in Spots, ModerateCandidate(c, s)
        PROVE  ResultInv' /\ ResultsStand
    <2>1. campaign[c].status # "finalized" /\ UNCHANGED <<campaign, ballot, result, period>>
      BY <1>2 DEF ModerateCandidate
    <2>2. \A d \in Campaigns \ {c} : candidate'[d] = candidate[d]
      BY <1>2 DEF ModerateCandidate, RoundInv, RosterTables
    <2>. QED  BY <2>1, <2>2, OpenRowStands
  <1>3. ASSUME NEW c \in Campaigns, CancelCampaign(c)
        PROVE  ResultInv' /\ ResultsStand
    <2>1. /\ campaign[c].status \notin {"none", "finalized"}
          /\ campaign' = [campaign EXCEPT ![c] = [campaign[c] EXCEPT !.status = "cancelled"]]
          /\ UNCHANGED <<ballot, candidate, period, result>>
      BY <1>3 DEF CancelCampaign
    <2>. QED  BY <2>1, StatusStands
  <1>4. ASSUME NEW c \in Campaigns, FinalizeCampaign(c)
        PROVE  ResultInv' /\ ResultsStand
    <2>1. /\ campaign[c].status \notin {"none", "finalized"} /\ ~result[c].done
          /\ campaign' = [campaign EXCEPT ![c].status = "finalized"]
          /\ UNCHANGED <<ballot, candidate, period>>
      BY <1>4 DEF FinalizeCampaign
    <2>2. \A d \in Campaigns \ {c} : result'[d] = result[d]
      BY <1>4 DEF FinalizeCampaign, RoundInv
    <2>3. /\ campaign'[c].status = "finalized"
          /\ \A d \in Campaigns \ {c} : campaign'[d] = campaign[d]
      BY <2>1 DEF RoundInv, RoundTables, CampaignRow
    <2>4. Weeks \subseteq Campaigns
      BY DEF Campaigns
    <2>5. \A w \in Weeks : period'[w] \in {"none", "planned"} => campaign'[w].status = "none"
      BY <2>1, <2>3, <2>4, UnbegunAsRows DEF ResultInv
    <2>. QED  BY <2>1, <2>2, <2>3, <2>5, UnbegunAsRows DEF ResultInv, ResultsStand
  <1>5. ASSUME NEW c \in Drafts, DraftStep(c)
        PROVE  ResultInv' /\ ResultsStand
    <2>0. c \in Campaigns /\ c \notin Weeks
      BY DraftsAreNoWeeks DEF Campaigns
    <2>1. ASSUME NEW window \in Windows, CreateDraft(c, window)
          PROVE  ResultInv' /\ ResultsStand
      <3>1. PICK row : row = [status |-> "draft", opens |-> window[1], closes |-> window[2]]
        OBVIOUS
      <3>. QED  BY <2>0, <2>1, <3>1, StatusStands DEF CreateDraft
    <2>2. ASSUME NEW s \in Spots, AddCandidate(c, s)
          PROVE  ResultInv' /\ ResultsStand
      <3>1. campaign[c].status # "finalized" /\ UNCHANGED <<campaign, ballot, result, period>>
        BY <2>2 DEF AddCandidate
      <3>2. \A d \in Campaigns \ {c} : candidate'[d] = candidate[d]
        BY <2>2 DEF AddCandidate, RoundInv, RosterTables
      <3>. QED  BY <2>0, <3>1, <3>2, OpenRowStands
    <2>3. CASE PublishCampaign(c)
      <3>1. PICK status : campaign' = [campaign EXCEPT ![c] = [campaign[c] EXCEPT !.status = status]]
        BY <2>3 DEF PublishCampaign
      <3>2. campaign[c].status = "draft" /\ UNCHANGED <<ballot, candidate, period, result>>
        BY <2>3 DEF PublishCampaign
      <3>. QED  BY <2>0, <3>1, <3>2, StatusStands
    <2>. QED  BY <1>5, <2>1, <2>2, <2>3 DEF DraftStep
  <1>6. ASSUME UNCHANGED <<campaign, candidate, ballot, result, period>>
        PROVE  ResultInv' /\ ResultsStand
    BY <1>6, UnbegunAsRows DEF ResultInv, ResultsStand
  <1>7. ASSUME NEW s \in Spots, WithdrawSpot(s)
        PROVE  ResultInv' /\ ResultsStand
    BY <1>6, <1>7 DEF WithdrawSpot
  <1>8. CASE ElectionClock
    BY <1>6, <1>8 DEF ElectionClock
  <1>9. ASSUME NEW t, ReconcileSchedule(t)
        PROVE  ResultInv' /\ ResultsStand
    BY <1>9, ReconcileStands
  <1>. QED  BY <1>1, <1>2, <1>3, <1>4, <1>5, <1>7, <1>8, <1>9 DEF ElectionNext

LEMMA ResultsAtFirst ==
  ASSUME ElectionInit
  PROVE  ResultInv
  <1>1. \A c \in Campaigns : ~result[c].done
    BY DEF ElectionInit, NoResult
  <1>2. \A w \in Weeks : campaign[w].status = "none"
    BY DEF ElectionInit, Campaigns
  <1>. QED  BY <1>1, <1>2, UnbegunAsRows DEF ResultInv

\* A round with ballots is never cancelled by the scheduler's recheck, however late
\* its clock, and once a round has a result neither its votes, its candidates nor its
\* row change.
THEOREM RoundsRun == ElectionSpec => RoundWithBallotsRuns
  <1>1. ElectionInit => RoundInv /\ BallotInv /\ ResultInv
    BY RoundsAtFirst, BallotsAtFirst, ResultsAtFirst
  <1>2. RoundInv /\ BallotInv /\ ResultInv /\ [ElectionNext]_electionVars
          => (RoundInv /\ BallotInv /\ ResultInv)' /\ [ResultsStand]_electionVars
    <2>1. ASSUME UNCHANGED electionVars, RoundInv, BallotInv, ResultInv
          PROVE  (RoundInv /\ BallotInv /\ ResultInv)'
      <3>1. UNCHANGED roundVars /\ UNCHANGED <<ballot, purse, sink, civicXp>>
        BY <2>1 DEF electionVars, roundVars
      <3>2. ResultInv'
        BY <2>1, UnbegunAsRows DEF ResultInv, electionVars
      <3>. QED  BY <2>1, <3>1, <3>2, RoundsUntouched, BallotsUntouched
    <2>. QED  BY <2>1, ElectionStepKeeps, ElectionStepStands
  <1>3. [][ResultsStand]_electionVars => RoundWithBallotsRuns
    BY PTL DEF RoundWithBallotsRuns, ResultsStand
  <1>. QED  BY <1>1, <1>2, <1>3, PTL DEF ElectionSpec

-----------------------------------------------------------------------------
(* The points ledger: its books *)

\* A traveler's points in the users table and the snapshot, and the ledger.
UserBooks ==
  \A u \in Users : /\ balance[u] = Opening[u] * Unit + ledger[u]
                   /\ points[u] = balance[u] \div Unit

\* Every pot of the snapshot and of points_accounts.
PotBooks ==
  /\ \A a \in PointAccounts : ledger[a] = account[a] * Unit
  /\ ledger["burn"] = totals.burned /\ ledger["community_treasury"] = totals.treasury
  /\ ledger["governance_fee"] = 0
  /\ totals.issued = OpeningTotal - ledger["reward_issuance"]

\* The fees and the bond a proposal holds.
BondsHeld == {p \in Proposals : proposal[p].bond = "locked"}
ProposalBooks ==
  /\ \A p \in Proposals : ledger[p] = proposal[p].escrow + proposal[p].feedbackEscrow
  /\ ledger["bond_escrow"] = Bond * Cardinality(BondsHeld)

\* What a proposal may hold at its stage: nothing before it is screened nor after
\* it ended, its bond in between, and no fees for feedback while it is voted on.
Unscreened == {"none", "draft", "screening"}
Fits(row) ==
  /\ row.state \in Unscreened \cup Ended => row.escrow = 0 /\ row.feedbackEscrow = 0
  /\ row.bond = "locked" <=> row.state \notin Unscreened \cup Ended
  /\ row.state = "voting" => row.feedbackEscrow = 0

LedgerInv ==
  /\ LedgerTypeOK /\ day \in Nat
  /\ UserBooks /\ PotBooks /\ ProposalBooks
  /\ \A p \in Proposals : Fits(proposal[p])

MoneyTypes ==
  /\ points \in [Users -> Nat] /\ balance \in [Users -> Nat]
  /\ ledger \in [Accounts -> Int] /\ account \in [PointAccounts -> Int]
  /\ totals \in [burned : Nat, treasury : Nat, issued : Nat]

TableTypes ==
  /\ proposal \in [Proposals -> ProposalRow]
  /\ approved \subseteq Users \X (Quests \cup Proposals) /\ redeemed \subseteq Users
  /\ credit \in [Credits -> CreditRow] /\ day \in Nat

LEMMA LedgerTypesSplit == LedgerTypeOK /\ day \in Nat <=> MoneyTypes /\ TableTypes
  BY DEF LedgerTypeOK, MoneyTypes, TableTypes

LEMMA NamesDiffer ==
  /\ \A u \in Users : /\ u \in Accounts /\ u \notin Proposals
                      /\ u \notin PointAccounts /\ u \notin FixedAccounts
  /\ \A p \in Proposals : /\ p \in Accounts /\ p \notin Users
                          /\ p \notin PointAccounts /\ p \notin FixedAccounts
  /\ PointAccounts \subseteq Accounts /\ FixedAccounts \subseteq Accounts
  /\ PointAccounts \cap FixedAccounts = {}
  BY IdsAreNoNames DEF Accounts, PointAccounts, FixedAccounts

-----------------------------------------------------------------------------
(* The points ledger: whole points and thousandths *)

LEMMA DivMod ==
  ASSUME NEW b \in Int, NEW u \in Nat \ {0}
  PROVE  b = (b \div u) * u + (b % u) /\ b % u \in 0..(u - 1) /\ b \div u \in Int
  OBVIOUS

LEMMA DivUnique ==
  ASSUME NEW b \in Int, NEW u \in Nat \ {0}, NEW q \in Int, NEW r \in 0..(u - 1), b = q * u + r
  PROVE  b \div u = q /\ b % u = r
  OBVIOUS

\* Whole points added to a balance are added to its whole part.
LEMMA DivShift ==
  ASSUME NEW b \in Int, NEW d \in Int, NEW u \in Nat \ {0}
  PROVE  /\ (b + d * u) \div u = (b \div u) + d
         /\ ((b \div u) + d) * u + (b % u) = b + d * u
  <1>1. PICK q \in Int, r \in 0..(u - 1) : q = b \div u /\ r = b % u /\ b = q * u + r
    BY DivMod
  <1>2. (q + d) * u = q * u + d * u
    OBVIOUS
  <1>3. PICK c \in Int : c = b + d * u
    OBVIOUS
  <1>4. c = (q + d) * u + r
    BY <1>1, <1>2, <1>3
  <1>5. c \div u = q + d
    BY <1>4, DivUnique
  <1>. QED  BY <1>1, <1>3, <1>4, <1>5

\* What a command starts from is what the snapshot holds.
LEMMA CurrentIsBalance ==
  ASSUME MoneyTypes, UserBooks
  PROVE  Current = balance
  <1>1. ASSUME NEW u \in Users
        PROVE  Authoritative(points[u], balance[u]) = balance[u]
    <2>1. PICK b \in Nat : b = balance[u]
      BY DEF MoneyTypes
    <2>2. b = (b \div Unit) * Unit + (b % Unit)
      BY DivMod, UnitIsPositive
    <2>. QED  BY <2>1, <2>2 DEF UserBooks, Authoritative
  <1>. QED  BY <1>1 DEF Current, MoneyTypes

\* Writing back balances that are not negative.
LEMMA SetBalancesKeeps ==
  ASSUME NEW b \in [Users -> Nat], SetBalances(b)
  PROVE  /\ balance' = b /\ balance' \in [Users -> Nat] /\ points' \in [Users -> Nat]
         /\ \A u \in Users : points'[u] = balance'[u] \div Unit
  <1>1. \A u \in Users : b[u] \div Unit \in Nat
    <2>1. \A n \in Nat, k \in Nat \ {0} : n \div k \in Nat
      OBVIOUS
    <2>. QED  BY <2>1, UnitIsPositive
  <1>. QED  BY <1>1 DEF SetBalances

-----------------------------------------------------------------------------
(* The points ledger: entries *)

LEMMA TransferType ==
  ASSUME NEW from, NEW to, NEW n \in Int
  PROVE  Transfer(from, to, n) \in [Accounts -> Int]
  BY DEF Transfer

LEMMA PostedBySum ==
  ASSUME NEW groups, NEW a \in Accounts
  PROVE  Posted(groups)[a] =
           ledger[a] + SumFunctionOnSet([g \in groups |-> g[2][a]], groups)
  BY ZenonT(40) DEF Posted, MapThenSumSet, MapThenFoldSet, SumFunctionOnSet, FoldFunctionOnSet

LEMMA PostedOne ==
  ASSUME NEW l, NEW t \in [Accounts -> Int], NEW a \in Accounts
  PROVE  Posted({<<l, t>>})[a] = ledger[a] + t[a]
  <1>1. PICK x, w : x = <<l, t>> /\ w = [g \in {x} |-> g[2][a]]
    OBVIOUS
  <1>2. w[x] = t[a] /\ t[a] \in Int
    BY <1>1
  <1>3. SumFunctionOnSet(w, {x}) = w[x]
    BY <1>2, SumOfOne
  <1>. QED  BY <1>1, <1>2, <1>3, PostedBySum

PostsTwo(k, s, l, t) == ledger' = Posted({<<k, s>>, <<l, t>>})

LEMMA EntriesOfTwo ==
  ASSUME NEW k, NEW l, k # l, NEW s \in [Accounts -> Int], NEW t \in [Accounts -> Int],
         PostsTwo(k, s, l, t)
  PROVE  \A a \in Accounts : ledger'[a] = ledger[a] + (s[a] + t[a])
  <1>. SUFFICES ASSUME NEW a \in Accounts PROVE ledger'[a] = ledger[a] + (s[a] + t[a])
    OBVIOUS
  <1>1. PICK x, y : x = <<k, s>> /\ y = <<l, t>>
    OBVIOUS
  <1>2. x # y
    BY <1>1
  <1>3. PICK all, w : all = {x, y} /\ w = [g \in all |-> g[2][a]]
    OBVIOUS
  <1>4. w[x] = s[a] /\ w[y] = t[a] /\ s[a] \in Int /\ t[a] \in Int
    BY <1>1, <1>3
  <1>5. SumFunctionOnSet(w, all) = w[x] + w[y]
    BY <1>2, <1>3, <1>4, SumOfTwo
  <1>6. ledger' = Posted(all)
    BY <1>1, <1>3 DEF PostsTwo
  <1>. QED  BY <1>3, <1>4, <1>5, <1>6, PostedBySum

PostsThree(j, r, k, s, l, t) == ledger' = Posted({<<j, r>>, <<k, s>>, <<l, t>>})

LEMMA EntriesOfThree ==
  ASSUME NEW j, NEW k, NEW l, j # k, k # l, j # l, NEW r \in [Accounts -> Int],
         NEW s \in [Accounts -> Int], NEW t \in [Accounts -> Int], PostsThree(j, r, k, s, l, t)
  PROVE  \A a \in Accounts : ledger'[a] = ledger[a] + (r[a] + s[a] + t[a])
  <1>. SUFFICES ASSUME NEW a \in Accounts PROVE ledger'[a] = ledger[a] + (r[a] + s[a] + t[a])
    OBVIOUS
  <1>1. PICK x, y, z : x = <<j, r>> /\ y = <<k, s>> /\ z = <<l, t>>
    OBVIOUS
  <1>2. x # y /\ y # z /\ x # z
    BY <1>1
  <1>3. PICK all, w : all = {x, y, z} /\ w = [g \in all |-> g[2][a]]
    OBVIOUS
  <1>4. /\ w[x] = r[a] /\ w[y] = s[a] /\ w[z] = t[a]
        /\ r[a] \in Int /\ s[a] \in Int /\ t[a] \in Int
    BY <1>1, <1>3
  <1>5. SumFunctionOnSet(w, all) = w[x] + w[y] + w[z]
    <2>1. IsTriple(all, x, y, z)
      BY <1>2, <1>3 DEF IsTriple
    <2>. QED  BY <1>4, <2>1, SumOfThree
  <1>6. ledger' = Posted(all)
    BY <1>1, <1>3 DEF PostsThree
  <1>. QED  BY <1>3, <1>4, <1>5, <1>6, PostedBySum

LEMMA PostedType ==
  ASSUME NEW groups, ledger' = Posted(groups), \A a \in Accounts : ledger'[a] \in Int
  PROVE  ledger' \in [Accounts -> Int]
  BY DEF Posted

\* What a transfer adds to an account.
Entry(from, to, n, a) == (IF a = to THEN n ELSE 0) - (IF a = from THEN n ELSE 0)

Posts(l, from, to, n) == ledger' = Posted({<<l, Transfer(from, to, n)>>})

Entered(from, to, n) ==
  /\ ledger' \in [Accounts -> Int]
  /\ \A a \in Accounts : ledger'[a] = ledger[a] + Entry(from, to, n, a)

LEMMA EntriesOfTransfer ==
  ASSUME MoneyTypes, NEW l, NEW from, NEW to, NEW n \in Int, Posts(l, from, to, n)
  PROVE  Entered(from, to, n)
  <1>1. PICK t \in [Accounts -> Int] : t = Transfer(from, to, n)
    BY TransferType
  <1>2. \A a \in Accounts : ledger'[a] = ledger[a] + t[a]
    BY <1>1, PostedOne DEF Posts
  <1>3. \A a \in Accounts : t[a] = Entry(from, to, n, a)
    BY <1>1 DEF Transfer, Entry
  <1>4. \A a \in Accounts : ledger[a] \in Int /\ t[a] \in Int
    BY DEF MoneyTypes
  <1>5. ASSUME NEW a \in Accounts PROVE ledger'[a] \in Int
    <2>1. PICK x \in Int, y \in Int : x = ledger[a] /\ y = t[a]
      BY <1>4
    <2>2. ledger'[a] = x + y
      BY <1>2, <2>1
    <2>. QED  BY <2>2
  <1>. QED  BY <1>2, <1>3, <1>5, PostedType DEF Entered, Posts

-----------------------------------------------------------------------------
(* The points ledger: steps that move whole points *)

LEMMA WholePoints ==
  ASSUME NEW n \in Nat
  PROVE  /\ n * Unit \in Nat /\ (0 - n) * Unit = 0 - n * Unit /\ 0 * Unit = 0
         /\ \A k, d \in Int : (k + d) * Unit = k * Unit + d * Unit
  BY UnitIsPositive

LEMMA OpeningIsNat ==
  OpeningTotal \in Nat /\ \A u \in Users : Opening[u] \in Nat /\ Opening[u] * Unit \in Nat
  <1>1. \A u \in Users : Opening[u] \in Nat
    BY LedgerNumbers
  <1>2. \A u \in Users : Opening[u] * Unit \in Nat
    BY <1>1, WholePoints
  <1>3. PICK w : w = [u \in Users |-> Opening[u] * Unit]
    OBVIOUS
  <1>4. \A u \in Users : w[u] \in Nat
    BY <1>2, <1>3
  <1>5. OpeningTotal \in Nat
    BY <1>3, <1>4, SumIsNat, ActorsAreFinite DEF OpeningTotal
  <1>. QED  BY <1>1, <1>2, <1>5

\* A traveler gains or loses whole points, in the three places.
LEMMA PointsChange ==
  ASSUME MoneyTypes, UserBooks, NEW u \in Users, NEW d \in Int, points[u] + d >= 0,
         points'[u] = points[u] + d, balance'[u] = balance[u] + d * Unit,
         ledger'[u] = ledger[u] + d * Unit
  PROVE  /\ points'[u] \in Nat /\ balance'[u] \in Nat
         /\ balance'[u] = Opening[u] * Unit + ledger'[u]
         /\ points'[u] = balance'[u] \div Unit
  <1>1. PICK b \in Nat, k \in Nat : b = balance[u] /\ k = points[u] /\ k = b \div Unit
    BY DEF MoneyTypes, UserBooks
  <1>2. /\ (b + d * Unit) \div Unit = k + d
        /\ (k + d) * Unit + (b % Unit) = b + d * Unit
    <2>1. PICK s \in Nat \ {0} : s = Unit
      BY UnitIsPositive
    <2>2. /\ (b + d * s) \div s = (b \div s) + d
          /\ ((b \div s) + d) * s + (b % s) = b + d * s
      <3>1. b \in Int
        OBVIOUS
      <3>. QED  BY <3>1, DivShift, Zenon
    <2>. QED  BY <1>1, <2>1, <2>2
  <1>3. PICK j \in Nat : j = k + d
    BY <1>1
  <1>4. (k + d) * Unit \in Nat /\ b % Unit \in Nat
    <2>1. j * Unit \in Nat
      BY WholePoints
    <2>2. PICK s \in Nat \ {0} : s = Unit
      BY UnitIsPositive
    <2>3. b % s \in 0..(s - 1)
      BY DivMod
    <2>. QED  BY <1>3, <2>1, <2>2, <2>3
  <1>5. PICK e \in Int : e = d * Unit
    BY UnitIsPositive
  <1>6. b + e \in Nat
    BY <1>2, <1>4, <1>5
  <1>7. Opening[u] * Unit \in Nat /\ ledger[u] \in Int /\ b = Opening[u] * Unit + ledger[u]
    BY <1>1, OpeningIsNat, NamesDiffer DEF MoneyTypes, UserBooks
  <1>. QED  BY <1>1, <1>2, <1>3, <1>5, <1>6, <1>7

Movers == Users \cup PointAccounts

LEMMA MoveKeeps ==
  ASSUME LedgerInv, NEW from \in Movers, NEW to \in Movers, from # to, NEW n \in Nat,
         MovePoints(from, to, n), UNCHANGED <<totals, proposal>>
  PROVE  MoneyTypes' /\ UserBooks' /\ PotBooks' /\ ProposalBooks'
  <1>. DEFINE d(a) == (IF a = to THEN n ELSE 0) - (IF a = from THEN n ELSE 0)
  <1>1. MoneyTypes /\ UserBooks /\ PotBooks /\ ProposalBooks
    BY LedgerTypesSplit DEF LedgerInv
  <1>2. PICK m \in Nat : m = n * Unit
    BY WholePoints
  <1>3. \A a \in Accounts : d(a) * Unit = (IF a = to THEN m ELSE 0) - (IF a = from THEN m ELSE 0)
    <2>1. ASSUME NEW a \in Accounts
          PROVE  d(a) * Unit = (IF a = to THEN m ELSE 0) - (IF a = from THEN m ELSE 0)
      <3>1. CASE a = to
        <4>1. d(a) = n
          BY <3>1
        <4>. HIDE DEF d
        <4>. QED  BY <1>2, <3>1, <4>1
      <3>2. CASE a = from
        <4>1. d(a) = 0 - n
          BY <3>2
        <4>. HIDE DEF d
        <4>. QED  BY <1>2, <3>2, <4>1, WholePoints
      <3>3. CASE a # from /\ a # to
        <4>1. d(a) = 0
          BY <3>3
        <4>. HIDE DEF d
        <4>. QED  BY <1>2, <3>3, <4>1, WholePoints
      <3>. QED  BY <3>1, <3>2, <3>3
    <2>. QED  BY <2>1
  <1>4. /\ ledger' \in [Accounts -> Int]
        /\ \A a \in Accounts : ledger'[a] = ledger[a] + d(a) * Unit
    <2>1. Posts("move", from, to, m)
      BY <1>2 DEF MovePoints, Posts
    <2>2. \A a \in Accounts : ledger[a] \in Int
      BY <1>1 DEF MoneyTypes
    <2>3. Entered(from, to, m)
      BY <1>1, <2>1, EntriesOfTransfer
    <2>4. ASSUME NEW a \in Accounts PROVE ledger'[a] = ledger[a] + d(a) * Unit
      <3>1. Entry(from, to, m, a) = d(a) * Unit
        BY <1>3 DEF Entry
      <3>. HIDE DEF d
      <3>. QED  BY <2>3, <3>1 DEF Entered
    <2>. QED  BY <2>3, <2>4 DEF Entered
  <1>5. ASSUME NEW u \in Users
        PROVE  /\ points'[u] \in Nat /\ balance'[u] \in Nat
               /\ balance'[u] = Opening[u] * Unit + ledger'[u]
               /\ points'[u] = balance'[u] \div Unit
    <2>1. points'[u] = points[u] + d(u) /\ balance'[u] = balance[u] + d(u) * Unit
      BY DEF MovePoints
    <2>2. d(u) \in Int /\ points[u] + d(u) >= 0
      BY <1>1 DEF MovePoints, CanMove, MoneyTypes
    <2>3. ledger'[u] = ledger[u] + d(u) * Unit
      BY <1>4, NamesDiffer
    <2>. HIDE DEF d
    <2>. QED  BY <1>1, <2>1, <2>2, <2>3, PointsChange
  <1>6. UserBooks' /\ points' \in [Users -> Nat] /\ balance' \in [Users -> Nat]
    BY <1>5 DEF UserBooks, MovePoints
  <1>7. ASSUME NEW a \in PointAccounts
        PROVE  account'[a] \in Int /\ ledger'[a] = account'[a] * Unit
    <2>1. PICK k \in Int : k = account[a]
      BY <1>1 DEF MoneyTypes
    <2>2. account'[a] = k + d(a)
      BY <2>1 DEF MovePoints, Moved
    <2>3. ledger'[a] = k * Unit + d(a) * Unit
      BY <1>1, <1>4, <2>1, NamesDiffer DEF PotBooks
    <2>4. (k + d(a)) * Unit = k * Unit + d(a) * Unit
      <3>1. PICK e \in Int : e = d(a)
        OBVIOUS
      <3>. HIDE DEF d
      <3>. QED  BY <3>1, WholePoints
    <2>. QED  BY <2>2, <2>3, <2>4
  <1>8. account' \in [PointAccounts -> Int]
    BY <1>7 DEF MovePoints, Moved
  <1>9. \A a \in Proposals \cup FixedAccounts : ledger'[a] = ledger[a]
    <2>1. \A a \in Proposals \cup FixedAccounts : a \in Accounts /\ a # from /\ a # to
      BY NamesDiffer DEF Movers
    <2>2. ASSUME NEW a \in Proposals \cup FixedAccounts PROVE ledger'[a] = ledger[a]
      <3>1. d(a) = 0 /\ a \in Accounts
        BY <2>1
      <3>2. ledger[a] \in Int
        BY <1>1, <3>1 DEF MoneyTypes
      <3>. HIDE DEF d
      <3>3. ledger'[a] = ledger[a] + d(a) * Unit
        BY <1>4, <3>1
      <3>4. d(a) * Unit = 0
        BY <3>1, WholePoints
      <3>. QED  BY <3>2, <3>3, <3>4
    <2>. QED  BY <2>2
  <1>10. PotBooks'
    BY <1>1, <1>7, <1>9 DEF PotBooks, FixedAccounts
  <1>11. ProposalBooks'
    BY <1>1, <1>9 DEF ProposalBooks, BondsHeld, FixedAccounts
  <1>12. MoneyTypes'
    BY <1>1, <1>4, <1>6, <1>8 DEF MoneyTypes
  <1>. QED  BY <1>6, <1>10, <1>11, <1>12

-----------------------------------------------------------------------------
(* The points ledger: commands that move no points *)

LEMMA InvParts ==
  ASSUME LedgerInv
  PROVE  /\ MoneyTypes /\ TableTypes /\ UserBooks /\ PotBooks /\ ProposalBooks
         /\ \A p \in Proposals : proposal[p] \in ProposalRow /\ Fits(proposal[p])
  BY LedgerTypesSplit DEF LedgerInv, TableTypes

LEMMA InvFromParts ==
  ASSUME MoneyTypes', TableTypes', UserBooks', PotBooks', ProposalBooks',
         \A p \in Proposals : Fits(proposal'[p])
  PROVE  LedgerInv'
  BY DEF LedgerInv, LedgerTypeOK, MoneyTypes, TableTypes

LEMMA RowTypes ==
  \A row \in ProposalRow :
    /\ row.organizer \in Users /\ row.shares \in ShareSets
    /\ row.escrow \in Nat /\ row.feedbackEscrow \in Nat /\ row.quorum \in Nat
    /\ row.yes \subseteq Users /\ row.no \subseteq Users /\ row.eligible \subseteq Users
    /\ row.approve \subseteq Users /\ row.disapprove \subseteq Users
  BY DEF ProposalRow

\* One row changes, to one that fits.
LEMMA OneRow ==
  ASSUME LedgerInv, NEW p \in Proposals, NEW row \in ProposalRow, Fits(row), SetProposal(p, row)
  PROVE  /\ proposal' \in [Proposals -> ProposalRow] /\ proposal'[p] = row
         /\ \A q \in Proposals : q # p => proposal'[q] = proposal[q]
         /\ \A q \in Proposals : Fits(proposal'[q])
  <1>1. proposal \in [Proposals -> ProposalRow] /\ \A q \in Proposals : Fits(proposal[q])
    BY InvParts DEF TableTypes
  <1>2. /\ proposal' \in [Proposals -> ProposalRow] /\ proposal'[p] = row
        /\ \A q \in Proposals : q # p => proposal'[q] = proposal[q]
    BY <1>1 DEF SetProposal
  <1>. QED  BY <1>1, <1>2

LEMMA QuietStep ==
  ASSUME LedgerInv, NEW p \in Proposals, NEW row \in ProposalRow, Fits(row), SetProposal(p, row),
         row.escrow + row.feedbackEscrow = proposal[p].escrow + proposal[p].feedbackEscrow,
         row.bond = "locked" <=> proposal[p].bond = "locked",
         UNCHANGED <<money, account, approved, redeemed, credit, day>>
  PROVE  LedgerInv'
  <1>1. /\ MoneyTypes /\ TableTypes /\ UserBooks /\ PotBooks /\ ProposalBooks
    BY InvParts
  <1>2. /\ proposal' \in [Proposals -> ProposalRow] /\ proposal'[p] = row
        /\ \A q \in Proposals : q # p => proposal'[q] = proposal[q]
        /\ \A q \in Proposals : Fits(proposal'[q])
    BY OneRow
  <1>3. UNCHANGED <<points, balance, ledger, totals, account>>
    BY DEF money
  <1>4. MoneyTypes' /\ UserBooks' /\ PotBooks'
    BY <1>1, <1>3 DEF MoneyTypes, UserBooks, PotBooks
  <1>5. BondsHeld' = BondsHeld
    BY <1>2 DEF BondsHeld
  <1>6. ProposalBooks'
    BY <1>1, <1>2, <1>3, <1>5 DEF ProposalBooks
  <1>7. TableTypes'
    BY <1>1, <1>2 DEF TableTypes
  <1>. QED  BY <1>2, <1>4, <1>6, <1>7, InvFromParts

LEMMA BalancesStay ==
  ASSUME LedgerInv, SetBalances(Current)
  PROVE  UNCHANGED <<points, balance>>
  <1>1. MoneyTypes /\ UserBooks /\ Current = balance
    BY InvParts, CurrentIsBalance
  <1>2. balance' = balance
    BY <1>1 DEF SetBalances
  <1>3. points' = [u \in Users |-> balance[u] \div Unit]
    BY <1>1 DEF SetBalances
  <1>4. points = [u \in Users |-> points[u]]
    BY <1>1 DEF MoneyTypes
  <1>. QED  BY <1>1, <1>2, <1>3, <1>4 DEF UserBooks

LEMMA QuietCommand ==
  ASSUME LedgerInv, NoTransfer
  PROVE  UNCHANGED <<money, account, approved, redeemed, credit, day>>
  BY BalancesStay DEF NoTransfer, money, rest

LEMMA QuorumIsNat == \A n \in Nat : Quorum(n) \in Nat
  BY DEF Quorum

LEMMA CountIsNat == \A s \in SUBSET Users : Cardinality(s) \in Nat /\ Quorum(Cardinality(s)) \in Nat
  <1>. SUFFICES ASSUME NEW s \in SUBSET Users
                PROVE  Cardinality(s) \in Nat /\ Quorum(Cardinality(s)) \in Nat
    OBVIOUS
  <1>1. IsFiniteSet(s)
    BY ActorsAreFinite, FS_Subset
  <1>2. Cardinality(s) \in Nat
    BY <1>1, FS_CardinalityType
  <1>. QED  BY <1>2, QuorumIsNat

LEMMA NoProposalIsRow ==
  /\ NoProposal \in ProposalRow /\ NoProposal.bond = "not_locked"
  /\ NoProposal.escrow = 0 /\ NoProposal.feedbackEscrow = 0 /\ NoProposal.state = "none"
  BY LedgerNumbers DEF NoProposal, ProposalRow

LEMMA CreateKeeps ==
  ASSUME LedgerInv, NEW p \in Proposals, NEW u \in Users, NEW shares \in ShareSets,
         CreateProposal(p, u, shares)
  PROVE  LedgerInv'
  <1>1. PICK row : row = [NoProposal EXCEPT !.state = "draft", !.organizer = u, !.shares = shares]
    OBVIOUS
  <1>2. /\ row \in ProposalRow /\ row.state = "draft" /\ row.bond = "not_locked"
        /\ row.escrow = 0 /\ row.feedbackEscrow = 0
    BY <1>1, NoProposalIsRow DEF ProposalRow
  <1>3. Fits(row)
    BY <1>2 DEF Fits, Unscreened
  <1>4. /\ proposal[p].escrow = 0 /\ proposal[p].feedbackEscrow = 0 /\ proposal[p].bond # "locked"
    BY InvParts DEF CreateProposal, Fits, Unscreened
  <1>. QED  BY <1>1, <1>2, <1>3, <1>4, QuietCommand, QuietStep DEF CreateProposal

\* The columns a command changes that only takes a proposal to another stage.
Staged(old, s, open, quorum) == [old EXCEPT !.state = s, !.open = open, !.quorum = quorum]

QuietStages == {"screening", "rejected", "approved", "scheduled", "active", "feedback",
                "disputed", "payout_pending"}

LEMMA StageRow ==
  ASSUME NEW old \in ProposalRow, NEW s \in QuietStages, NEW open \in BOOLEAN, NEW quorum \in Nat
  PROVE  /\ Staged(old, s, open, quorum) \in ProposalRow
         /\ Staged(old, s, open, quorum).state = s
         /\ Staged(old, s, open, quorum).bond = old.bond
         /\ Staged(old, s, open, quorum).escrow = old.escrow
         /\ Staged(old, s, open, quorum).feedbackEscrow = old.feedbackEscrow
  BY DEF ProposalRow, Ended, Staged, QuietStages

\* It holds what it held, if it held its bond before as it has to after.
LEMMA StageKeeps ==
  ASSUME LedgerInv, NEW p \in Proposals, NEW s \in QuietStages, NEW open \in BOOLEAN,
         NEW quorum \in Nat, SetProposal(p, Staged(proposal[p], s, open, quorum)),
         proposal[p].state \in Unscreened \cup Ended <=> s \in Unscreened \cup Ended,
         UNCHANGED <<money, account, approved, redeemed, credit, day>>
  PROVE  LedgerInv'
  <1>1. proposal[p] \in ProposalRow /\ Fits(proposal[p])
    BY InvParts
  <1>2. PICK old, row : old = proposal[p] /\ row = Staged(old, s, open, quorum)
    OBVIOUS
  <1>3. /\ row \in ProposalRow /\ row.state = s /\ row.bond = old.bond
        /\ row.escrow = old.escrow /\ row.feedbackEscrow = old.feedbackEscrow
    BY <1>1, <1>2, StageRow
  <1>4. Fits(row)
    BY <1>1, <1>2, <1>3 DEF Fits, QuietStages
  <1>5. SetProposal(p, row)
    BY <1>2
  <1>. QED  BY <1>2, <1>3, <1>4, <1>5, QuietStep

LEMMA SubmitKeeps ==
  ASSUME LedgerInv, NEW p \in Proposals, SubmitProposal(p) \/ ScreenReject(p)
  PROVE  LedgerInv'
  <1>1. proposal[p] \in ProposalRow
    BY InvParts
  <1>2. /\ proposal[p].open \in BOOLEAN /\ proposal[p].quorum \in Nat
        /\ \A s \in QuietStages :
             [proposal[p] EXCEPT !.state = s] = Staged(proposal[p], s, proposal[p].open, proposal[p].quorum)
    BY <1>1 DEF ProposalRow, Staged
  <1>3. PICK s \in {"screening", "rejected"} :
          /\ SetProposal(p, [proposal[p] EXCEPT !.state = s])
          /\ proposal[p].state \in {"draft", "screening"} /\ NoTransfer
    BY DEF SubmitProposal, ScreenReject
  <1>4. s \in QuietStages /\ SetProposal(p, Staged(proposal[p], s, proposal[p].open, proposal[p].quorum))
    BY <1>2, <1>3 DEF QuietStages
  <1>5. /\ s \in Unscreened \cup Ended /\ proposal[p].state \in Unscreened \cup Ended
    BY <1>3 DEF Unscreened, Ended
  <1>. QED  BY <1>2, <1>3, <1>4, <1>5, QuietCommand, StageKeeps

LEMMA TransitionKeeps ==
  ASSUME LedgerInv, NEW p \in Proposals, NEW target, Transition(p, target)
  PROVE  LedgerInv'
  <1>1. proposal[p] \in ProposalRow
    BY InvParts
  <1>2. PICK open \in BOOLEAN : open = (target = "feedback")
    OBVIOUS
  <1>3. PICK quorum \in Nat :
          quorum = IF target = "feedback"
                   THEN Quorum(Cardinality({u \in Users : <<u, p>> \in approved}))
                   ELSE proposal[p].quorum
    <2>1. proposal[p].quorum \in Nat
      BY <1>1, RowTypes
    <2>2. PICK s \in SUBSET Users : s = {u \in Users : <<u, p>> \in approved}
      OBVIOUS
    <2>. QED  BY <2>1, <2>2, CountIsNat
  <1>4. SetProposal(p, Staged(proposal[p], target, open, quorum))
    BY <1>1, <1>2, <1>3 DEF Transition, Staged, ProposalRow
  <1>5. /\ target \in QuietStages /\ target \notin Unscreened \cup Ended
        /\ proposal[p].state \notin Unscreened \cup Ended /\ NoTransfer
    BY DEF Transition, QuietStages, Unscreened, Ended
  <1>. QED  BY <1>4, <1>5, QuietCommand, StageKeeps

LEMMA CloseFeedbackKeeps ==
  ASSUME LedgerInv, NEW p \in Proposals, NEW force, CloseFeedback(p, force)
  PROVE  LedgerInv'
  <1>1. proposal[p] \in ProposalRow /\ proposal[p].quorum \in Nat
    BY InvParts, RowTypes
  <1>2. PICK s \in {"payout_pending", "disputed"} :
          SetProposal(p, [proposal[p] EXCEPT !.state = s, !.open = FALSE])
    BY DEF CloseFeedback
  <1>3. SetProposal(p, Staged(proposal[p], s, FALSE, proposal[p].quorum))
    BY <1>1, <1>2 DEF Staged, ProposalRow
  <1>4. /\ s \in QuietStages /\ s \notin Unscreened \cup Ended
        /\ proposal[p].state \notin Unscreened \cup Ended /\ NoTransfer
    BY <1>2 DEF CloseFeedback, QuietStages, Unscreened, Ended
  <1>. QED  BY <1>1, <1>3, <1>4, QuietCommand, StageKeeps

LEMMA WindowEndsKeeps ==
  ASSUME LedgerInv, NEW p \in Proposals, WindowEnds(p)
  PROVE  LedgerInv'
  <1>1. proposal[p] \in ProposalRow /\ Fits(proposal[p])
    BY InvParts
  <1>2. PICK row : row = [proposal[p] EXCEPT !.open = FALSE]
    OBVIOUS
  <1>3. /\ row \in ProposalRow /\ row.state = proposal[p].state /\ row.bond = proposal[p].bond
        /\ row.escrow = proposal[p].escrow /\ row.feedbackEscrow = proposal[p].feedbackEscrow
    BY <1>1, <1>2 DEF ProposalRow
  <1>4. Fits(row)
    BY <1>1, <1>3 DEF Fits
  <1>. QED  BY <1>2, <1>3, <1>4, QuietStep DEF WindowEnds, rest

\* A vote that passed keeps what it collected.
LEMMA VotePassedKeeps ==
  ASSUME LedgerInv, NEW p \in Proposals, proposal[p].state = "voting",
         SetProposal(p, [proposal[p] EXCEPT !.state = "approved", !.open = FALSE]),
         SetBalances(Current), UNCHANGED <<ledger, totals, rest>>
  PROVE  LedgerInv'
  <1>1. proposal[p] \in ProposalRow /\ proposal[p].quorum \in Nat
    BY InvParts, RowTypes
  <1>2. SetProposal(p, Staged(proposal[p], "approved", FALSE, proposal[p].quorum))
    BY <1>1 DEF Staged, ProposalRow
  <1>3. "approved" \in QuietStages /\ "approved" \notin Unscreened \cup Ended
        /\ proposal[p].state \notin Unscreened \cup Ended /\ NoTransfer
    BY DEF QuietStages, Unscreened, Ended, NoTransfer
  <1>. QED  BY <1>1, <1>2, <1>3, QuietCommand, StageKeeps

LEMMA ControlsKeep ==
  ASSUME LedgerInv, NEW switches, UpdateControls(switches)
  PROVE  LedgerInv'
  <1>1. UNCHANGED <<points, balance, ledger, totals, account, proposal, approved, redeemed, credit, day>>
    BY BalancesStay DEF UpdateControls
  <1>. QED  BY <1>1 DEF LedgerInv, LedgerTypeOK, UserBooks, PotBooks, ProposalBooks, BondsHeld

-----------------------------------------------------------------------------
(* The points ledger: commands that move points *)

HeldBond(row) == IF row.bond = "locked" THEN Bond ELSE 0

\* The entries and totals a command writes account for the balances b and the
\* row of the proposal it writes.
Squares(p, row, b) ==
  /\ ledger' \in [Accounts -> Int] /\ totals' \in [burned : Nat, treasury : Nat, issued : Nat]
  /\ \A u \in Users : b[u] = balance[u] + (ledger'[u] - ledger[u])
  /\ ledger'[p] = row.escrow + row.feedbackEscrow
  /\ \A q \in Proposals : q # p => ledger'[q] = ledger[q]
  /\ ledger'["bond_escrow"] = ledger["bond_escrow"] + HeldBond(row) - HeldBond(proposal[p])
  /\ \A a \in PointAccounts \cup {"governance_fee", "reward_issuance"} : ledger'[a] = ledger[a]
  /\ totals'.issued = totals.issued
  /\ ledger'["burn"] = ledger["burn"] + (totals'.burned - totals.burned)
  /\ ledger'["community_treasury"] =
       ledger["community_treasury"] + (totals'.treasury - totals.treasury)

LEMMA BondsCount ==
  ASSUME LedgerInv, NEW p \in Proposals, NEW row, proposal'[p] = row,
         \A q \in Proposals : q # p => proposal'[q] = proposal[q]
  PROVE  /\ Cardinality(BondsHeld) \in Nat
         /\ Bond * Cardinality(BondsHeld') =
              Bond * Cardinality(BondsHeld) + HeldBond(row) - HeldBond(proposal[p])
  <1>1. IsFiniteSet(BondsHeld)
    BY ActorsAreFinite, FS_Subset DEF BondsHeld
  <1>2. PICK n \in Nat : n = Cardinality(BondsHeld)
    BY <1>1, FS_CardinalityType
  <1>3. PICK s, t : s = BondsHeld /\ t = BondsHeld' /\ IsFiniteSet(s)
    BY <1>1
  <1>4. /\ Bond * (n + 1) = Bond * n + Bond /\ Bond * (n - 1) = Bond * n - Bond /\ Bond * n \in Nat
    BY AmountsAreNat
  <1>5. CASE row.bond = "locked" <=> proposal[p].bond = "locked"
    <2>1. t = s
      BY <1>3, <1>5 DEF BondsHeld
    <2>. QED  BY <1>2, <1>3, <1>4, <1>5, <2>1, AmountsAreNat DEF HeldBond
  <1>6. CASE row.bond = "locked" /\ proposal[p].bond # "locked"
    <2>1. p \notin s /\ t = s \cup {p}
      BY <1>3, <1>6 DEF BondsHeld
    <2>2. Cardinality(t) = n + 1
      BY <1>2, <1>3, <2>1, FS_AddElement
    <2>. QED  BY <1>2, <1>3, <1>4, <1>6, <2>2, AmountsAreNat DEF HeldBond
  <1>7. CASE row.bond # "locked" /\ proposal[p].bond = "locked"
    <2>1. p \in s /\ t = s \ {p}
      BY <1>3, <1>7 DEF BondsHeld
    <2>2. Cardinality(t) = n - 1
      BY <1>2, <1>3, <2>1, FS_RemoveElement
    <2>. QED  BY <1>2, <1>3, <1>4, <1>7, <2>2, AmountsAreNat DEF HeldBond
  <1>. QED  BY <1>5, <1>6, <1>7

LEMMA CommandKeeps ==
  ASSUME LedgerInv, NEW p \in Proposals, NEW row \in ProposalRow, NEW b \in [Users -> Nat],
         Fits(row), SetProposal(p, row), SetBalances(b), Squares(p, row, b), UNCHANGED rest
  PROVE  LedgerInv'
  <1>1. /\ MoneyTypes /\ TableTypes /\ UserBooks /\ PotBooks /\ ProposalBooks
    BY InvParts
  <1>2. /\ proposal' \in [Proposals -> ProposalRow] /\ proposal'[p] = row
        /\ \A q \in Proposals : q # p => proposal'[q] = proposal[q]
        /\ \A q \in Proposals : Fits(proposal'[q])
    BY OneRow
  <1>3. /\ balance' = b /\ balance' \in [Users -> Nat] /\ points' \in [Users -> Nat]
        /\ \A u \in Users : points'[u] = balance'[u] \div Unit
    BY SetBalancesKeeps
  <1>4. UNCHANGED <<account, approved, redeemed, credit, day>>
    BY DEF rest
  <1>5. MoneyTypes'
    BY <1>1, <1>3, <1>4 DEF MoneyTypes, Squares
  <1>6. TableTypes'
    BY <1>1, <1>2, <1>4 DEF TableTypes
  <1>7. UserBooks'
    <2>1. ASSUME NEW u \in Users
          PROVE  balance'[u] = Opening[u] * Unit + ledger'[u]
      <3>1. PICK o \in Nat : o = Opening[u] * Unit
        BY OpeningIsNat
      <3>2. ledger[u] \in Int /\ ledger'[u] \in Int /\ balance[u] = o + ledger[u]
        BY <1>1, <1>5, <3>1, NamesDiffer DEF MoneyTypes, UserBooks
      <3>3. balance'[u] = balance[u] + (ledger'[u] - ledger[u])
        BY <1>3 DEF Squares
      <3>. QED  BY <3>1, <3>2, <3>3
    <2>. QED  BY <1>3, <2>1 DEF UserBooks
  <1>8. PotBooks'
    <2>1. \A a \in PointAccounts : ledger'[a] = account'[a] * Unit
      BY <1>1, <1>4 DEF PotBooks, Squares
    <2>2. /\ totals'.burned \in Nat /\ totals.burned \in Nat
          /\ totals'.treasury \in Nat /\ totals.treasury \in Nat
      BY <1>1, <1>5 DEF MoneyTypes
    <2>3. ledger'["burn"] = totals'.burned /\ ledger'["community_treasury"] = totals'.treasury
      BY <1>1, <2>2 DEF PotBooks, Squares
    <2>4. ledger'["governance_fee"] = 0
      BY <1>1 DEF PotBooks, Squares
    <2>5. totals'.issued = OpeningTotal - ledger'["reward_issuance"]
      BY <1>1 DEF PotBooks, Squares
    <2>. QED  BY <2>1, <2>3, <2>4, <2>5 DEF PotBooks
  <1>9. ProposalBooks'
    <2>1. \A q \in Proposals : ledger'[q] = proposal'[q].escrow + proposal'[q].feedbackEscrow
      BY <1>1, <1>2 DEF ProposalBooks, Squares
    <2>2. ledger'["bond_escrow"] = Bond * Cardinality(BondsHeld')
      BY <1>1, <1>2, BondsCount DEF ProposalBooks, Squares
    <2>. QED  BY <2>1, <2>2 DEF ProposalBooks
  <1>. QED  BY <1>2, <1>5, <1>6, <1>7, <1>8, <1>9, InvFromParts

\* One balance changes, and stays at least 0.
LEMMA OneBalance ==
  ASSUME LedgerInv, NEW u \in Users, NEW n \in Int, balance[u] + n >= 0
  PROVE  LET b == Credited(Current, u, n) IN
         /\ b \in [Users -> Nat] /\ b[u] = balance[u] + n
         /\ \A v \in Users : v # u => b[v] = balance[v]
  <1>1. Current = balance /\ balance \in [Users -> Nat]
    BY InvParts, CurrentIsBalance DEF MoneyTypes
  <1>. QED  BY <1>1 DEF Credited

LEMMA AffordsDebit ==
  ASSUME LedgerInv, NEW u \in Users, NEW n \in Nat, CanDebit(u, n)
  PROVE  balance[u] - n >= 0 /\ balance[u] \in Nat
  BY InvParts, CurrentIsBalance DEF CanDebit, MoneyTypes

LEMMA EntryValues ==
  ASSUME NEW from, NEW to, from # to, NEW n \in Int
  PROVE  /\ Entry(from, to, n, to) = n /\ Entry(from, to, n, from) = 0 - n
         /\ \A a : a # from /\ a # to => Entry(from, to, n, a) = 0
  BY DEF Entry

\* What a single transfer leaves in every account.
LEMMA Transferred ==
  ASSUME MoneyTypes, NEW l, NEW from \in Accounts, NEW to \in Accounts, from # to,
         NEW n \in Int, Posts(l, from, to, n)
  PROVE  /\ ledger' \in [Accounts -> Int]
         /\ ledger'[to] = ledger[to] + n /\ ledger'[from] = ledger[from] - n
         /\ \A a \in Accounts : a # from /\ a # to => ledger'[a] = ledger[a]
  <1>1. Entered(from, to, n)
    BY EntriesOfTransfer
  <1>2. /\ Entry(from, to, n, to) = n /\ Entry(from, to, n, from) = 0 - n
        /\ \A a \in Accounts : a # from /\ a # to => Entry(from, to, n, a) = 0
    BY EntryValues
  <1>3. ledger[to] \in Int /\ ledger[from] \in Int /\ \A a \in Accounts : ledger[a] \in Int
    BY DEF MoneyTypes
  <1>4. ledger'[to] = ledger[to] + n /\ ledger'[from] = ledger[from] - n
    BY <1>1, <1>2, <1>3 DEF Entered
  <1>5. ASSUME NEW a \in Accounts, a # from, a # to PROVE ledger'[a] = ledger[a]
    BY <1>1, <1>2, <1>3, <1>5 DEF Entered
  <1>. QED  BY <1>1, <1>4, <1>5 DEF Entered

LEMMA ScreenApproveKeeps ==
  ASSUME LedgerInv, NEW p \in Proposals, ScreenApprove(p)
  PROVE  LedgerInv'
  <1>1. /\ MoneyTypes /\ proposal[p] \in ProposalRow /\ Fits(proposal[p])
        /\ proposal[p].state = "screening"
    BY InvParts DEF ScreenApprove
  <1>2. PICK u \in Users, old \in ProposalRow : old = proposal[p] /\ u = old.organizer
    BY <1>1, RowTypes
  <1>3. PICK row : row = [old EXCEPT !.state = "voting", !.bond = "locked", !.open = TRUE,
                            !.eligible = Eligible, !.quorum = Quorum(Cardinality(Eligible))]
    OBVIOUS
  <1>4. /\ row \in ProposalRow /\ row.state = "voting" /\ row.bond = "locked"
        /\ row.escrow = old.escrow /\ row.feedbackEscrow = old.feedbackEscrow
    <2>1. Eligible \in SUBSET Users
      BY DEF Eligible
    <2>2. Quorum(Cardinality(Eligible)) \in Nat
      BY <2>1, CountIsNat
    <2>. HIDE DEF Eligible
    <2>. QED  BY <1>1, <1>2, <1>3, <2>1, <2>2 DEF ProposalRow
  <1>5. old.escrow = 0 /\ old.feedbackEscrow = 0 /\ old.bond # "locked"
    BY <1>1, <1>2 DEF Fits, Unscreened
  <1>6. Fits(row)
    BY <1>4, <1>5 DEF Fits, Unscreened, Ended
  <1>7. balance[u] - Bond >= 0 /\ balance[u] \in Nat
    BY <1>2, AmountsAreNat, AffordsDebit DEF ScreenApprove
  <1>8. PICK b : /\ b = Credited(Current, u, -Bond) /\ b \in [Users -> Nat]
                 /\ b[u] = balance[u] - Bond /\ \A v \in Users : v # u => b[v] = balance[v]
    <2>1. PICK n \in Int : n = -Bond /\ balance[u] + n >= 0 /\ balance[u] + n = balance[u] - Bond
      BY <1>7, AmountsAreNat
    <2>. QED  BY <2>1, OneBalance
  <1>9. u \in Accounts /\ "bond_escrow" \in Accounts /\ u # "bond_escrow"
    BY NamesDiffer DEF FixedAccounts
  <1>10. /\ ledger' \in [Accounts -> Int]
         /\ ledger'["bond_escrow"] = ledger["bond_escrow"] + Bond /\ ledger'[u] = ledger[u] - Bond
         /\ \A a \in Accounts : a # u /\ a # "bond_escrow" => ledger'[a] = ledger[a]
    <2>1. Posts("bond", u, "bond_escrow", Bond)
      BY <1>2 DEF ScreenApprove, Posts
    <2>. QED  BY <1>1, <1>9, <2>1, Transferred, AmountsAreNat
  <1>11. Squares(p, row, b)
    <2>1. \A v \in Users : b[v] = balance[v] + (ledger'[v] - ledger[v])
      BY <1>1, <1>7, <1>8, <1>9, <1>10, NamesDiffer, AmountsAreNat DEF MoneyTypes, FixedAccounts
    <2>2. \A a \in Proposals \cup PointAccounts \cup {"governance_fee", "reward_issuance", "burn",
            "community_treasury"} : ledger'[a] = ledger[a] /\ ledger[a] \in Int
      BY <1>1, <1>10, NamesDiffer DEF MoneyTypes, FixedAccounts, PointAccounts
    <2>3. ledger'[p] = row.escrow + row.feedbackEscrow
      BY <1>2, <1>4, <2>2, InvParts DEF ProposalBooks
    <2>4. HeldBond(row) = Bond /\ HeldBond(proposal[p]) = 0
      BY <1>2, <1>4, <1>5 DEF HeldBond
    <2>5. totals' = totals /\ totals \in [burned : Nat, treasury : Nat, issued : Nat]
      BY <1>1 DEF ScreenApprove, MoneyTypes
    <2>6. ledger["bond_escrow"] \in Int
      BY <1>1, <1>9 DEF MoneyTypes
    <2>7. \A q \in Proposals : q # p => ledger'[q] = ledger[q]
      BY <2>2
    <2>8. \A a \in PointAccounts \cup {"governance_fee", "reward_issuance"} : ledger'[a] = ledger[a]
      BY <2>2
    <2>9. /\ totals'.issued = totals.issued
          /\ ledger'["burn"] = ledger["burn"] + (totals'.burned - totals.burned)
          /\ ledger'["community_treasury"] =
               ledger["community_treasury"] + (totals'.treasury - totals.treasury)
      BY <2>2, <2>5
    <2>10. ledger'["bond_escrow"] = ledger["bond_escrow"] + HeldBond(row) - HeldBond(proposal[p])
      BY <1>10, <2>4, <2>6, AmountsAreNat
    <2>. QED  BY <1>10, <2>1, <2>3, <2>5, <2>7, <2>8, <2>9, <2>10 DEF Squares
  <1>. QED  BY <1>2, <1>3, <1>4, <1>6, <1>8, <1>11, CommandKeeps DEF ScreenApprove

LEMMA BurnsPart == \A fee \in Nat : Burn(fee) \in Nat /\ Burn(fee) <= fee
  <1>1. ASSUME NEW fee \in Nat PROVE Burn(fee) \in Nat /\ Burn(fee) <= fee
    <2>1. PICK s \in 0..10000 : s = BurnBps
      BY LedgerNumbers
    <2>2. PICK n \in Nat : n = fee * s
      OBVIOUS
    <2>3. fee * s <= fee * 10000
      OBVIOUS
    <2>4. n <= fee * 10000 => n \div 10000 \in Nat /\ n \div 10000 <= fee
      OBVIOUS
    <2>. QED  BY <2>1, <2>2, <2>3, <2>4 DEF Burn
  <1>. QED  BY <1>1

\* What the three transfers of a fee leave in every account.
LEMMA FeeEntries ==
  ASSUME MoneyTypes, NEW p \in Proposals, NEW u \in Users, NEW fee \in Nat, PayFee(p, u, fee)
  PROVE  /\ ledger' \in [Accounts -> Int]
         /\ ledger'[u] = ledger[u] - fee /\ ledger'["burn"] = ledger["burn"] + Burn(fee)
         /\ ledger'[p] = ledger[p] + (fee - Burn(fee))
         /\ \A a \in Accounts : a \notin {u, p, "burn"} => ledger'[a] = ledger[a]
  <1>1. PICK k \in Nat : k = Burn(fee) /\ k <= fee
    BY BurnsPart
  <1>2. PICK r \in [Accounts -> Int], s \in [Accounts -> Int], t \in [Accounts -> Int] :
          /\ r = Transfer(u, "governance_fee", fee) /\ s = Transfer("governance_fee", "burn", k)
          /\ t = Transfer("governance_fee", p, fee - k)
    <2>1. fee - k \in Int
      OBVIOUS
    <2>. QED  BY <2>1, TransferType
  <1>3. \A a \in Accounts : ledger'[a] = ledger[a] + (r[a] + s[a] + t[a])
    <2>1. ledger' = Posted({<<"debit", r>>, <<"burn", s>>, <<"escrow", t>>})
      BY <1>1, <1>2 DEF PayFee, Escrow
    <2>2. PostsThree("debit", r, "burn", s, "escrow", t)
      BY <2>1 DEF PostsThree
    <2>. QED  BY <2>2, EntriesOfThree
  <1>4. \A a \in Accounts : ledger[a] \in Int
    BY DEF MoneyTypes
  <1>5. ledger' \in [Accounts -> Int]
    <2>1. ASSUME NEW a \in Accounts PROVE ledger'[a] \in Int
      <3>1. PICK x \in Int, y \in Int : x = ledger[a] /\ y = r[a] + s[a] + t[a]
        BY <1>4
      <3>. QED  BY <1>3, <3>1
    <2>. QED  BY <2>1, PostedType DEF PayFee
  <1>6. /\ u \in Accounts /\ p \in Accounts /\ u # p /\ u \notin FixedAccounts /\ p \notin FixedAccounts
        /\ FixedAccounts \subseteq Accounts
    BY NamesDiffer
  <1>7. r[u] + s[u] + t[u] = 0 - fee
    BY <1>2, <1>6 DEF Transfer, FixedAccounts
  <1>8. r[p] + s[p] + t[p] = fee - k
    BY <1>2, <1>6 DEF Transfer, FixedAccounts
  <1>9. r["burn"] + s["burn"] + t["burn"] = k
    BY <1>2, <1>6 DEF Transfer, FixedAccounts
  <1>10. ASSUME NEW a \in Accounts, a \notin {u, p, "burn"}
         PROVE  r[a] + s[a] + t[a] = 0
    BY <1>2, <1>6, <1>10 DEF Transfer, FixedAccounts
  <1>11. "burn" \in Accounts
    BY <1>6 DEF FixedAccounts
  <1>12. ledger'[u] = ledger[u] - fee
    BY <1>3, <1>4, <1>6, <1>7
  <1>13. ledger'["burn"] = ledger["burn"] + k
    BY <1>3, <1>9, <1>11
  <1>14. ledger'[p] = ledger[p] + (fee - k)
    BY <1>3, <1>6, <1>8
  <1>15. ASSUME NEW a \in Accounts, a \notin {u, p, "burn"} PROVE ledger'[a] = ledger[a]
    BY <1>3, <1>4, <1>10, <1>15
  <1>. QED  BY <1>1, <1>5, <1>12, <1>13, <1>14, <1>15

\* A fee is paid, and the row keeps what is not burned of it.
LEMMA FeeKeeps ==
  ASSUME LedgerInv, NEW p \in Proposals, NEW u \in Users, NEW fee \in Nat, PayFee(p, u, fee),
         NEW row \in ProposalRow, Fits(row), SetProposal(p, row), row.bond = proposal[p].bond,
         row.escrow + row.feedbackEscrow =
           proposal[p].escrow + proposal[p].feedbackEscrow + (fee - Burn(fee)),
         UNCHANGED rest
  PROVE  LedgerInv'
  <1>1. /\ MoneyTypes /\ ProposalBooks /\ proposal[p] \in ProposalRow
    BY InvParts
  <1>2. PICK k \in Nat : k = Burn(fee) /\ k <= fee
    BY BurnsPart
  <1>3. /\ ledger' \in [Accounts -> Int]
        /\ ledger'[u] = ledger[u] - fee /\ ledger'["burn"] = ledger["burn"] + k
        /\ ledger'[p] = ledger[p] + (fee - k)
        /\ \A a \in Accounts : a \notin {u, p, "burn"} => ledger'[a] = ledger[a]
    BY <1>1, <1>2, FeeEntries
  <1>4. balance[u] - fee >= 0 /\ balance[u] \in Nat
    BY AffordsDebit DEF PayFee
  <1>5. PICK b : /\ b = Credited(Current, u, -fee) /\ b \in [Users -> Nat]
                 /\ b[u] = balance[u] - fee /\ \A v \in Users : v # u => b[v] = balance[v]
    <2>1. PICK n \in Int : n = -fee /\ balance[u] + n >= 0 /\ balance[u] + n = balance[u] - fee
      BY <1>4
    <2>. QED  BY <2>1, OneBalance
  <1>6. SetBalances(b)
    BY <1>5 DEF PayFee
  <1>7. Squares(p, row, b)
    <2>1. \A v \in Users : b[v] = balance[v] + (ledger'[v] - ledger[v])
      <3>1. \A v \in Users : v \in Accounts /\ v # p /\ v # "burn"
        BY NamesDiffer DEF FixedAccounts
      <3>2. \A v \in Users : ledger[v] \in Int /\ balance[v] \in Nat
        BY <1>1, <3>1 DEF MoneyTypes
      <3>. QED  BY <1>3, <1>4, <1>5, <3>1, <3>2
    <2>2. \A a \in (Proposals \ {p}) \cup PointAccounts \cup {"governance_fee", "reward_issuance",
            "bond_escrow", "community_treasury"} : ledger'[a] = ledger[a] /\ ledger[a] \in Int
      BY <1>1, <1>3, NamesDiffer DEF MoneyTypes, FixedAccounts, PointAccounts
    <2>3. /\ ledger'[p] = row.escrow + row.feedbackEscrow
      BY <1>1, <1>2, <1>3 DEF ProposalBooks
    <2>4. HeldBond(row) = HeldBond(proposal[p]) /\ HeldBond(row) \in Nat
      BY AmountsAreNat DEF HeldBond
    <2>5. /\ totals' = [totals EXCEPT !.burned = @ + k]
          /\ totals \in [burned : Nat, treasury : Nat, issued : Nat]
      BY <1>1, <1>2 DEF PayFee, MoneyTypes
    <2>6. /\ totals' \in [burned : Nat, treasury : Nat, issued : Nat]
          /\ totals'.issued = totals.issued
          /\ totals'.treasury - totals.treasury = 0 /\ totals'.burned - totals.burned = k
      BY <2>5
    <2>. QED  BY <1>3, <2>1, <2>2, <2>3, <2>4, <2>6 DEF Squares
  <1>. QED  BY <1>5, <1>6, <1>7, CommandKeeps

LEMMA CastVoteKeeps ==
  ASSUME LedgerInv, NEW p \in Proposals, NEW u \in Users, NEW yes \in BOOLEAN, CastVote(p, u, yes)
  PROVE  LedgerInv'
  <1>1. /\ proposal[p] \in ProposalRow /\ Fits(proposal[p]) /\ proposal[p].state = "voting"
    BY InvParts DEF CastVote
  <1>2. PICK old \in ProposalRow : old = proposal[p]
    BY <1>1
  <1>3. PICK k \in Nat : k = Burn(VoteFee) /\ k <= VoteFee
    BY BurnsPart, AmountsAreNat
  <1>4. PICK row : row = [old EXCEPT !.escrow = @ + VoteFee - k,
                                     !.yes = IF yes THEN @ \cup {u} ELSE @,
                                     !.no = IF yes THEN @ ELSE @ \cup {u}]
    OBVIOUS
  <1>5. PICK e \in Nat : e = old.escrow + VoteFee - k
    <2>1. old.escrow \in Nat
      BY RowTypes
    <2>. QED  BY <1>3, <2>1, AmountsAreNat
  <1>6. /\ row \in ProposalRow /\ row.state = old.state /\ row.bond = old.bond
        /\ row.escrow = e /\ row.feedbackEscrow = old.feedbackEscrow
    BY <1>4, <1>5 DEF ProposalRow
  <1>7. Fits(row)
    BY <1>1, <1>2, <1>6 DEF Fits, Unscreened, Ended
  <1>8. row.escrow + row.feedbackEscrow = old.escrow + old.feedbackEscrow + (VoteFee - k)
    BY <1>3, <1>5, <1>6, RowTypes, AmountsAreNat
  <1>9. SetProposal(p, row) /\ PayFee(p, u, VoteFee) /\ UNCHANGED rest
    BY <1>2, <1>3, <1>4 DEF CastVote
  <1>. QED  BY <1>2, <1>3, <1>6, <1>7, <1>8, <1>9, FeeKeeps, AmountsAreNat

LEMMA CastFeedbackKeeps ==
  ASSUME LedgerInv, NEW p \in Proposals, NEW u \in Users, NEW yes \in BOOLEAN,
         CastFeedback(p, u, yes)
  PROVE  LedgerInv'
  <1>1. /\ proposal[p] \in ProposalRow /\ Fits(proposal[p]) /\ proposal[p].state = "feedback"
    BY InvParts DEF CastFeedback
  <1>2. PICK old \in ProposalRow : old = proposal[p]
    BY <1>1
  <1>3. PICK k \in Nat : k = Burn(FeedbackFee) /\ k <= FeedbackFee
    BY BurnsPart, AmountsAreNat
  <1>4. PICK row : row = [old EXCEPT !.feedbackEscrow = @ + FeedbackFee - k,
                                     !.approve = IF yes THEN @ \cup {u} ELSE @,
                                     !.disapprove = IF yes THEN @ ELSE @ \cup {u}]
    OBVIOUS
  <1>5. PICK e \in Nat : e = old.feedbackEscrow + FeedbackFee - k
    <2>1. old.feedbackEscrow \in Nat
      BY RowTypes
    <2>. QED  BY <1>3, <2>1, AmountsAreNat
  <1>6. /\ row \in ProposalRow /\ row.state = old.state /\ row.bond = old.bond
        /\ row.feedbackEscrow = e /\ row.escrow = old.escrow
    BY <1>4, <1>5 DEF ProposalRow
  <1>7. Fits(row)
    BY <1>1, <1>2, <1>6 DEF Fits, Unscreened, Ended
  <1>8. row.escrow + row.feedbackEscrow = old.escrow + old.feedbackEscrow + (FeedbackFee - k)
    BY <1>3, <1>5, <1>6, RowTypes, AmountsAreNat
  <1>9. SetProposal(p, row) /\ PayFee(p, u, FeedbackFee) /\ UNCHANGED rest
    BY <1>2, <1>3, <1>4 DEF CastFeedback
  <1>. QED  BY <1>2, <1>3, <1>6, <1>7, <1>8, <1>9, FeeKeeps, AmountsAreNat

\* A vote that failed: its fees go to the treasury, the bond back to the organizer.
LEMMA VoteFailedKeeps ==
  ASSUME LedgerInv, NEW p \in Proposals, NEW ended \in {"rejected", "expired"},
         NEW u \in Users, u = proposal[p].organizer, proposal[p].state = "voting",
         SetProposal(p, [proposal[p] EXCEPT !.state = ended, !.open = FALSE, !.escrow = 0,
                                            !.bond = "refunded"]),
         totals' = [totals EXCEPT !.treasury = @ + proposal[p].escrow],
         SetBalances(Credited(Current, u, Bond)),
         PostsTwo("treasury", Transfer(p, "community_treasury", proposal[p].escrow),
                  "bond", Transfer("bond_escrow", u, Bond)),
         UNCHANGED rest
  PROVE  LedgerInv'
  <1>1. /\ MoneyTypes /\ ProposalBooks /\ proposal[p] \in ProposalRow /\ Fits(proposal[p])
    BY InvParts
  <1>2. PICK old \in ProposalRow : old = proposal[p]
    BY <1>1
  <1>3. PICK e \in Nat : e = old.escrow
    BY RowTypes
  <1>4. PICK row : row = [old EXCEPT !.state = ended, !.open = FALSE, !.escrow = 0,
                                     !.bond = "refunded"]
    OBVIOUS
  <1>5. /\ row \in ProposalRow /\ row.state = ended /\ row.bond = "refunded"
        /\ row.escrow = 0 /\ row.feedbackEscrow = 0
        /\ old.feedbackEscrow = 0 /\ old.bond = "locked"
    BY <1>1, <1>2, <1>4 DEF ProposalRow, Ended, Fits, Unscreened
  <1>6. Fits(row)
    BY <1>5 DEF Fits, Unscreened, Ended
  <1>7. PICK b : /\ b = Credited(Current, u, Bond) /\ b \in [Users -> Nat]
                 /\ b[u] = balance[u] + Bond /\ \A v \in Users : v # u => b[v] = balance[v]
    <2>1. Bond \in Int /\ balance[u] + Bond >= 0
      BY <1>1, AmountsAreNat DEF MoneyTypes
    <2>. QED  BY <2>1, OneBalance
  <1>8. PICK s \in [Accounts -> Int], t \in [Accounts -> Int] :
          s = Transfer(p, "community_treasury", e) /\ t = Transfer("bond_escrow", u, Bond)
    BY TransferType, AmountsAreNat
  <1>9. \A a \in Accounts : ledger'[a] = ledger[a] + (s[a] + t[a])
    <2>1. PostsTwo("treasury", s, "bond", t)
      BY <1>2, <1>3, <1>8
    <2>. QED  BY <2>1, EntriesOfTwo
  <1>10. /\ u \in Accounts /\ p \in Accounts /\ u # p /\ u \notin FixedAccounts
         /\ p \notin FixedAccounts /\ FixedAccounts \subseteq Accounts
    BY NamesDiffer
  <1>11. /\ s[u] + t[u] = Bond /\ s[p] + t[p] = 0 - e
         /\ s["bond_escrow"] + t["bond_escrow"] = 0 - Bond
         /\ s["community_treasury"] + t["community_treasury"] = e
    <2>1. /\ "bond_escrow" \in Accounts /\ "community_treasury" \in Accounts
          /\ u \notin {"bond_escrow", "community_treasury"}
          /\ p \notin {"bond_escrow", "community_treasury"}
      BY <1>10 DEF FixedAccounts
    <2>2. \A a \in Accounts :
            /\ s[a] = (IF a = "community_treasury" THEN e ELSE 0) - (IF a = p THEN e ELSE 0)
            /\ t[a] = (IF a = u THEN Bond ELSE 0) - (IF a = "bond_escrow" THEN Bond ELSE 0)
      BY <1>8 DEF Transfer
    <2>3. s[u] + t[u] = Bond
      BY <1>10, <2>1, <2>2, AmountsAreNat
    <2>4. s[p] + t[p] = 0 - e
      BY <1>10, <2>1, <2>2, AmountsAreNat
    <2>5. s["bond_escrow"] + t["bond_escrow"] = 0 - Bond
      BY <2>1, <2>2, AmountsAreNat
    <2>6. s["community_treasury"] + t["community_treasury"] = e
      BY <2>1, <2>2, AmountsAreNat
    <2>. QED  BY <2>3, <2>4, <2>5, <2>6
  <1>12. ASSUME NEW a \in Accounts, a \notin {u, p, "bond_escrow", "community_treasury"}
         PROVE  s[a] + t[a] = 0
    BY <1>8, <1>12 DEF Transfer
  <1>13. \A a \in Accounts : ledger[a] \in Int
    BY <1>1 DEF MoneyTypes
  <1>14. ledger' \in [Accounts -> Int]
    <2>1. ASSUME NEW a \in Accounts PROVE ledger'[a] \in Int
      <3>1. PICK x \in Int, y \in Int : x = ledger[a] /\ y = s[a] + t[a]
        BY <1>13
      <3>. QED  BY <1>9, <3>1
    <2>. QED  BY <2>1, PostedType DEF PostsTwo
  <1>15. {"bond_escrow", "community_treasury"} \subseteq Accounts
    BY <1>10 DEF FixedAccounts
  <1>16. /\ ledger'[u] = ledger[u] + Bond /\ ledger'[p] = ledger[p] - e
         /\ ledger'["bond_escrow"] = ledger["bond_escrow"] - Bond
         /\ ledger'["community_treasury"] = ledger["community_treasury"] + e
    <2>1. ledger'[u] = ledger[u] + Bond
      BY <1>9, <1>10, <1>11
    <2>2. ledger'[p] = ledger[p] - e
      BY <1>9, <1>10, <1>11, <1>13
    <2>3. ledger'["bond_escrow"] = ledger["bond_escrow"] - Bond
      BY <1>9, <1>11, <1>13, <1>15, AmountsAreNat
    <2>4. ledger'["community_treasury"] = ledger["community_treasury"] + e
      BY <1>9, <1>11, <1>15
    <2>. QED  BY <2>1, <2>2, <2>3, <2>4
  <1>17. ASSUME NEW a \in Accounts, a \notin {u, p, "bond_escrow", "community_treasury"}
         PROVE  ledger'[a] = ledger[a]
    BY <1>9, <1>12, <1>13, <1>17
  <1>18. Squares(p, row, b)
    <2>1. \A v \in Users : b[v] = balance[v] + (ledger'[v] - ledger[v])
      <3>1. \A v \in Users : v \in Accounts /\ v # p /\ v \notin {"bond_escrow", "community_treasury"}
        BY NamesDiffer DEF FixedAccounts
      <3>2. \A v \in Users : ledger[v] \in Int /\ balance[v] \in Nat
        BY <1>1, <3>1 DEF MoneyTypes
      <3>. QED  BY <1>7, <1>16, <1>17, <3>1, <3>2, AmountsAreNat
    <2>2. \A a \in (Proposals \ {p}) \cup PointAccounts \cup {"governance_fee", "reward_issuance",
            "burn"} : ledger'[a] = ledger[a] /\ ledger[a] \in Int
      <3>1. \A a \in (Proposals \ {p}) \cup PointAccounts \cup {"governance_fee", "reward_issuance",
              "burn"} : a \in Accounts /\ a \notin {u, p, "bond_escrow", "community_treasury"}
        BY NamesDiffer DEF FixedAccounts, PointAccounts
      <3>. QED  BY <1>13, <1>17, <3>1
    <2>3. ledger'[p] = row.escrow + row.feedbackEscrow
      BY <1>1, <1>2, <1>3, <1>5, <1>16 DEF ProposalBooks
    <2>4. HeldBond(row) = 0 /\ HeldBond(proposal[p]) = Bond
      BY <1>2, <1>5 DEF HeldBond
    <2>5. totals \in [burned : Nat, treasury : Nat, issued : Nat]
      BY <1>1 DEF MoneyTypes
    <2>6. /\ totals' \in [burned : Nat, treasury : Nat, issued : Nat]
          /\ totals'.issued = totals.issued
          /\ totals'.treasury - totals.treasury = e /\ totals'.burned - totals.burned = 0
      BY <1>2, <1>3, <2>5
    <2>7. ledger'["bond_escrow"] = ledger["bond_escrow"] + HeldBond(row) - HeldBond(proposal[p])
      BY <1>13, <1>15, <1>16, <2>4, AmountsAreNat
    <2>8. ledger'["burn"] = ledger["burn"] + (totals'.burned - totals.burned)
      BY <2>2, <2>6
    <2>9. \A q \in Proposals : q # p => ledger'[q] = ledger[q]
      BY <2>2
    <2>10. \A a \in PointAccounts \cup {"governance_fee", "reward_issuance"} : ledger'[a] = ledger[a]
      BY <2>2
    <2>. QED  BY <1>14, <1>16, <2>1, <2>3, <2>6, <2>7, <2>8, <2>9, <2>10 DEF Squares
  <1>. QED  BY <1>2, <1>4, <1>5, <1>6, <1>7, <1>18, CommandKeeps

LEMMA CloseVotingKeeps ==
  ASSUME LedgerInv, NEW p \in Proposals, NEW force, CloseVoting(p, force)
  PROVE  LedgerInv'
  <1>1. proposal[p] \in ProposalRow /\ proposal[p].organizer \in Users /\ proposal[p].state = "voting"
    BY InvParts, RowTypes DEF CloseVoting
  <1>2. CASE /\ SetProposal(p, [proposal[p] EXCEPT !.state = "approved", !.open = FALSE])
             /\ SetBalances(Current) /\ UNCHANGED <<ledger, totals, rest>>
    BY <1>1, <1>2, VotePassedKeeps
  <1>3. CASE ~(/\ SetProposal(p, [proposal[p] EXCEPT !.state = "approved", !.open = FALSE])
               /\ SetBalances(Current) /\ UNCHANGED <<ledger, totals, rest>>)
    <2>1. PICK ended \in {"rejected", "expired"} :
            /\ SetProposal(p, [proposal[p] EXCEPT !.state = ended, !.open = FALSE, !.escrow = 0,
                                                  !.bond = "refunded"])
            /\ totals' = [totals EXCEPT !.treasury = @ + proposal[p].escrow]
            /\ SetBalances(Credited(Current, proposal[p].organizer, Bond))
            /\ PostsTwo("treasury", Transfer(p, "community_treasury", proposal[p].escrow),
                        "bond", Transfer("bond_escrow", proposal[p].organizer, Bond))
            /\ UNCHANGED rest
      BY <1>3 DEF CloseVoting, Escrow, PostsTwo
    <2>. QED  BY <1>1, <2>1, VoteFailedKeeps
  <1>. QED  BY <1>2, <1>3

-----------------------------------------------------------------------------
(* The points ledger: payouts *)

LEMMA RowShares ==
  ASSUME NEW row \in ProposalRow
  PROVE  row.shares \in [Users -> Nat] /\ SumFunctionOnSet(row.shares, Users) = 10000
  <1>1. row.shares \in ShareSets
    BY RowTypes
  <1>. QED  BY <1>1, SharesAreWhole

FloorShare(row, amount, v) == (amount * row.shares[v]) \div 10000

LEMMA FloorIsShare ==
  ASSUME NEW row \in ProposalRow, NEW amount \in Nat, NEW v \in Users
  PROVE  /\ row.shares[v] \in Nat /\ amount * row.shares[v] \in Nat
         /\ FloorShare(row, amount, v) \in Nat
         /\ 10000 * FloorShare(row, amount, v) <= amount * row.shares[v]
  <1>1. PICK s \in Nat : s = row.shares[v]
    BY RowShares
  <1>2. PICK n \in Nat : n = amount * s
    OBVIOUS
  <1>3. n \div 10000 \in Nat /\ 10000 * (n \div 10000) <= n
    OBVIOUS
  <1>. QED  BY <1>1, <1>2, <1>3 DEF FloorShare

\* The floors of all but the organizer leave the organizer something or nothing.
LEMMA FloorsFit ==
  ASSUME NEW row \in ProposalRow, NEW amount \in Nat, NEW o \in Users
  PROVE  LET others == Users \ {o}
             sum == SumFunctionOnSet([v \in others |-> FloorShare(row, amount, v)], others)
         IN  sum \in Nat /\ sum <= amount
  <1>1. PICK S : S = Users \ {o} /\ IsFiniteSet(S) /\ S \subseteq Users
    <2>1. PICK S \in SUBSET Users : S = Users \ {o}
      OBVIOUS
    <2>2. IsFiniteSet(S)
      BY ActorsAreFinite, FS_Subset
    <2>. QED  BY <2>1, <2>2
  <1>2. PICK w, t : w = [u \in S |-> FloorShare(row, amount, u)] /\ t = [u \in Users |-> row.shares[u]]
    OBVIOUS
  <1>sums. PICK x, v : x = [u \in S |-> 10000 * w[u]] /\ v = [u \in S |-> amount * t[u]]
    OBVIOUS
  <1>3. \A u \in Users : t[u] \in Nat
    BY <1>2, FloorIsShare
  <1>4. \A u \in S : /\ w[u] \in Nat /\ x[u] = 10000 * w[u] /\ v[u] = amount * t[u]
                     /\ x[u] \in Int /\ v[u] \in Int /\ x[u] <= v[u]
    <2>1. ASSUME NEW u \in S
          PROVE  /\ w[u] \in Nat /\ x[u] = 10000 * w[u] /\ v[u] = amount * t[u]
                 /\ x[u] \in Int /\ v[u] \in Int /\ x[u] <= v[u]
      <3>1. u \in Users /\ w[u] = FloorShare(row, amount, u) /\ t[u] = row.shares[u]
        BY <1>1, <1>2
      <3>2. x[u] = 10000 * w[u] /\ v[u] = amount * t[u]
        BY <1>sums
      <3>. QED  BY <3>1, <3>2, FloorIsShare
    <2>. QED  BY <2>1
  <1>5. SumFunctionOnSet(t, Users) = 10000
    <2>1. row.shares \in [Users -> Nat] /\ SumFunctionOnSet(row.shares, Users) = 10000
      BY RowShares
    <2>2. t = row.shares
      BY <1>2, <2>1
    <2>. QED  BY <2>1, <2>2
  <1>6. PICK r \in Nat : r = SumFunctionOnSet(t, S)
    BY <1>1, <1>3, SumIsNat
  <1>7. r <= 10000
    <2>1. SumFunctionOnSet(t, Users) = t[o] + SumFunctionOnSet(t, S)
      BY <1>1, <1>3, SumWithout, ActorsAreFinite
    <2>2. t[o] \in Nat
      BY <1>3
    <2>. QED  BY <1>5, <1>6, <2>1, <2>2
  <1>8. PICK n \in Nat : n = SumFunctionOnSet(w, S)
    BY <1>1, <1>4, SumIsNat
  <1>9. SumFunctionOnSet(x, S) = 10000 * n
    <2>1. 10000 \in Int /\ \A u \in S : w[u] \in Int
      BY <1>4
    <2>. QED  BY <1>1, <1>4, <1>8, <2>1, SumOfScaled
  <1>10. SumFunctionOnSet(v, S) = amount * r
    <2>1. amount \in Int /\ \A u \in S : t[u] \in Int
      BY <1>1, <1>3
    <2>. QED  BY <1>1, <1>4, <1>6, <2>1, SumOfScaled
  <1>11. SumFunctionOnSet(x, S) <= SumFunctionOnSet(v, S)
    BY <1>1, <1>4, SumOfSmaller
  <1>12. amount * r <= amount * 10000
    BY <1>7
  <1>13. PICK m \in Int : m = amount * r
    OBVIOUS
  <1>14. n <= amount
    BY <1>9, <1>10, <1>11, <1>12, <1>13
  <1>. QED  BY <1>1, <1>2, <1>8, <1>14

Paid(row, amount) == [u \in Users |-> PayoutShare(row, amount, u)]

\* The payout shares are the whole amount, and nobody's is negative.
LEMMA SharesAreTheAmount ==
  ASSUME NEW row \in ProposalRow, NEW amount \in Nat
  PROVE  /\ Paid(row, amount) \in [Users -> Nat]
         /\ SumFunctionOnSet(Paid(row, amount), Users) = amount
  <1>1. PICK o, S : o \in Users /\ o = row.organizer /\ S = Users \ {o}
    BY RowTypes
  <1>2. IsFiniteSet(S)
    BY <1>1, ActorsAreFinite, FS_Subset
  <1>3. PICK w : w = [v \in S |-> FloorShare(row, amount, v)]
    OBVIOUS
  <1>4. PICK n \in Nat : n = SumFunctionOnSet(w, S) /\ n <= amount
    BY <1>1, <1>3, FloorsFit
  <1>5. PayoutShare(row, amount, o) = amount - n
    BY <1>1, <1>3, <1>4 DEF PayoutShare, FloorShare
  <1>6. PICK f : f = Paid(row, amount)
    OBVIOUS
  <1>7. f[o] = amount - n
    BY <1>1, <1>5, <1>6 DEF Paid
  <1>8. \A u \in S : f[u] = w[u] /\ w[u] \in Nat
    <2>1. ASSUME NEW u \in S PROVE f[u] = w[u] /\ w[u] \in Nat
      <3>1. u \in Users /\ u # o /\ f[u] = PayoutShare(row, amount, u)
        BY <1>1, <1>6 DEF Paid
      <3>2. PayoutShare(row, amount, u) = FloorShare(row, amount, u)
        BY <1>1, <3>1 DEF PayoutShare, FloorShare
      <3>3. w[u] = FloorShare(row, amount, u)
        BY <1>3
      <3>4. FloorShare(row, amount, u) \in Nat
        BY <3>1, FloorIsShare
      <3>. QED  BY <3>1, <3>2, <3>3, <3>4
    <2>. QED  BY <2>1
  <1>9. \A u \in Users : f[u] \in Nat
    BY <1>1, <1>4, <1>7, <1>8
  <1>10. SumFunctionOnSet(f, Users) = f[o] + SumFunctionOnSet(f, S)
    BY <1>1, <1>9, SumWithout, ActorsAreFinite
  <1>11. SumFunctionOnSet(f, S) = n
    BY <1>2, <1>4, <1>8, SumOfEqual
  <1>12. f \in [Users -> Nat]
    BY <1>6, <1>9 DEF Paid
  <1>. QED  BY <1>4, <1>6, <1>7, <1>10, <1>11, <1>12

PostsPayout(f, k, r, s) ==
  ledger' = Posted({<<u, f[u]>> : u \in Users}
                     \cup {<<"kept", k>>, <<"refund", r>>, <<"slash", s>>})

SumAt(f, a) == SumFunctionOnSet([u \in Users |-> f[u][a]], Users)

LEMMA EntriesOfPayout ==
  ASSUME NEW f \in [Users -> [Accounts -> Int]], NEW k \in [Accounts -> Int],
         NEW r \in [Accounts -> Int], NEW s \in [Accounts -> Int], PostsPayout(f, k, r, s)
  PROVE  \A a \in Accounts :
           /\ ledger'[a] = ledger[a] + (SumAt(f, a) + (k[a] + r[a] + s[a]))
           /\ SumAt(f, a) \in Int
  <1>. SUFFICES ASSUME NEW a \in Accounts
                PROVE  /\ ledger'[a] = ledger[a] + (SumAt(f, a) + (k[a] + r[a] + s[a]))
                       /\ SumAt(f, a) \in Int
    OBVIOUS
  <1>1. PICK x, y, z, g : /\ x = <<"kept", k>> /\ y = <<"refund", r>> /\ z = <<"slash", s>>
                          /\ g = [u \in Users |-> <<u, f[u]>>]
    OBVIOUS
  <1>2. x # y /\ y # z /\ x # z
    BY <1>1
  <1>3. PICK paid, ends, all : /\ paid = ImageOf(g, Users) /\ ends = {x, y, z}
                                /\ all = paid \cup ends
    OBVIOUS
  <1>4. PICK w, v : w = [h \in all |-> h[2][a]] /\ v = [u \in Users |-> f[u][a]]
    OBVIOUS
  <1>5. /\ w[x] = k[a] /\ w[y] = r[a] /\ w[z] = s[a]
        /\ k[a] \in Int /\ r[a] \in Int /\ s[a] \in Int
    BY <1>1, <1>3, <1>4
  <1>6. \A u \in Users : v[u] \in Int /\ w[g[u]] = v[u]
    BY <1>1, <1>3, <1>4 DEF ImageOf
  <1>7. \A u, q \in Users : g[u] = g[q] => u = q
    BY <1>1
  <1>8. SumFunctionOnSet(w, paid) = SumFunctionOnSet(v, Users)
    BY <1>3, <1>6, <1>7, SumOverImage, ActorsAreFinite
  <1>9. SumFunctionOnSet(w, ends) = w[x] + w[y] + w[z]
    <2>1. IsTriple(ends, x, y, z)
      BY <1>2, <1>3 DEF IsTriple
    <2>. QED  BY <1>5, <2>1, SumOfThree
  <1>10. IsFiniteSet(paid) /\ IsFiniteSet(ends)
    <2>1. IsFiniteSet({x}) /\ IsFiniteSet({y}) /\ IsFiniteSet({z})
      BY FS_Singleton
    <2>2. IsFiniteSet({x} \cup {y} \cup {z})
      BY <2>1, FS_Union
    <2>3. ends = {x} \cup {y} \cup {z}
      BY <1>3
    <2>4. IsFiniteSet(ImageOf(g, Users))
      BY ImageIsFinite, ActorsAreFinite
    <2>5. IsFiniteSet(ends)
      BY <2>2, <2>3, Zenon
    <2>. QED  BY <1>3, <2>4, <2>5, Zenon
  <1>11. paid \cap ends = {}
    <2>1. \A u \in Users : u \notin {"kept", "refund", "slash"}
      BY IdsAreNoNames
    <2>. QED  BY <1>1, <1>3, <2>1 DEF ImageOf
  <1>12. \A h \in all : w[h] \in Int
    BY <1>3, <1>5, <1>6 DEF ImageOf
  <1>13. SumFunctionOnSet(w, all) = SumFunctionOnSet(w, paid) + SumFunctionOnSet(w, ends)
    BY <1>3, <1>10, <1>11, <1>12, SumOfDisjoint
  <1>14. ledger' = Posted(all)
    BY <1>1, <1>3 DEF PostsPayout, ImageOf
  <1>15. SumFunctionOnSet(v, Users) \in Int
    BY <1>6, SumIsInt, ActorsAreFinite
  <1>16. Posted(all)[a] = ledger[a] + SumFunctionOnSet(w, all)
    BY <1>4, PostedBySum
  <1>17. SumAt(f, a) = SumFunctionOnSet(v, Users)
    BY <1>4 DEF SumAt
  <1>. QED  BY <1>5, <1>8, <1>9, <1>13, <1>14, <1>15, <1>16, <1>17

\* The transfers of the shares, and what they add up to in an account.
ShareTransfers(p, f) == [u \in Users |-> Transfer(p, u, f[u])]
SharedTo(p, f, a) == SumAt(ShareTransfers(p, f), a)

LEMMA SharesInAccount ==
  ASSUME NEW p \in Proposals, NEW f \in [Users -> Nat], NEW a \in Accounts
  PROVE  /\ a \in Users => SharedTo(p, f, a) = f[a]
         /\ a = p => SharedTo(p, f, a) = 0 - SumFunctionOnSet(f, Users)
         /\ a \notin Users /\ a # p => SharedTo(p, f, a) = 0
  <1>1. PICK w : w = [u \in Users |-> ShareTransfers(p, f)[u][a]]
    OBVIOUS
  <1>2. \A u \in Users : w[u] = (IF a = u THEN f[u] ELSE 0) - (IF a = p THEN f[u] ELSE 0)
    BY <1>1 DEF ShareTransfers, Transfer
  <1>3. \A u \in Users : f[u] \in Nat /\ u # p
    BY NamesDiffer
  <1>4. SharedTo(p, f, a) = SumFunctionOnSet(w, Users)
    BY <1>1 DEF SharedTo, SumAt
  <1>5. CASE a \in Users
    <2>1. w[a] = f[a] /\ w[a] \in Int
      BY <1>2, <1>3, <1>5
    <2>2. \A u \in Users \ {a} : w[u] = 0
      BY <1>2, <1>3, <1>5
    <2>. QED  BY <1>3, <1>4, <1>5, <2>1, <2>2, SumOfOnly, ActorsAreFinite
  <1>6. CASE a = p
    <2>1. \A u \in Users : f[u] \in Int /\ w[u] = (0 - 1) * f[u]
      BY <1>2, <1>3, <1>6
    <2>2. 0 - 1 \in Int
      OBVIOUS
    <2>3. SumFunctionOnSet(w, Users) = (0 - 1) * SumFunctionOnSet(f, Users)
      BY <2>1, <2>2, SumOfScaled, ActorsAreFinite
    <2>4. SumFunctionOnSet(f, Users) \in Int
      BY <2>1, SumIsInt, ActorsAreFinite
    <2>. QED  BY <1>3, <1>4, <1>6, <2>3, <2>4
  <1>7. CASE a \notin Users /\ a # p
    <2>1. \A u \in Users : w[u] = 0
      BY <1>2, <1>3, <1>7
    <2>2. Cardinality(Users) \in Nat
      BY ActorsAreFinite, FS_CardinalityType
    <2>3. 0 \in Int
      OBVIOUS
    <2>4. SumFunctionOnSet(w, Users) = 0 * Cardinality(Users)
      BY <2>1, <2>3, SumOfConstant, ActorsAreFinite
    <2>. QED  BY <1>4, <1>7, <2>2, <2>4
  <1>. QED  BY <1>5, <1>6, <1>7

\* What a payout leaves in every account.
PaidOut(p, o, f, kept, back, slashed) ==
  /\ ledger' \in [Accounts -> Int]
  /\ \A u \in Users : ledger'[u] = ledger[u] + f[u] + IF u = o THEN back ELSE 0
  /\ ledger'[p] = ledger[p] - SumFunctionOnSet(f, Users) - kept
  /\ ledger'["bond_escrow"] = ledger["bond_escrow"] - back - slashed
  /\ ledger'["community_treasury"] = ledger["community_treasury"] + kept + slashed
  /\ \A a \in Accounts \ Users : a \notin {p, "bond_escrow", "community_treasury"} =>
       ledger'[a] = ledger[a]

PostsShares(p, o, f, kept, back, slashed) ==
  PostsPayout(ShareTransfers(p, f), Transfer(p, "community_treasury", kept),
              Transfer("bond_escrow", o, back),
              Transfer("bond_escrow", "community_treasury", slashed))

LEMMA PayoutEntries ==
  ASSUME LedgerInv, NEW p \in Proposals, NEW o \in Users, NEW f \in [Users -> Nat],
         NEW kept \in Int, NEW back \in Int, NEW slashed \in Int,
         PostsShares(p, o, f, kept, back, slashed)
  PROVE  PaidOut(p, o, f, kept, back, slashed)
  <1>1. MoneyTypes
    BY InvParts
  <1>2. \A a \in Accounts : ledger[a] \in Int
    BY <1>1 DEF MoneyTypes
  <1>3. PICK g, k, r, s : /\ g = ShareTransfers(p, f) /\ k = Transfer(p, "community_treasury", kept)
                          /\ r = Transfer("bond_escrow", o, back)
                          /\ s = Transfer("bond_escrow", "community_treasury", slashed)
    OBVIOUS
  <1>4. /\ g \in [Users -> [Accounts -> Int]] /\ k \in [Accounts -> Int]
        /\ r \in [Accounts -> Int] /\ s \in [Accounts -> Int]
    BY <1>3, TransferType DEF ShareTransfers
  <1>5. \A a \in Accounts : /\ ledger'[a] = ledger[a] + (SharedTo(p, f, a) + (k[a] + r[a] + s[a]))
                            /\ SharedTo(p, f, a) \in Int
    <2>1. PostsPayout(g, k, r, s)
      BY <1>3 DEF PostsShares
    <2>2. \A a \in Accounts : /\ ledger'[a] = ledger[a] + (SumAt(g, a) + (k[a] + r[a] + s[a]))
                              /\ SumAt(g, a) \in Int
      BY <1>4, <2>1, EntriesOfPayout
    <2>3. \A a \in Accounts : SharedTo(p, f, a) = SumAt(g, a)
      BY <1>3 DEF SharedTo
    <2>. QED  BY <2>2, <2>3
  <1>6. ledger' \in [Accounts -> Int]
    <2>1. ASSUME NEW a \in Accounts PROVE ledger'[a] \in Int
      <3>1. PICK x \in Int, y \in Int, z \in Int :
              x = ledger[a] /\ y = SharedTo(p, f, a) /\ z = k[a] + r[a] + s[a]
        <4>1. k[a] + r[a] + s[a] \in Int
          BY <1>4
        <4>. QED  BY <1>2, <1>5, <4>1
      <3>. QED  BY <1>5, <3>1
    <2>. QED  BY <2>1, PostedType DEF PostsShares, PostsPayout
  <1>7. /\ p \in Accounts /\ p \notin Users /\ p \notin FixedAccounts
        /\ FixedAccounts \subseteq Accounts /\ \A u \in Users : u \in Accounts /\ u \notin FixedAccounts
    BY NamesDiffer
  <1>8. {"bond_escrow", "community_treasury"} \subseteq Accounts \ Users
    BY <1>7 DEF FixedAccounts
  <1>9. \A a \in Accounts : k[a] + r[a] + s[a] =
          (IF a = "community_treasury" THEN kept ELSE 0) - (IF a = p THEN kept ELSE 0)
          + (IF a = o THEN back ELSE 0) - (IF a = "bond_escrow" THEN back ELSE 0)
          + (IF a = "community_treasury" THEN slashed ELSE 0)
          - (IF a = "bond_escrow" THEN slashed ELSE 0)
    BY <1>3 DEF Transfer
  <1>10. ASSUME NEW u \in Users
         PROVE  ledger'[u] = ledger[u] + f[u] + IF u = o THEN back ELSE 0
    <2>1. u \in Accounts /\ u # p /\ u \notin {"bond_escrow", "community_treasury"}
      BY <1>7, <1>8
    <2>2. k[u] + r[u] + s[u] = IF u = o THEN back ELSE 0
      BY <1>9, <2>1
    <2>3. SharedTo(p, f, u) = f[u]
      BY <2>1, SharesInAccount
    <2>. QED  BY <1>2, <1>5, <2>1, <2>2, <2>3
  <1>11. ledger'[p] = ledger[p] - SumFunctionOnSet(f, Users) - kept
    <2>1. p # o /\ p \notin {"bond_escrow", "community_treasury"}
      BY <1>7 DEF FixedAccounts
    <2>2. k[p] + r[p] + s[p] = 0 - kept
      BY <1>7, <1>9, <2>1
    <2>3. SharedTo(p, f, p) = 0 - SumFunctionOnSet(f, Users)
      BY <1>7, SharesInAccount
    <2>4. SumFunctionOnSet(f, Users) \in Int
      BY SumIsInt, ActorsAreFinite
    <2>5. ledger[p] \in Int
      BY <1>2, <1>7
    <2>. QED  BY <1>5, <1>7, <2>2, <2>3, <2>4, <2>5
  <1>12. ASSUME NEW a \in Accounts \ Users, a # p
         PROVE  ledger'[a] = ledger[a] + (k[a] + r[a] + s[a])
    <2>1. SharedTo(p, f, a) = 0
      BY <1>12, SharesInAccount
    <2>2. PICK z \in Int : z = k[a] + r[a] + s[a]
      BY <1>4
    <2>. QED  BY <1>5, <2>1, <2>2
  <1>13. /\ ledger'["bond_escrow"] = ledger["bond_escrow"] - back - slashed
         /\ ledger'["community_treasury"] = ledger["community_treasury"] + kept + slashed
    <2>1. o \notin {"bond_escrow", "community_treasury"} /\ p \notin {"bond_escrow", "community_treasury"}
      BY <1>7, <1>8 DEF FixedAccounts
    <2>2. k["bond_escrow"] + r["bond_escrow"] + s["bond_escrow"] = 0 - back - slashed
      BY <1>8, <1>9, <2>1
    <2>3. k["community_treasury"] + r["community_treasury"] + s["community_treasury"] = kept + slashed
      BY <1>8, <1>9, <2>1
    <2>4. ledger["bond_escrow"] \in Int /\ ledger["community_treasury"] \in Int
      BY <1>2, <1>8
    <2>. QED  BY <1>8, <1>12, <2>1, <2>2, <2>3, <2>4
  <1>14. ASSUME NEW a \in Accounts \ Users, a \notin {p, "bond_escrow", "community_treasury"}
         PROVE  ledger'[a] = ledger[a]
    <2>1. k[a] + r[a] + s[a] = 0
      BY <1>9, <1>14
    <2>2. ledger[a] \in Int
      BY <1>2
    <2>. QED  BY <1>12, <1>14, <2>1, <2>2
  <1>. QED  BY <1>6, <1>10, <1>11, <1>13, <1>14 DEF PaidOut

LEMMA PayOutKeeps ==
  ASSUME LedgerInv, NEW p \in Proposals, proposal[p].state \in {"payout_pending", "disputed"},
         NEW released \in Nat, released <= proposal[p].escrow + proposal[p].feedbackEscrow,
         NEW slashed \in Nat, slashed <= Bond,
         NEW bond \in {"refunded", "slashed_50", "slashed_100"},
         PayOut(p, released, slashed, bond)
  PROVE  LedgerInv'
  <1>1. /\ MoneyTypes /\ ProposalBooks /\ proposal[p] \in ProposalRow /\ Fits(proposal[p])
    BY InvParts
  <1>2. PICK old \in ProposalRow : old = proposal[p]
    BY <1>1
  <1>3. PICK o, e, g : o \in Users /\ o = old.organizer /\ e \in Nat /\ e = old.escrow
                       /\ g \in Nat /\ g = old.feedbackEscrow
    BY RowTypes
  <1>4. PICK kept \in Nat : kept = e + g - released
    BY <1>2, <1>3
  <1>5. PICK back \in Nat : back = Bond - slashed
    BY AmountsAreNat
  <1>6. PICK row : row = [old EXCEPT !.state = "completed", !.escrow = 0, !.feedbackEscrow = 0,
                                     !.bond = bond]
    OBVIOUS
  <1>7. /\ row \in ProposalRow /\ row.state = "completed" /\ row.bond = bond
        /\ row.escrow = 0 /\ row.feedbackEscrow = 0 /\ bond # "locked" /\ old.bond = "locked"
    BY <1>1, <1>2, <1>6 DEF ProposalRow, Ended, Fits, Unscreened
  <1>8. Fits(row)
    BY <1>7 DEF Fits, Unscreened, Ended
  <1>9. PICK f \in [Users -> Nat] : f = Paid(old, released) /\ SumFunctionOnSet(f, Users) = released
    BY SharesAreTheAmount
  <1>10. \A u \in Users : f[u] = PayoutShare(old, released, u)
    BY <1>9 DEF Paid
  <1>11. PICK b : b = [u \in Users |-> balance[u] + f[u] + IF u = o THEN back ELSE 0]
    OBVIOUS
  <1>12. Current = balance /\ \A u \in Users : balance[u] \in Nat /\ f[u] \in Nat
    BY InvParts, CurrentIsBalance DEF MoneyTypes
  <1>13. b \in [Users -> Nat]
    BY <1>11, <1>12
  <1>14. SetBalances(b)
    <2>1. SetBalances([u \in Users |-> Current[u] + PayoutShare(old, released, u)
                         + IF u = o THEN Bond - slashed ELSE 0])
      BY <1>2, <1>3 DEF PayOut
    <2>2. b = [u \in Users |-> Current[u] + PayoutShare(old, released, u)
                 + IF u = o THEN Bond - slashed ELSE 0]
      BY <1>5, <1>10, <1>11, <1>12
    <2>. QED  BY <2>1, <2>2
  <1>15. PostsShares(p, o, f, kept, back, slashed)
    <2>1. ledger' = Posted(
            {<<u, Transfer(p, u, PayoutShare(old, released, u))>> : u \in Users}
              \cup {<<"kept", Transfer(p, "community_treasury", kept)>>,
                    <<"refund", Transfer("bond_escrow", o, back)>>,
                    <<"slash", Transfer("bond_escrow", "community_treasury", slashed)>>})
      BY <1>2, <1>3, <1>4, <1>5 DEF PayOut, Escrow
    <2>2. {<<u, Transfer(p, u, PayoutShare(old, released, u))>> : u \in Users}
            = {<<u, ShareTransfers(p, f)[u]>> : u \in Users}
      BY <1>10 DEF ShareTransfers
    <2>. QED  BY <2>1, <2>2 DEF PostsShares, PostsPayout
  <1>16. /\ ledger' \in [Accounts -> Int]
         /\ \A u \in Users : ledger'[u] = ledger[u] + f[u] + IF u = o THEN back ELSE 0
         /\ ledger'[p] = ledger[p] - released - kept
         /\ ledger'["bond_escrow"] = ledger["bond_escrow"] - back - slashed
         /\ ledger'["community_treasury"] = ledger["community_treasury"] + kept + slashed
         /\ \A a \in Accounts \ Users : a \notin {p, "bond_escrow", "community_treasury"} =>
              ledger'[a] = ledger[a]
    <2>1. o \in Users /\ kept \in Int /\ back \in Int /\ slashed \in Int
      BY <1>3
    <2>2. PaidOut(p, o, f, kept, back, slashed)
      BY <1>15, <2>1, PayoutEntries
    <2>. QED  BY <1>9, <2>2 DEF PaidOut
  <1>17. \A a \in Accounts : ledger[a] \in Int
    BY <1>1 DEF MoneyTypes
  <1>18. Squares(p, row, b)
    <2>1. ASSUME NEW v \in Users PROVE b[v] = balance[v] + (ledger'[v] - ledger[v])
      <3>1. ledger[v] \in Int
        BY <1>17, NamesDiffer
      <3>2. b[v] = balance[v] + f[v] + IF v = o THEN back ELSE 0
        BY <1>11
      <3>. QED  BY <1>12, <1>16, <3>1, <3>2
    <2>2. ASSUME NEW a \in (Proposals \ {p}) \cup PointAccounts \cup {"governance_fee",
            "reward_issuance", "burn"}
          PROVE  ledger'[a] = ledger[a] /\ ledger[a] \in Int
      <3>1. a \in Accounts /\ a \notin Users /\ a \notin {p, "bond_escrow", "community_treasury"}
        BY <2>2, NamesDiffer DEF FixedAccounts, PointAccounts
      <3>. QED  BY <1>16, <1>17, <3>1
    <2>3. ledger'[p] = row.escrow + row.feedbackEscrow
      <3>1. ledger[p] = e + g
        BY <1>1, <1>2, <1>3 DEF ProposalBooks
      <3>. QED  BY <1>3, <1>4, <1>7, <1>16, <3>1
    <2>4. HeldBond(row) = 0 /\ HeldBond(proposal[p]) = Bond
      BY <1>2, <1>7 DEF HeldBond
    <2>5. totals \in [burned : Nat, treasury : Nat, issued : Nat]
      BY <1>1 DEF MoneyTypes
    <2>6. totals' = [totals EXCEPT !.treasury = @ + kept + slashed]
      BY <1>2, <1>3, <1>4 DEF PayOut
    <2>7. /\ totals' \in [burned : Nat, treasury : Nat, issued : Nat]
          /\ totals'.issued = totals.issued
          /\ totals'.treasury - totals.treasury = kept + slashed
          /\ totals'.burned - totals.burned = 0
      BY <2>5, <2>6
    <2>8. ledger["bond_escrow"] \in Int /\ ledger["community_treasury"] \in Int
      BY <1>17, NamesDiffer DEF FixedAccounts
    <2>9. ledger'["bond_escrow"] = ledger["bond_escrow"] + HeldBond(row) - HeldBond(proposal[p])
      BY <1>5, <1>16, <2>4, <2>8, AmountsAreNat
    <2>10. ledger'["burn"] = ledger["burn"] + (totals'.burned - totals.burned)
      BY <2>2, <2>7
    <2>11. \A q \in Proposals : q # p => ledger'[q] = ledger[q]
      BY <2>2
    <2>12. \A a \in PointAccounts \cup {"governance_fee", "reward_issuance"} : ledger'[a] = ledger[a]
      BY <2>2
    <2>13. ledger'["community_treasury"] =
             ledger["community_treasury"] + (totals'.treasury - totals.treasury)
      BY <1>16, <2>7, <2>8
    <2>. QED  BY <1>16, <2>1, <2>3, <2>7, <2>9, <2>10, <2>11, <2>12, <2>13 DEF Squares
  <1>19. SetProposal(p, row) /\ UNCHANGED rest
    BY <1>2, <1>6 DEF PayOut
  <1>. QED  BY <1>7, <1>8, <1>13, <1>14, <1>18, <1>19, CommandKeeps

LEMMA FinalizeKeeps ==
  ASSUME LedgerInv, NEW p \in Proposals, FinalizePayout(p)
  PROVE  LedgerInv'
  <1>1. proposal[p].escrow \in Nat /\ proposal[p].feedbackEscrow \in Nat
    BY InvParts, RowTypes
  <1>2. PICK n \in Nat : n = proposal[p].escrow + proposal[p].feedbackEscrow
    BY <1>1
  <1>3. PayOut(p, n, 0, "refunded") /\ proposal[p].state \in {"payout_pending", "disputed"}
    BY <1>2 DEF FinalizePayout
  <1>. QED  BY <1>2, <1>3, PayOutKeeps, AmountsAreNat

LEMMA PercentIsPart ==
  ASSUME NEW n \in Nat, NEW percent \in 0..100
  PROVE  (n * percent) \div 100 \in Nat /\ (n * percent) \div 100 <= n
  <1>1. PICK m \in Nat : m = n * percent
    OBVIOUS
  <1>2. n * percent <= n * 100
    OBVIOUS
  <1>. QED  BY <1>1, <1>2

LEMMA ResolveKeeps ==
  ASSUME LedgerInv, NEW p \in Proposals, NEW percent \in Percents,
         NEW action \in {"refund", "slash_50", "slash_100"}, ResolveDispute(p, percent, action)
  PROVE  LedgerInv'
  <1>1. proposal[p].escrow \in Nat /\ proposal[p].feedbackEscrow \in Nat
    BY InvParts, RowTypes
  <1>2. PICK n \in Nat : n = proposal[p].escrow + proposal[p].feedbackEscrow
    BY <1>1
  <1>3. PICK m \in Nat : m = (n * percent) \div 100 /\ m <= n
    BY PercentIsPart, LedgerNumbers
  <1>4. PICK slashed \in Nat, bond \in {"refunded", "slashed_50", "slashed_100"} :
          slashed = Slashed(action) /\ slashed <= Bond /\ bond = BondAfter(action)
    BY AmountsAreNat DEF Slashed, BondAfter
  <1>5. PayOut(p, m, slashed, bond) /\ proposal[p].state \in {"payout_pending", "disputed"}
    BY <1>2, <1>3, <1>4 DEF ResolveDispute
  <1>. QED  BY <1>2, <1>3, <1>4, <1>5, PayOutKeeps

-----------------------------------------------------------------------------
(* The points ledger: rewards, vouchers and the merchant's points *)

LEMMA WholeChange ==
  ASSUME LedgerInv, NEW u \in Users, NEW d \in Int, points[u] + d >= 0,
         points' = [points EXCEPT ![u] = @ + d],
         balance' = [balance EXCEPT ![u] = Authoritative(points'[u], @)],
         ledger'[u] = ledger[u] + d * Unit, \A v \in Users : v # u => ledger'[v] = ledger[v]
  PROVE  points' \in [Users -> Nat] /\ balance' \in [Users -> Nat] /\ UserBooks'
  <1>1. MoneyTypes /\ UserBooks
    BY InvParts
  <1>2. PICK b \in Nat, k \in Nat : b = balance[u] /\ k = points[u] /\ k = b \div Unit
    BY <1>1 DEF MoneyTypes, UserBooks
  <1>3. points'[u] = points[u] + d
    BY <1>1 DEF MoneyTypes
  <1>4. Authoritative(k + d, b) = b + d * Unit
    <2>1. PICK s \in Nat \ {0} : s = Unit
      BY UnitIsPositive
    <2>2. b \in Int
      OBVIOUS
    <2>3. ((b \div s) + d) * s + (b % s) = b + d * s
      BY <2>2, DivShift, Zenon
    <2>. QED  BY <1>2, <2>1, <2>3 DEF Authoritative
  <1>5. balance'[u] = balance[u] + d * Unit
    BY <1>1, <1>2, <1>3, <1>4 DEF MoneyTypes
  <1>6. /\ points'[u] \in Nat /\ balance'[u] \in Nat
        /\ balance'[u] = Opening[u] * Unit + ledger'[u]
        /\ points'[u] = balance'[u] \div Unit
    BY <1>1, <1>3, <1>5, PointsChange
  <1>7. ASSUME NEW v \in Users, v # u
        PROVE  /\ points'[v] = points[v] /\ balance'[v] = balance[v]
               /\ points[v] \in Nat /\ balance[v] \in Nat
               /\ balance'[v] = Opening[v] * Unit + ledger'[v]
               /\ points'[v] = balance'[v] \div Unit
    <2>1. points'[v] = points[v] /\ balance'[v] = balance[v]
      BY <1>7
    <2>. QED  BY <1>1, <1>7, <2>1 DEF MoneyTypes, UserBooks
  <1>8. \A v \in Users : points'[v] \in Nat /\ balance'[v] \in Nat
    BY <1>6, <1>7
  <1>9. points' \in [Users -> Nat] /\ balance' \in [Users -> Nat]
    BY <1>1, <1>8 DEF MoneyTypes
  <1>10. UserBooks'
    BY <1>6, <1>7 DEF UserBooks
  <1>. QED  BY <1>9, <1>10

LEMMA RewardKeeps ==
  ASSUME LedgerInv, NEW u \in Users, NEW q \in Quests \cup Proposals, RewardQuest(u, q)
  PROVE  LedgerInv'
  <1>1. /\ MoneyTypes /\ TableTypes /\ UserBooks /\ PotBooks /\ ProposalBooks
        /\ \A p \in Proposals : Fits(proposal[p])
    BY InvParts
  <1>2. PICK m \in Nat : m = Reward * Unit
    BY WholePoints, AmountsAreNat
  <1>3. u \in Accounts /\ "reward_issuance" \in Accounts /\ u # "reward_issuance"
    BY NamesDiffer DEF FixedAccounts
  <1>4. /\ ledger' \in [Accounts -> Int] /\ ledger'[u] = ledger[u] + m
        /\ ledger'["reward_issuance"] = ledger["reward_issuance"] - m
        /\ \A a \in Accounts : a # "reward_issuance" /\ a # u => ledger'[a] = ledger[a]
    <2>1. Posts("reward", "reward_issuance", u, m)
      BY <1>2 DEF RewardQuest, Posts
    <2>. QED  BY <1>1, <1>3, <2>1, Transferred
  <1>5. points' \in [Users -> Nat] /\ balance' \in [Users -> Nat] /\ UserBooks'
    <2>1. Reward \in Int /\ points[u] + Reward >= 0
      BY <1>1, AmountsAreNat DEF MoneyTypes
    <2>2. \A v \in Users : v # u => ledger'[v] = ledger[v]
      BY <1>4, NamesDiffer DEF FixedAccounts
    <2>3. /\ points' = [points EXCEPT ![u] = @ + Reward]
          /\ balance' = [balance EXCEPT ![u] = Authoritative(points'[u], @)]
      BY DEF RewardQuest
    <2>4. ledger'[u] = ledger[u] + Reward * Unit
      BY <1>2, <1>4
    <2>. QED  BY <2>1, <2>2, <2>3, <2>4, WholeChange
  <1>6. /\ totals' = [totals EXCEPT !.issued = @ + m] /\ totals \in [burned : Nat, treasury : Nat, issued : Nat]
        /\ UNCHANGED <<account, proposal, redeemed, credit, day>>
    BY <1>1, <1>2 DEF RewardQuest, MoneyTypes
  <1>7. MoneyTypes'
    BY <1>1, <1>4, <1>5, <1>6 DEF MoneyTypes
  <1>8. TableTypes'
    BY <1>1, <1>6 DEF TableTypes, RewardQuest
  <1>9. \A a \in Proposals \cup PointAccounts \cup {"burn", "community_treasury", "governance_fee",
          "bond_escrow"} : ledger'[a] = ledger[a]
    BY <1>3, <1>4, NamesDiffer DEF FixedAccounts, PointAccounts
  <1>10. PotBooks'
    <2>1. ledger["reward_issuance"] \in Int
      BY <1>1, <1>3 DEF MoneyTypes
    <2>2. totals.issued = OpeningTotal - ledger["reward_issuance"] /\ totals.issued \in Nat
      BY <1>1, <1>6 DEF PotBooks
    <2>3. totals'.issued = totals.issued + m
      BY <1>6
    <2>4. OpeningTotal \in Int
      BY OpeningIsNat
    <2>5. totals'.issued = OpeningTotal - ledger'["reward_issuance"]
      BY <1>4, <2>1, <2>2, <2>3, <2>4
    <2>. QED  BY <1>1, <1>6, <1>9, <2>5 DEF PotBooks
  <1>11. ProposalBooks'
    BY <1>1, <1>6, <1>9 DEF ProposalBooks, BondsHeld
  <1>12. \A p \in Proposals : Fits(proposal'[p])
    BY <1>1, <1>6
  <1>. QED  BY <1>5, <1>7, <1>8, <1>10, <1>11, <1>12, InvFromParts

\* A voucher paid to the settlement account.
LEMMA SettleKeeps ==
  ASSUME LedgerInv, NEW u \in Users, RedeemVoucher(u, FALSE)
  PROVE  LedgerInv'
  <1>1. /\ MoneyTypes /\ TableTypes /\ UserBooks /\ PotBooks /\ ProposalBooks
        /\ \A p \in Proposals : Fits(proposal[p])
    BY InvParts
  <1>2. PICK m \in Nat : m = VoucherCost * Unit
    BY WholePoints, AmountsAreNat
  <1>3. u \in Accounts /\ "merchant_settlement" \in Accounts /\ u # "merchant_settlement"
    BY NamesDiffer DEF FixedAccounts
  <1>4. /\ ledger' \in [Accounts -> Int] /\ ledger'[u] = ledger[u] - m
        /\ \A a \in Accounts : a # u /\ a # "merchant_settlement" => ledger'[a] = ledger[a]
    <2>1. Posts("voucher", u, "merchant_settlement", m)
      BY <1>2 DEF RedeemVoucher, Posts
    <2>. QED  BY <1>1, <1>3, <2>1, Transferred
  <1>5. points' \in [Users -> Nat] /\ balance' \in [Users -> Nat] /\ UserBooks'
    <2>1. PICK d \in Int : d = 0 - VoucherCost
      BY AmountsAreNat
    <2>2. points[u] + d >= 0
      <3>1. VoucherCost \in Nat
        BY AmountsAreNat
      <3>2. points[u] >= VoucherCost /\ points[u] \in Nat
        BY <1>1 DEF RedeemVoucher, MoneyTypes
      <3>. QED  BY <2>1, <3>1, <3>2
    <2>3. \A v \in Users : v # u => ledger'[v] = ledger[v]
      BY <1>4, NamesDiffer DEF FixedAccounts
    <2>4. points' = [points EXCEPT ![u] = @ + d]
      <3>1. points[u] - VoucherCost = points[u] + d
        BY <1>1, <2>1, AmountsAreNat DEF MoneyTypes
      <3>2. points' = [points EXCEPT ![u] = @ - VoucherCost]
        BY DEF RedeemVoucher
      <3>. QED  BY <3>1, <3>2
    <2>5. balance' = [balance EXCEPT ![u] = Authoritative(points'[u], @)]
      BY DEF RedeemVoucher
    <2>6. ledger'[u] = ledger[u] + d * Unit
      <3>1. d * Unit = 0 - m
        BY <1>2, <2>1, WholePoints, AmountsAreNat
      <3>2. ledger[u] \in Int
        BY <1>1, <1>3 DEF MoneyTypes
      <3>. QED  BY <1>4, <3>1, <3>2
    <2>. QED  BY <2>2, <2>3, <2>4, <2>5, <2>6, WholeChange
  <1>6. UNCHANGED <<totals, account, proposal, credit, approved, day>>
    BY DEF RedeemVoucher
  <1>7. MoneyTypes'
    BY <1>1, <1>4, <1>5, <1>6 DEF MoneyTypes
  <1>8. TableTypes'
    BY <1>1, <1>6 DEF TableTypes, RedeemVoucher
  <1>9. \A a \in Proposals \cup PointAccounts \cup {"burn", "community_treasury", "governance_fee",
          "bond_escrow", "reward_issuance"} : ledger'[a] = ledger[a]
    BY <1>3, <1>4, NamesDiffer DEF FixedAccounts, PointAccounts
  <1>10. PotBooks'
    BY <1>1, <1>6, <1>9 DEF PotBooks
  <1>11. ProposalBooks'
    BY <1>1, <1>6, <1>9 DEF ProposalBooks, BondsHeld
  <1>12. \A p \in Proposals : Fits(proposal'[p])
    BY <1>1, <1>6
  <1>. QED  BY <1>5, <1>7, <1>8, <1>10, <1>11, <1>12, InvFromParts

LEMMA MovedKeeps ==
  ASSUME LedgerInv, NEW from \in Movers, NEW to \in Movers, from # to, NEW n \in Nat,
         MovePoints(from, to, n), UNCHANGED <<totals, proposal, approved, day>>,
         redeemed' \subseteq Users, credit' \in [Credits -> CreditRow]
  PROVE  LedgerInv'
  <1>1. MoneyTypes' /\ UserBooks' /\ PotBooks' /\ ProposalBooks'
    BY MoveKeeps
  <1>2. TableTypes /\ \A p \in Proposals : Fits(proposal[p])
    BY InvParts
  <1>3. TableTypes' /\ \A p \in Proposals : Fits(proposal'[p])
    BY <1>2 DEF TableTypes
  <1>. QED  BY <1>1, <1>3, InvFromParts

LEMMA CreditsStayRows ==
  ASSUME LedgerInv, NEW row \in CreditRow, InsertCredit(row)
  PROVE  credit' \in [Credits -> CreditRow]
  BY InvParts DEF InsertCredit, TableTypes

LEMMA DayIsNat == LedgerInv => day \in Nat /\ redeemed \subseteq Users /\ credit \in [Credits -> CreditRow]
  BY InvParts DEF TableTypes

LEMMA CreditIsRow ==
  ASSUME LedgerInv, NEW source \in {"simulated_purchase", "admin_grant", "voucher_income"}, NEW n \in Nat
  PROVE  [NoCredit EXCEPT !.source = source, !.points = n, !.day = day] \in CreditRow
  BY DayIsNat DEF NoCredit, CreditRow

LEMMA MerchantKeeps ==
  ASSUME LedgerInv, NEW n \in Nat, PurchasePoints(n) \/ GrantPoints(n)
  PROVE  LedgerInv'
  <1>1. PICK source \in {"simulated_purchase", "admin_grant"} :
          InsertCredit([NoCredit EXCEPT !.source = source, !.points = n, !.day = day])
    BY DEF PurchasePoints, GrantPoints
  <1>2. [NoCredit EXCEPT !.source = source, !.points = n, !.day = day] \in CreditRow
    BY CreditIsRow
  <1>3. credit' \in [Credits -> CreditRow]
    BY <1>1, <1>2, CreditsStayRows
  <1>4. /\ MovePoints("merchant_issuance", "merchant", n)
        /\ UNCHANGED <<totals, proposal, approved, day>> /\ redeemed' \subseteq Users
    BY DayIsNat DEF PurchasePoints, GrantPoints
  <1>5. "merchant_issuance" \in Movers /\ "merchant" \in Movers
    BY DEF Movers, PointAccounts
  <1>. QED  BY <1>3, <1>4, <1>5, MovedKeeps

LEMMA CorrectKeeps ==
  ASSUME LedgerInv, NEW c \in Credits, NEW n \in Nat, CorrectPoints(c, n)
  PROVE  LedgerInv'
  <1>1. [source |-> "admin_correction", points |-> n, reverses |-> c, day |-> day] \in CreditRow
    BY DayIsNat DEF CreditRow
  <1>2. credit' \in [Credits -> CreditRow]
    BY <1>1, CreditsStayRows DEF CorrectPoints
  <1>3. /\ MovePoints("merchant", "merchant_issuance", n)
        /\ UNCHANGED <<totals, proposal, approved, day>> /\ redeemed' \subseteq Users
    BY DayIsNat DEF CorrectPoints
  <1>4. "merchant_issuance" \in Movers /\ "merchant" \in Movers
    BY DEF Movers, PointAccounts
  <1>. QED  BY <1>2, <1>3, <1>4, MovedKeeps

LEMMA RedeemKeeps ==
  ASSUME LedgerInv, NEW u \in Users, NEW income \in BOOLEAN, RedeemVoucher(u, income)
  PROVE  LedgerInv'
  <1>1. CASE income = FALSE
    BY <1>1, SettleKeeps
  <1>2. CASE income = TRUE
    <2>1. /\ MovePoints(u, "merchant", VoucherCost)
          /\ InsertCredit([NoCredit EXCEPT !.source = "voucher_income",
                             !.points = VoucherCost, !.day = day])
          /\ UNCHANGED <<totals, proposal, approved, day>> /\ redeemed' \subseteq Users
      BY <1>2, DayIsNat DEF RedeemVoucher
    <2>2. [NoCredit EXCEPT !.source = "voucher_income", !.points = VoucherCost, !.day = day] \in CreditRow
      <3>1. PICK n \in Nat : n = VoucherCost
        BY AmountsAreNat
      <3>2. [NoCredit EXCEPT !.source = "voucher_income", !.points = n, !.day = day] \in CreditRow
        BY CreditIsRow
      <3>. QED  BY <3>1, <3>2
    <2>3. credit' \in [Credits -> CreditRow]
      BY <2>1, <2>2, CreditsStayRows
    <2>4. u \in Movers /\ "merchant" \in Movers /\ u # "merchant"
      BY NamesDiffer DEF Movers, PointAccounts
    <2>5. PICK n \in Nat : n = VoucherCost
      BY AmountsAreNat
    <2>6. MovePoints(u, "merchant", n)
      BY <2>1, <2>5
    <2>. QED  BY <2>1, <2>3, <2>4, <2>6, MovedKeeps
  <1>. QED  BY <1>1, <1>2

LEMMA FundingKeeps ==
  ASSUME LedgerInv, NEW u \in Users, NEW n \in Nat, FundQuest(u, n) \/ PayFundedReward(u, n)
  PROVE  LedgerInv'
  <1>1. u \in Movers /\ "quest_hold" \in Movers /\ u # "quest_hold"
    BY NamesDiffer DEF Movers, PointAccounts
  <1>2. /\ UNCHANGED <<totals, proposal, approved, day>>
        /\ redeemed' \subseteq Users /\ credit' \in [Credits -> CreditRow]
    BY DayIsNat DEF FundQuest, PayFundedReward
  <1>3. CASE FundQuest(u, n)
    BY <1>1, <1>2, <1>3, MovedKeeps DEF FundQuest
  <1>4. CASE PayFundedReward(u, n)
    BY <1>1, <1>2, <1>4, MovedKeeps DEF PayFundedReward
  <1>. QED  BY <1>3, <1>4

LEMMA NextDayKeeps ==
  ASSUME LedgerInv, NextDay
  PROVE  LedgerInv'
  <1>1. UNCHANGED <<points, balance, ledger, totals, account, proposal, approved, redeemed, credit>>
    BY DEF NextDay, money
  <1>2. day' \in Nat
    BY DayIsNat DEF NextDay
  <1>. QED  BY <1>1, <1>2 DEF LedgerInv, LedgerTypeOK, UserBooks, PotBooks, ProposalBooks, BondsHeld

LEMMA StutterKeeps ==
  ASSUME LedgerInv, UNCHANGED ledgerVars
  PROVE  LedgerInv'
  BY DEF ledgerVars, LedgerInv, LedgerTypeOK, UserBooks, PotBooks, ProposalBooks, BondsHeld

-----------------------------------------------------------------------------
(* The points ledger: the theorem *)

LEMMA LedgerStarts == LedgerInit => LedgerInv
  <1>. SUFFICES ASSUME LedgerInit PROVE LedgerInv
    OBVIOUS
  <1>1. OpeningTotal \in Nat
    BY OpeningIsNat
  <1>2. MoneyTypes
    <2>. QED  BY <1>1, OpeningIsNat, LedgerNumbers DEF LedgerInit, MoneyTypes
  <1>3. TableTypes
    <2>1. NoCredit \in CreditRow
      BY DEF NoCredit, CreditRow
    <2>. QED  BY <2>1, NoProposalIsRow DEF LedgerInit, TableTypes
  <1>4. \A a \in Accounts : ledger[a] = 0
    BY DEF LedgerInit
  <1>5. \A u \in Users : /\ balance[u] = Opening[u] * Unit + ledger[u]
                         /\ points[u] = balance[u] \div Unit
    <2>1. ASSUME NEW u \in Users
          PROVE  /\ balance[u] = Opening[u] * Unit + ledger[u]
                 /\ points[u] = balance[u] \div Unit
      <3>1. PICK k \in Nat, s \in Nat \ {0} : k = Opening[u] /\ s = Unit
        BY LedgerNumbers, UnitIsPositive
      <3>2. balance[u] = k * s /\ points[u] = k /\ ledger[u] = 0
        BY <1>4, <3>1, NamesDiffer DEF LedgerInit
      <3>3. k * s \in Int /\ k * s = k * s + 0 /\ 0 \in 0..(s - 1)
        OBVIOUS
      <3>4. (k * s) \div s = k
        BY <3>3, DivUnique
      <3>. QED  BY <3>1, <3>2, <3>3, <3>4
    <2>. QED  BY <2>1
  <1>6. PotBooks
    <2>1. \A a \in PointAccounts : account[a] = 0 /\ account[a] * Unit = 0
      BY WholePoints DEF LedgerInit
    <2>2. PointAccounts \subseteq Accounts /\ {"burn", "community_treasury", "governance_fee",
            "reward_issuance"} \subseteq Accounts
      BY NamesDiffer DEF FixedAccounts
    <2>. QED  BY <1>1, <1>4, <2>1, <2>2 DEF PotBooks, LedgerInit
  <1>7. ProposalBooks
    <2>1. BondsHeld = {}
      BY NoProposalIsRow DEF BondsHeld, LedgerInit
    <2>2. Bond * Cardinality(BondsHeld) = 0
      BY <2>1, FS_EmptySet, AmountsAreNat
    <2>3. "bond_escrow" \in Accounts /\ \A p \in Proposals : p \in Accounts
      BY NamesDiffer DEF FixedAccounts
    <2>. QED  BY <1>4, <2>2, <2>3, NoProposalIsRow DEF ProposalBooks, LedgerInit
  <1>8. \A p \in Proposals : Fits(proposal[p])
    BY NoProposalIsRow DEF LedgerInit, Fits, Unscreened
  <1>. QED  BY <1>2, <1>3, <1>5, <1>6, <1>7, <1>8, LedgerTypesSplit DEF LedgerInv, UserBooks, TableTypes

LEMMA ProposalStepKeeps ==
  ASSUME LedgerInv, NEW p \in Proposals, ProposalStep(p)
  PROVE  LedgerInv'
  <1>1. ASSUME NEW u \in Users, NEW shares \in ShareSets, CreateProposal(p, u, shares)
        PROVE  LedgerInv'
    BY <1>1, CreateKeeps
  <1>2. CASE SubmitProposal(p) \/ ScreenReject(p)
    BY <1>2, SubmitKeeps
  <1>3. CASE ScreenApprove(p)
    BY <1>3, ScreenApproveKeeps
  <1>4. ASSUME NEW u \in Users, NEW yes \in BOOLEAN, CastVote(p, u, yes) PROVE LedgerInv'
    BY <1>4, CastVoteKeeps
  <1>5. ASSUME NEW u \in Users, NEW yes \in BOOLEAN, CastFeedback(p, u, yes) PROVE LedgerInv'
    BY <1>5, CastFeedbackKeeps
  <1>6. ASSUME NEW force \in BOOLEAN, CloseVoting(p, force) PROVE LedgerInv'
    BY <1>6, CloseVotingKeeps
  <1>7. ASSUME NEW force \in BOOLEAN, CloseFeedback(p, force) PROVE LedgerInv'
    BY <1>7, CloseFeedbackKeeps
  <1>8. ASSUME NEW target \in {"scheduled", "active", "feedback", "disputed"}, Transition(p, target)
        PROVE  LedgerInv'
    BY <1>8, TransitionKeeps
  <1>9. CASE FinalizePayout(p)
    BY <1>9, FinalizeKeeps
  <1>10. ASSUME NEW percent \in Percents, NEW action \in {"refund", "slash_50", "slash_100"},
                ResolveDispute(p, percent, action)
         PROVE  LedgerInv'
    BY <1>10, ResolveKeeps
  <1>11. CASE WindowEnds(p)
    BY <1>11, WindowEndsKeeps
  <1>. QED  BY <1>1, <1>2, <1>3, <1>4, <1>5, <1>6, <1>7, <1>8, <1>9, <1>10, <1>11 DEF ProposalStep

LEMMA MerchantStepKeeps ==
  ASSUME LedgerInv, MerchantStep
  PROVE  LedgerInv'
  <1>1. \A n \in Packages : n \in Nat
    BY LedgerNumbers
  <1>2. ASSUME NEW n \in Packages, PurchasePoints(n) \/ GrantPoints(n) PROVE LedgerInv'
    BY <1>1, <1>2, MerchantKeeps
  <1>3. ASSUME NEW c \in Credits, NEW n \in Packages, CorrectPoints(c, n) PROVE LedgerInv'
    BY <1>1, <1>3, CorrectKeeps
  <1>4. ASSUME NEW u \in Users, NEW income \in BOOLEAN, RedeemVoucher(u, income) PROVE LedgerInv'
    BY <1>4, RedeemKeeps
  <1>5. ASSUME NEW u \in Users, NEW n \in Packages, FundQuest(u, n) \/ PayFundedReward(u, n)
        PROVE  LedgerInv'
    BY <1>1, <1>5, FundingKeeps
  <1>6. CASE NextDay
    BY <1>6, NextDayKeeps
  <1>. QED  BY <1>2, <1>3, <1>4, <1>5, <1>6 DEF MerchantStep

LEMMA LedgerStepKeeps == LedgerInv /\ [LedgerNext]_ledgerVars => LedgerInv'
  <1>. SUFFICES ASSUME LedgerInv, [LedgerNext]_ledgerVars PROVE LedgerInv'
    OBVIOUS
  <1>1. ASSUME NEW p \in Proposals, ProposalStep(p) PROVE LedgerInv'
    BY <1>1, ProposalStepKeeps
  <1>2. ASSUME NEW switches \in ControlSets, UpdateControls(switches) PROVE LedgerInv'
    BY <1>2, ControlsKeep
  <1>3. ASSUME NEW u \in Users, NEW q \in Quests \cup Proposals, RewardQuest(u, q) PROVE LedgerInv'
    BY <1>3, RewardKeeps
  <1>4. CASE MerchantStep
    BY <1>4, MerchantStepKeeps
  <1>5. CASE UNCHANGED ledgerVars
    BY <1>5, StutterKeeps
  <1>. QED  BY <1>1, <1>2, <1>3, <1>4, <1>5 DEF LedgerNext

LEMMA LedgerInvSuffices == LedgerInv => LedgerTypeOK /\ LedgerMatchesState
  <1>. SUFFICES ASSUME LedgerInv PROVE LedgerTypeOK /\ LedgerMatchesState
    OBVIOUS
  <1>1. LedgerTypeOK /\ UserBooks /\ PotBooks /\ ProposalBooks /\ \A p \in Proposals : Fits(proposal[p])
    BY DEF LedgerInv
  <1>2. ASSUME NEW p \in Proposals, proposal[p].state \in Ended
        PROVE  proposal[p].escrow + proposal[p].feedbackEscrow = 0 /\ proposal[p].bond # "locked"
    BY <1>1, <1>2 DEF Fits
  <1>. QED  BY <1>1, <1>2 DEF LedgerMatchesState, UserBooks, PotBooks, ProposalBooks, BondsHeld, Escrow

\* However points were moved, by votes, payouts, rewards, vouchers or the merchant's
\* purchases (governance/store.ts, funding/ledger.ts), a traveler's points are the same in the
\* users table, the snapshot and the ledger, every pot holds what the ledger moved to it, and
\* a proposal that ended holds no fees and no bond.
THEOREM LedgerCorrect == LedgerSpec => [](LedgerTypeOK /\ LedgerMatchesState)
  <1>. QED  BY LedgerStarts, LedgerStepKeeps, LedgerInvSuffices, PTL DEF LedgerSpec

-----------------------------------------------------------------------------
(* The passport: the tables of the quizzes *)

\* The tables of quizzes and attempts have their columns.
QuizColumns(row) ==
  [status |-> row.status, published |-> row.published, content |-> row.content]
AttemptColumns(row) ==
  [quiz |-> row.quiz, status |-> row.status, expires |-> row.expires,
   completed |-> row.completed, xp |-> row.xp, lifelines |-> row.lifelines,
   content |-> row.content]

QuizTable ==
  quiz = [q \in Quizzes |-> quiz[q]] /\ \A q \in Quizzes : quiz[q] = QuizColumns(quiz[q])
AttemptTable ==
  /\ attempt = [a \in QuizAttempts |-> attempt[a]]
  /\ \A a \in QuizAttempts : attempt[a] = AttemptColumns(attempt[a])

\* A published quiz can no longer be edited, so an attempt has its questions.
QuizFits(q) ==
  quiz[q].published \in BOOLEAN /\ (quiz[q].status = "published" => quiz[q].published)
AttemptFits(a) ==
  /\ attempt[a].xp \in Nat
  /\ attempt[a].status = "in_progress" => attempt[a].xp = 0
  /\ attempt[a].status # "none" =>
       /\ attempt[a].quiz \in Quizzes /\ quiz[attempt[a].quiz].published
       /\ attempt[a].content = quiz[attempt[a].quiz].content
  /\ attempt[a].status = "passed" => attempt[a].quiz \in completions

\* What is being submitted runs, and what was seen expired is an attempt.
HeldAttempts ==
  /\ submitting # NoAttempt =>
       submitting \in QuizAttempts /\ attempt[submitting].status = "in_progress"
  /\ viewing # NoAttempt => viewing \in QuizAttempts /\ attempt[viewing].status # "none"

QuizRows ==
  /\ QuizTable /\ AttemptTable /\ HeldAttempts
  /\ \A q \in Quizzes : QuizFits(q)
  /\ \A a \in QuizAttempts : AttemptFits(a)

\* XP of the attempts at a quiz.
XpAt(q) == [a \in QuizAttempts |->
              IF attempt[a].quiz = q /\ attempt[a].status # "none" THEN attempt[a].xp ELSE 0]

QuizBooks ==
  /\ quizEvent \in [Quizzes -> Nat] /\ completions \subseteq Quizzes
  /\ \A q \in Quizzes :
       /\ q \in completions <=> quizEvent[q] > 0
       /\ SumFunctionOnSet(XpAt(q), QuizAttempts) = quizEvent[q]
  /\ quizXp = SumFunctionOnSet(quizEvent, Quizzes)

QuizInv == QuizRows /\ QuizBooks

-----------------------------------------------------------------------------

\* The attempt is as it was, but for its status, its clock and its lifelines;
\* and if the status changed, to one that gives nothing.
Stays(a) ==
  /\ attempt'[a].quiz = attempt[a].quiz /\ attempt'[a].xp = attempt[a].xp
  /\ attempt'[a].content = attempt[a].content
  /\ \/ attempt'[a].status = attempt[a].status
     \/ attempt[a].status # "none" /\ attempt'[a].status \in {"expired", "abandoned"}

QuizStays(q) ==
  /\ quiz'[q].published \in BOOLEAN
  /\ quiz[q].published => quiz'[q].published /\ quiz'[q].content = quiz[q].content
  /\ quiz'[q].status = "published" => quiz[q].status = "published" \/ quiz'[q].published

LEMMA BooksStand ==
  ASSUME QuizInv, UNCHANGED grading, \A a \in QuizAttempts : Stays(a)
  PROVE  QuizBooks'
  <1>1. quizEvent' = quizEvent /\ completions' = completions /\ quizXp' = quizXp
    BY DEF grading
  <1>2. ASSUME NEW q \in Quizzes PROVE XpAt(q)' = XpAt(q)
    <2>1. \A a \in QuizAttempts :
            (attempt'[a].quiz = q /\ attempt'[a].status # "none")
               <=> (attempt[a].quiz = q /\ attempt[a].status # "none")
      BY DEF Stays
    <2>2. \A a \in QuizAttempts : attempt'[a].xp = attempt[a].xp
      BY DEF Stays
    <2>. QED  BY <2>1, <2>2 DEF XpAt
  <1>. QED  BY <1>1, <1>2 DEF QuizInv, QuizBooks

LEMMA RowsStand ==
  ASSUME QuizInv, QuizTable', AttemptTable', HeldAttempts', completions' = completions,
         \A a \in QuizAttempts : Stays(a), \A q \in Quizzes : QuizStays(q)
  PROVE  QuizRows'
  <1>1. ASSUME NEW q \in Quizzes PROVE QuizFits(q)'
    BY DEF QuizInv, QuizRows, QuizFits, QuizStays
  <1>2. ASSUME NEW a \in QuizAttempts PROVE AttemptFits(a)'
    <2>1. Stays(a) /\ AttemptFits(a)
      BY DEF QuizInv, QuizRows
    <2>2. attempt'[a].status = "none" <=> attempt[a].status = "none"
      BY <2>1 DEF Stays
    <2>3. attempt'[a].status # "none" =>
            /\ attempt'[a].quiz \in Quizzes /\ quiz'[attempt'[a].quiz].published
            /\ attempt'[a].content = quiz'[attempt'[a].quiz].content
      BY <2>1, <2>2 DEF Stays, AttemptFits, QuizStays
    <2>. QED  BY <2>1, <2>3 DEF Stays, AttemptFits
  <1>. QED  BY <1>1, <1>2 DEF QuizRows

LEMMA RenamedStays ==
  ASSUME QuizInv, NEW table, table \subseteq {a \in QuizAttempts : attempt[a].status # "none"},
         NEW status \in {"expired", "abandoned"}, attempt' = Rename(table, status)
  PROVE  /\ AttemptTable' /\ \A a \in QuizAttempts : Stays(a)
         /\ \A a \in QuizAttempts \ table : attempt'[a] = attempt[a]
  <1>1. AttemptTable
    BY DEF QuizInv, QuizRows
  <1>2. ASSUME NEW a \in QuizAttempts
        PROVE  attempt'[a] = IF a \in table THEN [attempt[a] EXCEPT !.status = status] ELSE attempt[a]
    BY DEF Rename
  <1>3. ASSUME NEW a \in QuizAttempts
        PROVE  /\ attempt'[a] = AttemptColumns(attempt'[a]) /\ Stays(a)
    <2>1. CASE a \in table
      <3>1. attempt[a] = AttemptColumns(attempt[a]) /\ attempt[a].status # "none"
        BY <1>1, <2>1 DEF AttemptTable
      <3>2. attempt'[a] = [attempt[a] EXCEPT !.status = status]
        BY <1>2, <2>1
      <3>. QED  BY <3>1, <3>2 DEF AttemptColumns, Stays
    <2>2. CASE a \notin table
      BY <1>1, <1>2, <2>2 DEF AttemptTable, Stays
    <2>. QED  BY <2>1, <2>2
  <1>4. attempt' = [a \in QuizAttempts |-> attempt'[a]]
    BY DEF Rename
  <1>. QED  BY <1>2, <1>3, <1>4 DEF AttemptTable

\* An update of one row of the attempts.
LEMMA AttemptUpdated ==
  ASSUME AttemptTable, NEW a \in QuizAttempts, NEW row, row = AttemptColumns(row),
         attempt' = [attempt EXCEPT ![a] = row]
  PROVE  AttemptTable' /\ attempt'[a] = row /\ \A b \in QuizAttempts \ {a} : attempt'[b] = attempt[b]
  BY DEF AttemptTable

LEMMA QuizUpdated ==
  ASSUME QuizTable, NEW q \in Quizzes, NEW row, row = QuizColumns(row),
         quiz' = [quiz EXCEPT ![q] = row]
  PROVE  QuizTable' /\ quiz'[q] = row /\ \A p \in Quizzes \ {q} : quiz'[p] = quiz[p]
  BY DEF QuizTable

LEMMA QuizMoves ==
  ASSUME QuizInv, NEW q \in Quizzes, NEW row, row = QuizColumns(row),
         quiz' = [quiz EXCEPT ![q] = row],
         row.published \in BOOLEAN,
         quiz[q].published => row.published /\ row.content = quiz[q].content,
         row.status = "published" => quiz[q].status = "published" \/ row.published
  PROVE  QuizTable' /\ \A p \in Quizzes : QuizStays(p)
  <1>1. QuizTable' /\ quiz'[q] = row /\ \A p \in Quizzes \ {q} : quiz'[p] = quiz[p]
    BY QuizUpdated DEF QuizInv, QuizRows
  <1>2. QuizStays(q)
    BY <1>1 DEF QuizStays
  <1>3. ASSUME NEW p \in Quizzes \ {q} PROVE QuizStays(p)
    BY <1>1 DEF QuizStays, QuizInv, QuizRows, QuizFits
  <1>. QED  BY <1>1, <1>2, <1>3

\* Steps of the admin that change one quiz, and no attempt.
LEMMA QuizOnly ==
  ASSUME QuizInv, NEW q \in Quizzes, NEW row, row = QuizColumns(row),
         quiz' = [quiz EXCEPT ![q] = row], UNCHANGED <<attempt, grading, requests>>,
         row.published \in BOOLEAN,
         quiz[q].published => row.published /\ row.content = quiz[q].content,
         row.status = "published" => quiz[q].status = "published" \/ row.published
  PROVE  QuizInv'
  <1>1. attempt' = attempt /\ completions' = completions /\ submitting' = submitting /\ viewing' = viewing
    BY DEF grading, requests
  <1>2. QuizTable' /\ \A p \in Quizzes : QuizStays(p)
    BY QuizMoves
  <1>3. AttemptTable' /\ HeldAttempts' /\ \A a \in QuizAttempts : Stays(a)
    BY <1>1 DEF QuizInv, QuizRows, AttemptTable, HeldAttempts, Stays
  <1>. QED  BY <1>1, <1>2, <1>3, RowsStand, BooksStand DEF QuizInv

LEMMA AdminSteps ==
  ASSUME QuizInv, NEW q \in Quizzes, QuizAdmin(q)
  PROVE  QuizInv'
  <1>. DEFINE row == quiz[q]
  <1>0. row = QuizColumns(row) /\ QuizFits(q)
    BY DEF QuizInv, QuizRows, QuizTable
  <1>1. CASE CreateQuizDraft(q)
    <2>1. PICK new : new = [status |-> "draft", published |-> row.published, content |-> row.content]
      OBVIOUS
    <2>2. [row EXCEPT !.status = "draft"] = new
      BY <1>0, <2>1 DEF QuizColumns
    <2>3. quiz' = [quiz EXCEPT ![q] = new] /\ UNCHANGED <<attempt, grading, requests>>
      BY <1>1, <2>2 DEF CreateQuizDraft
    <2>4. /\ new = QuizColumns(new) /\ new.published = row.published /\ new.content = row.content
          /\ new.status = "draft"
      BY <2>1 DEF QuizColumns
    <2>. QED  BY <1>0, <2>3, <2>4, QuizOnly DEF QuizFits
  <1>2. CASE UpdateQuizDraft(q)
    <2>1. PICK new : new = [status |-> row.status, published |-> row.published, content |-> row.content + 1]
      OBVIOUS
    <2>2. [row EXCEPT !.content = row.content + 1] = new
      BY <1>0, <2>1 DEF QuizColumns
    <2>3. /\ quiz' = [quiz EXCEPT ![q] = new] /\ UNCHANGED <<attempt, grading, requests>>
          /\ row.status = "draft" /\ ~row.published
      BY <1>2, <2>2 DEF UpdateQuizDraft
    <2>4. new = QuizColumns(new) /\ new.published = row.published /\ new.status = row.status
      BY <2>1 DEF QuizColumns
    <2>. QED  BY <1>0, <2>3, <2>4, QuizOnly DEF QuizFits
  <1>3. CASE PublishQuiz(q)
    <2>1. PICK new : new = [status |-> "published", published |-> TRUE, content |-> row.content]
      OBVIOUS
    <2>2. PICK old : old = [status |-> "published", published |-> row.published, content |-> row.content]
      OBVIOUS
    <2>3. /\ quiz' = [quiz EXCEPT ![q] = new]
          /\ UNCHANGED <<attempt, grading, requests>>
      <3>1. [row EXCEPT !.status = "published"] = old /\ [old EXCEPT !.published = TRUE] = new
        <4>1. [row EXCEPT !.status = "published"] = old
          BY <1>0, <2>2 DEF QuizColumns
        <4>2. ASSUME NEW status, NEW yes, NEW a, a = [status |-> status, published |-> row.published, content |-> row.content],
                     NEW b, b = [status |-> status, published |-> yes, content |-> row.content]
              PROVE  [a EXCEPT !.published = yes] = b
          BY <4>2
        <4>3. [old EXCEPT !.published = TRUE] = new
          BY <2>1, <2>2, <4>2
        <4>. QED  BY <4>1, <4>3
      <3>2. quiz = [p \in Quizzes |-> quiz[p]]
        BY DEF QuizInv, QuizRows, QuizTable
      <3>3. quiz' = [[quiz EXCEPT ![q] = old] EXCEPT ![q] = [old EXCEPT !.published = TRUE]]
        BY <1>3, <3>1, <3>2 DEF PublishQuiz
      <3>4. quiz' = [[quiz EXCEPT ![q] = old] EXCEPT ![q] = new]
        BY <3>1, <3>3
      <3>. QED  BY <1>3, <3>2, <3>4 DEF PublishQuiz
    <2>4. new = QuizColumns(new) /\ new.published = TRUE /\ new.content = row.content
      BY <2>1 DEF QuizColumns
    <2>. QED  BY <2>3, <2>4, QuizOnly
  <1>4. ASSUME NEW status \in {"paused", "archived"}, SetQuizStatus(q, status) PROVE QuizInv'
    <2>1. PICK new : new = [status |-> status, published |-> row.published, content |-> row.content]
      OBVIOUS
    <2>2. [row EXCEPT !.status = status] = new
      BY <1>0, <2>1 DEF QuizColumns
    <2>3. quiz' = [quiz EXCEPT ![q] = new] /\ UNCHANGED <<attempt, grading, requests>>
      BY <1>4, <2>2 DEF SetQuizStatus
    <2>4. /\ new = QuizColumns(new) /\ new.published = row.published /\ new.content = row.content
          /\ new.status # "published"
      BY <2>1 DEF QuizColumns
    <2>. QED  BY <1>0, <2>3, <2>4, QuizOnly DEF QuizFits
  <1>5. CASE RevokeQuiz(q)
    <2>1. PICK new : new = [status |-> "archived", published |-> row.published, content |-> row.content]
      OBVIOUS
    <2>2. [row EXCEPT !.status = "archived"] = new
      BY <1>0, <2>1 DEF QuizColumns
    <2>3. /\ quiz' = [quiz EXCEPT ![q] = new] /\ UNCHANGED <<grading, requests>>
          /\ submitting \notin Active(q) /\ attempt' = Rename(Active(q), "abandoned")
      BY <1>5, <2>2 DEF RevokeQuiz
    <2>4. /\ new = QuizColumns(new) /\ new.published = row.published /\ new.content = row.content
          /\ new.status # "published"
      BY <2>1 DEF QuizColumns
    <2>5. QuizTable' /\ \A p \in Quizzes : QuizStays(p)
      BY <1>0, <2>3, <2>4, QuizMoves DEF QuizFits
    <2>6. Active(q) \subseteq {a \in QuizAttempts : attempt[a].status # "none"}
      BY DEF Active, AttemptsAt
    <2>7. /\ AttemptTable' /\ \A a \in QuizAttempts : Stays(a)
          /\ \A a \in QuizAttempts \ Active(q) : attempt'[a] = attempt[a]
      BY <2>3, <2>6, RenamedStays
    <2>8. completions' = completions /\ submitting' = submitting /\ viewing' = viewing
      BY <2>3 DEF grading, requests
    <2>9. HeldAttempts'
      BY <2>3, <2>7, <2>8 DEF HeldAttempts, QuizInv, QuizRows, Stays
    <2>. QED  BY <2>3, <2>5, <2>7, <2>8, <2>9, RowsStand, BooksStand DEF QuizInv
  <1>. QED  BY <1>1, <1>2, <1>3, <1>4, <1>5 DEF QuizAdmin

\* A new attempt: the row was not there, and its quiz is published.
LEMMA StartSteps ==
  ASSUME QuizInv, NEW a \in QuizAttempts, NEW q \in Quizzes, StartQuiz(a, q)
  PROVE  QuizInv'
  <1>. DEFINE late == {b \in Active(q) : OverTime(b)}
              swept == Rename(late, "expired")
  <1>1. /\ submitting = NoAttempt /\ quiz[q].status = "published" /\ attempt[a].status = "none"
        /\ UNCHANGED <<quiz, grading, requests>>
    BY DEF StartQuiz
  <1>2. PICK row : /\ row = AttemptColumns(row) /\ row.quiz = q /\ row.status = "in_progress"
                   /\ row.xp = 0 /\ row.content = quiz[q].content
                   /\ attempt' = [swept EXCEPT ![a] = row]
    <2>1. PICK new : new = [quiz |-> q, status |-> "in_progress", expires |-> clock + TimeLimit,
                            completed |-> 0, xp |-> 0, lifelines |-> {}, content |-> quiz[q].content]
      OBVIOUS
    <2>2. [NoRow EXCEPT !.quiz = q, !.status = "in_progress", !.expires = clock + TimeLimit,
                        !.content = quiz[q].content] = new
      <3>1. PICK some : some = CHOOSE p \in Quizzes : TRUE
        OBVIOUS
      <3>2. NoRow = [quiz |-> some, status |-> "none", expires |-> 0, completed |-> 0, xp |-> 0,
                     lifelines |-> {}, content |-> 0]
        BY <3>1 DEF NoRow
      <3>3. PICK until : until = clock + TimeLimit
        OBVIOUS
      <3>4. PICK questions : questions = quiz[q].content
        OBVIOUS
      <3>5. new = [quiz |-> q, status |-> "in_progress", expires |-> until, completed |-> 0, xp |-> 0,
                   lifelines |-> {}, content |-> questions]
        BY <2>1, <3>3, <3>4
      <3>6. [NoRow EXCEPT !.quiz = q, !.status = "in_progress", !.expires = until,
                          !.content = questions] = new
        <4>1. PICK none, zero, nothing, status :
                none = "none" /\ zero = 0 /\ nothing = {} /\ status = "in_progress"
          OBVIOUS
        <4>2. PICK old : old = [quiz |-> some, status |-> none, expires |-> zero, completed |-> zero,
                                xp |-> zero, lifelines |-> nothing, content |-> zero]
          OBVIOUS
        <4>3. PICK r : r = [quiz |-> q, status |-> none, expires |-> zero, completed |-> zero,
                            xp |-> zero, lifelines |-> nothing, content |-> zero]
          OBVIOUS
        <4>4. PICK s : s = [quiz |-> q, status |-> status, expires |-> zero, completed |-> zero,
                            xp |-> zero, lifelines |-> nothing, content |-> zero]
          OBVIOUS
        <4>5. PICK t : t = [quiz |-> q, status |-> status, expires |-> until, completed |-> zero,
                            xp |-> zero, lifelines |-> nothing, content |-> zero]
          OBVIOUS
        <4>6. PICK u : u = [quiz |-> q, status |-> status, expires |-> until, completed |-> zero,
                            xp |-> zero, lifelines |-> nothing, content |-> questions]
          OBVIOUS
        <4>7. [old EXCEPT !.quiz = q] = r /\ [r EXCEPT !.status = status] = s
          BY <4>2, <4>3, <4>4
        <4>8. [s EXCEPT !.expires = until] = t /\ [t EXCEPT !.content = questions] = u
          BY <4>4, <4>5, <4>6
        <4>9. [old EXCEPT !.quiz = q, !.status = status, !.expires = until, !.content = questions]
                = [[[[old EXCEPT !.quiz = q] EXCEPT !.status = status] EXCEPT !.expires = until]
                     EXCEPT !.content = questions]
          OBVIOUS
        <4>10. NoRow = old /\ new = u
          BY <3>2, <3>5, <4>1, <4>2, <4>6
        <4>11. [old EXCEPT !.quiz = q, !.status = status, !.expires = until, !.content = questions] = u
          BY <4>7, <4>8, <4>9
        <4>. QED  BY <4>1, <4>10, <4>11
      <3>. QED  BY <3>3, <3>4, <3>6
    <2>3. attempt' = [swept EXCEPT ![a] = new]
      BY <2>2 DEF StartQuiz
    <2>4. /\ new = AttemptColumns(new) /\ new.quiz = q /\ new.status = "in_progress"
          /\ new.xp = 0 /\ new.content = quiz[q].content
      BY <2>1 DEF AttemptColumns
    <2>. QED  BY <2>3, <2>4
  <1>3. late \subseteq {b \in QuizAttempts : attempt[b].status # "none"} /\ a \notin late
    BY <1>1 DEF Active, AttemptsAt
  <1>4. /\ attempt' = [b \in QuizAttempts |-> attempt'[b]] /\ attempt'[a] = row
        /\ \A b \in QuizAttempts \ {a} :
             attempt'[b] = IF b \in late THEN [attempt[b] EXCEPT !.status = "expired"] ELSE attempt[b]
    BY <1>2 DEF Rename
  <1>5. ASSUME NEW b \in QuizAttempts \ {a} PROVE attempt'[b] = AttemptColumns(attempt'[b]) /\ Stays(b)
    <2>1. attempt[b] = AttemptColumns(attempt[b])
      BY DEF QuizInv, QuizRows, AttemptTable
    <2>2. CASE b \in late
      <3>1. attempt'[b] = [attempt[b] EXCEPT !.status = "expired"] /\ attempt[b].status # "none"
        BY <1>3, <1>4, <2>2
      <3>. QED  BY <2>1, <3>1 DEF AttemptColumns, Stays
    <2>3. CASE b \notin late
      BY <1>4, <2>1, <2>3 DEF Stays
    <2>. QED  BY <2>2, <2>3
  <1>6. AttemptTable' /\ QuizTable'
    BY <1>1, <1>2, <1>4, <1>5 DEF AttemptTable, QuizInv, QuizRows, QuizTable
  <1>7. /\ quizEvent' = quizEvent /\ completions' = completions /\ quizXp' = quizXp
        /\ submitting' = NoAttempt /\ viewing' = viewing /\ quiz' = quiz
    BY <1>1 DEF grading, requests
  <1>8. HeldAttempts'
    BY <1>1, <1>2, <1>4, <1>5, <1>7 DEF HeldAttempts, QuizInv, QuizRows, Stays
  <1>9. ASSUME NEW b \in QuizAttempts PROVE AttemptFits(b)'
    <2>1. CASE b = a
      BY <1>1, <1>2, <1>4, <1>7, <2>1 DEF AttemptFits, QuizInv, QuizRows, QuizFits
    <2>2. CASE b # a
      BY <1>5, <1>7, <2>2 DEF AttemptFits, QuizInv, QuizRows, Stays
    <2>. QED  BY <2>1, <2>2
  <1>10. QuizRows'
    BY <1>6, <1>7, <1>8, <1>9 DEF QuizInv, QuizRows, QuizFits
  <1>11. ASSUME NEW p \in Quizzes PROVE XpAt(p)' = XpAt(p)
    <2>1. \A b \in QuizAttempts \ {a} :
             /\ (attempt'[b].quiz = p /\ attempt'[b].status # "none")
                  <=> (attempt[b].quiz = p /\ attempt[b].status # "none")
             /\ attempt'[b].xp = attempt[b].xp
      BY <1>5 DEF Stays
    <2>2. attempt[a].status = "none" /\ attempt'[a].xp = 0
      BY <1>1, <1>2, <1>4
    <2>. QED  BY <2>1, <2>2 DEF XpAt
  <1>12. QuizBooks'
    BY <1>7, <1>11 DEF QuizInv, QuizBooks
  <1>. QED  BY <1>10, <1>12 DEF QuizInv

\* A lifeline, a look at a quiz, and what becomes of an attempt seen expired.
LEMMA TravelerSteps ==
  ASSUME QuizInv, NEW a \in QuizAttempts,
         \/ \E lifeline \in Lifelines : UseLifeline(a, lifeline)
         \/ BeginSubmit(a) \/ ViewQuiz(a) \/ AbortSubmit \/ MarkExpired \/ QuizClock
  PROVE  QuizInv'
  <1>1. QuizTable' /\ (\A q \in Quizzes : QuizStays(q)) /\ UNCHANGED grading /\ completions' = completions
    BY DEF UseLifeline, BeginSubmit, ViewQuiz, AbortSubmit, MarkExpired, QuizClock, grading,
           QuizInv, QuizRows, QuizTable, QuizStays, QuizFits
  <1>2. AttemptTable' /\ HeldAttempts' /\ \A b \in QuizAttempts : Stays(b)
    <2>1. ASSUME NEW lifeline, UseLifeline(a, lifeline)
          PROVE  AttemptTable' /\ HeldAttempts' /\ \A b \in QuizAttempts : Stays(b)
      <3>1. PICK row : row = [quiz |-> attempt[a].quiz, status |-> attempt[a].status,
                              expires |-> attempt[a].expires, completed |-> attempt[a].completed,
                              xp |-> attempt[a].xp, lifelines |-> attempt[a].lifelines \cup {lifeline},
                              content |-> attempt[a].content]
        OBVIOUS
      <3>2. attempt[a] = AttemptColumns(attempt[a])
        BY DEF QuizInv, QuizRows, AttemptTable
      <3>3. [attempt[a] EXCEPT !.lifelines = attempt[a].lifelines \cup {lifeline}] = row
        BY <3>1, <3>2 DEF AttemptColumns
      <3>4. attempt' = [attempt EXCEPT ![a] = row] /\ UNCHANGED requests
        BY <2>1, <3>3 DEF UseLifeline
      <3>5. /\ row = AttemptColumns(row) /\ row.status = attempt[a].status /\ row.xp = attempt[a].xp
            /\ row.quiz = attempt[a].quiz /\ row.content = attempt[a].content
        BY <3>1 DEF AttemptColumns
      <3>6. AttemptTable' /\ attempt'[a] = row /\ \A b \in QuizAttempts \ {a} : attempt'[b] = attempt[b]
        BY <3>4, <3>5, AttemptUpdated DEF QuizInv, QuizRows
      <3>7. \A b \in QuizAttempts : Stays(b)
        BY <3>5, <3>6 DEF Stays
      <3>8. \A b \in QuizAttempts : attempt'[b].status = attempt[b].status
        BY <3>5, <3>6
      <3>. QED  BY <3>4, <3>6, <3>7, <3>8 DEF requests, HeldAttempts, QuizInv, QuizRows
    <2>2. ASSUME NEW b \in QuizAttempts, attempt[b].status # "none", submitting # b,
                 attempt' = Rename({b}, "expired"),
                 submitting' = submitting, viewing' \in {viewing, NoAttempt}
          PROVE  AttemptTable' /\ HeldAttempts' /\ \A d \in QuizAttempts : Stays(d)
      <3>1. {b} \subseteq {d \in QuizAttempts : attempt[d].status # "none"}
        BY <2>2
      <3>2. /\ AttemptTable' /\ \A d \in QuizAttempts : Stays(d)
            /\ \A d \in QuizAttempts \ {b} : attempt'[d] = attempt[d]
        BY <2>2, <3>1, RenamedStays
      <3>. QED  BY <2>2, <3>2 DEF HeldAttempts, QuizInv, QuizRows, Stays
    <2>3. ASSUME attempt' = attempt,
                 submitting' = submitting \/ submitting' = NoAttempt \/ (submitting' = a /\ attempt[a].status = "in_progress"),
                 viewing' = viewing \/ (viewing' = a /\ attempt[a].status # "none")
          PROVE  AttemptTable' /\ HeldAttempts' /\ \A b \in QuizAttempts : Stays(b)
      BY <2>3 DEF HeldAttempts, QuizInv, QuizRows, AttemptTable, Stays
    <2>4. CASE BeginSubmit(a)
      <3>1. /\ submitting = NoAttempt /\ attempt[a].status = "in_progress" /\ viewing' = viewing
            /\ \/ attempt' = Rename({a}, "expired") /\ submitting' = submitting
               \/ submitting' = a /\ attempt' = attempt
        BY <2>4 DEF BeginSubmit
      <3>. QED  BY <2>2, <2>3, <3>1, NoAttemptIsNone
    <2>5. CASE MarkExpired
      <3>1. /\ viewing # NoAttempt /\ submitting # viewing /\ attempt' = Rename({viewing}, "expired")
            /\ submitting' = submitting /\ viewing' = NoAttempt
        BY <2>5 DEF MarkExpired
      <3>2. viewing \in QuizAttempts /\ attempt[viewing].status # "none"
        BY <3>1 DEF HeldAttempts, QuizInv, QuizRows
      <3>. QED  BY <2>2, <3>1, <3>2
    <2>6. CASE ViewQuiz(a) \/ AbortSubmit \/ QuizClock
      BY <2>3, <2>6 DEF ViewQuiz, AbortSubmit, QuizClock
    <2>. QED  BY <2>1, <2>4, <2>5, <2>6
  <1>. QED  BY <1>1, <1>2, RowsStand, BooksStand DEF QuizInv

\* Grading gives XP to a quiz that has none, and to no other.
LEMMA GradeSteps ==
  ASSUME QuizInv, NEW score \in Scores, NEW skipped, NEW bonus \in XpBonuses,
         Grade(score, skipped, bonus)
  PROVE  QuizInv'
  <1>1. PICK a \in QuizAttempts : a = submitting /\ attempt[a].status = "in_progress"
    BY DEF Grade, QuizInv, QuizRows, HeldAttempts
  <1>2. PICK q \in Quizzes : q = attempt[a].quiz
    BY <1>1 DEF QuizInv, QuizRows, AttemptFits
  <1>3. PICK status : status = IF score >= 4 THEN "passed" ELSE "failed"
    OBVIOUS
  <1>4. PICK xp \in Nat : /\ xp = IF score >= 4 /\ FirstCompletion(q) THEN XpReward + bonus ELSE 0
                          /\ xp > 0 <=> score >= 4 /\ FirstCompletion(q)
    BY QuizzesReward
  <1>5. PICK row : row = [quiz |-> attempt[a].quiz, status |-> status, expires |-> attempt[a].expires,
                          completed |-> clock, xp |-> xp, lifelines |-> attempt[a].lifelines,
                          content |-> attempt[a].content]
    OBVIOUS
  <1>6. attempt' = [attempt EXCEPT ![a] = row]
    <2>1. attempt[a] = AttemptColumns(attempt[a])
      BY DEF QuizInv, QuizRows, AttemptTable
    <2>2. [attempt[a] EXCEPT !.status = status, !.xp = xp, !.completed = clock] = row
      <3>1. PICK old : old = attempt[a]
        OBVIOUS
      <3>2. PICK r : r = [quiz |-> old.quiz, status |-> status, expires |-> old.expires,
                          completed |-> old.completed, xp |-> old.xp, lifelines |-> old.lifelines,
                          content |-> old.content]
        OBVIOUS
      <3>3. PICK s : s = [quiz |-> old.quiz, status |-> status, expires |-> old.expires,
                          completed |-> old.completed, xp |-> xp, lifelines |-> old.lifelines,
                          content |-> old.content]
        OBVIOUS
      <3>4. [old EXCEPT !.status = status] = r
        BY <2>1, <3>1, <3>2 DEF AttemptColumns
      <3>5. [r EXCEPT !.xp = xp] = s
        BY <3>2, <3>3
      <3>6. [s EXCEPT !.completed = clock] = row
        BY <1>5, <3>1, <3>3
      <3>7. [old EXCEPT !.status = status, !.xp = xp, !.completed = clock]
              = [[[old EXCEPT !.status = status] EXCEPT !.xp = xp] EXCEPT !.completed = clock]
        OBVIOUS
      <3>. QED  BY <3>1, <3>4, <3>5, <3>6, <3>7
    <2>3. attempt' = [attempt EXCEPT ![a] = [attempt[a] EXCEPT !.status = status, !.xp = xp,
                                                              !.completed = clock]]
      BY <1>1, <1>2, <1>3, <1>4 DEF Grade, QuizInv, QuizRows
    <2>. QED  BY <2>2, <2>3
  <1>7. /\ row = AttemptColumns(row) /\ row.quiz = q /\ row.status = status /\ row.xp = xp
        /\ row.content = attempt[a].content
    BY <1>2, <1>5 DEF AttemptColumns
  <1>8. AttemptTable' /\ attempt'[a] = row /\ \A b \in QuizAttempts \ {a} : attempt'[b] = attempt[b]
    BY <1>6, <1>7, AttemptUpdated DEF QuizInv, QuizRows
  <1>9. /\ quiz' = quiz /\ viewing' = viewing /\ submitting' = NoAttempt
        /\ IF xp > 0
           THEN /\ quizEvent' = [quizEvent EXCEPT ![q] = xp]
                /\ completions' = completions \cup {q} /\ quizXp' = quizXp + xp
           ELSE quizEvent' = quizEvent /\ completions' = completions /\ quizXp' = quizXp
    BY <1>1, <1>2, <1>4 DEF Grade, grading
  <1>10. QuizRows'
    <2>1. QuizTable' /\ HeldAttempts' /\ \A p \in Quizzes : QuizFits(p)'
      BY <1>1, <1>3, <1>7, <1>8, <1>9 DEF QuizInv, QuizRows, QuizTable, HeldAttempts, QuizFits
    <2>2. AttemptFits(a)'
      <3>1. score >= 4 => q \in completions'
        BY <1>4, <1>9 DEF FirstCompletion, QuizInv, QuizBooks
      <3>2. /\ quiz'[q].published /\ attempt'[a].content = quiz'[q].content
            /\ attempt'[a].quiz = q /\ attempt'[a].xp \in Nat
        BY <1>1, <1>2, <1>7, <1>8, <1>9 DEF QuizInv, QuizRows, AttemptFits
      <3>3. attempt'[a].status # "in_progress" /\ (attempt'[a].status = "passed" => score >= 4)
        BY <1>3, <1>7, <1>8
      <3>. QED  BY <3>1, <3>2, <3>3 DEF AttemptFits
    <2>3. ASSUME NEW b \in QuizAttempts \ {a} PROVE AttemptFits(b)'
      <3>1. attempt'[b] = attempt[b] /\ quiz' = quiz /\ completions \subseteq completions'
        BY <1>8, <1>9
      <3>. QED  BY <3>1 DEF QuizInv, QuizRows, AttemptFits
    <2>. QED  BY <1>8, <2>1, <2>2, <2>3 DEF QuizRows
  <1>11. \A p \in Quizzes : XpAt(p) \in [QuizAttempts -> Nat] /\ XpAt(p)' \in [QuizAttempts -> Nat]
    BY <1>10 DEF QuizInv, QuizRows, AttemptFits, XpAt
  <1>12. ASSUME NEW p \in Quizzes
         PROVE  /\ \A b \in QuizAttempts \ {a} : XpAt(p)'[b] = XpAt(p)[b]
                /\ XpAt(p)[a] = 0 /\ XpAt(p)'[a] = IF p = q THEN xp ELSE 0
    <2>1. attempt[a].xp = 0
      BY <1>1 DEF QuizInv, QuizRows, AttemptFits
    <2>2. status # "none"
      BY <1>3
    <2>3. \A b \in QuizAttempts \ {a} : XpAt(p)'[b] = XpAt(p)[b]
      BY <1>8 DEF XpAt
    <2>. QED  BY <1>7, <1>8, <2>1, <2>2, <2>3 DEF XpAt
  <1>13. ASSUME NEW p \in Quizzes
         PROVE  SumFunctionOnSet(XpAt(p)', QuizAttempts)
                  = SumFunctionOnSet(XpAt(p), QuizAttempts) + (IF p = q THEN xp ELSE 0)
    <2>1. PICK old \in [QuizAttempts -> Nat], new \in [QuizAttempts -> Nat] : old = XpAt(p) /\ new = XpAt(p)'
      BY <1>11
    <2>2. SumFunctionOnSet(new, QuizAttempts) = SumFunctionOnSet(old, QuizAttempts) + new[a] - old[a]
      BY <1>12, <2>1, QuizzesAreFinite, SumUpdated
    <2>3. SumFunctionOnSet(old, QuizAttempts) \in Int
      BY QuizzesAreFinite, SumIsInt
    <2>. QED  BY <1>12, <2>1, <2>2, <2>3
  <1>14. QuizBooks'
    <2>1. CASE xp > 0
      <3>1. q \notin completions /\ quizEvent[q] = 0
        BY <1>4, <2>1 DEF FirstCompletion
      <3>2. /\ quizEvent' \in [Quizzes -> Nat] /\ completions' \subseteq Quizzes
            /\ quizEvent'[q] = xp /\ q \in completions'
            /\ \A p \in Quizzes \ {q} : quizEvent'[p] = quizEvent[p] /\ (p \in completions' <=> p \in completions)
        BY <1>9, <2>1 DEF QuizInv, QuizBooks
      <3>3. \A p \in Quizzes : SumFunctionOnSet(XpAt(p)', QuizAttempts) = quizEvent'[p]
        <4>1. \A p \in Quizzes : SumFunctionOnSet(XpAt(p), QuizAttempts) = quizEvent[p] /\ quizEvent[p] \in Nat
          BY DEF QuizInv, QuizBooks
        <4>. QED  BY <1>13, <3>1, <3>2, <4>1
      <3>4. SumFunctionOnSet(quizEvent', Quizzes) = SumFunctionOnSet(quizEvent, Quizzes) + quizEvent'[q] - quizEvent[q]
        <4>1. PICK old \in [Quizzes -> Nat], new \in [Quizzes -> Nat] : old = quizEvent /\ new = quizEvent'
          BY <3>2 DEF QuizInv, QuizBooks
        <4>2. SumFunctionOnSet(new, Quizzes) = SumFunctionOnSet(old, Quizzes) + new[q] - old[q]
          BY <3>2, <4>1, QuizzesAreFinite, SumUpdated
        <4>. QED  BY <4>1, <4>2
      <3>5. SumFunctionOnSet(quizEvent, Quizzes) \in Int
        BY QuizzesAreFinite, SumIsInt DEF QuizInv, QuizBooks
      <3>6. quizXp' = SumFunctionOnSet(quizEvent', Quizzes)
        BY <1>9, <2>1, <3>1, <3>2, <3>4, <3>5 DEF QuizInv, QuizBooks
      <3>7. \A p \in Quizzes : p \in completions' <=> quizEvent'[p] > 0
        BY <2>1, <3>2 DEF QuizInv, QuizBooks
      <3>. QED  BY <3>2, <3>3, <3>6, <3>7 DEF QuizBooks
    <2>2. CASE ~(xp > 0)
      <3>1. quizEvent' = quizEvent /\ completions' = completions /\ quizXp' = quizXp /\ xp = 0
        BY <1>9, <2>2
      <3>2. \A p \in Quizzes : SumFunctionOnSet(XpAt(p)', QuizAttempts) = quizEvent[p]
        BY <1>13, <3>1 DEF QuizInv, QuizBooks
      <3>. QED  BY <3>1, <3>2 DEF QuizInv, QuizBooks
    <2>. QED  BY <2>1, <2>2
  <1>. QED  BY <1>10, <1>14 DEF QuizInv

LEMMA QuizKept ==
  ASSUME QuizInv, [QuizNext]_quizVars
  PROVE  QuizInv'
  <1>1. CASE UNCHANGED quizVars
    <2>1. /\ quiz' = quiz /\ attempt' = attempt /\ UNCHANGED grading /\ completions' = completions
          /\ submitting' = submitting /\ viewing' = viewing
      BY <1>1 DEF quizVars, grading
    <2>2. /\ QuizTable' /\ AttemptTable' /\ HeldAttempts'
          /\ (\A a \in QuizAttempts : Stays(a)) /\ (\A q \in Quizzes : QuizStays(q))
      BY <2>1 DEF QuizInv, QuizRows, QuizTable, AttemptTable, HeldAttempts, Stays, QuizStays, QuizFits
    <2>. QED  BY <2>1, <2>2, RowsStand, BooksStand DEF QuizInv
  <1>2. ASSUME NEW a \in QuizAttempts, QuizTraveler(a) PROVE QuizInv'
    BY <1>2, StartSteps, TravelerSteps DEF QuizTraveler
  <1>3. CASE AbortSubmit \/ MarkExpired \/ QuizClock
    <2>1. ASSUME AbortSubmit \/ MarkExpired PROVE \E a \in QuizAttempts : TRUE
      BY <2>1 DEF AbortSubmit, MarkExpired, QuizInv, QuizRows, HeldAttempts
    <2>2. CASE \E a \in QuizAttempts : TRUE
      BY <1>3, <2>2, TravelerSteps
    <2>3. CASE QuizClock /\ QuizAttempts = {}
      <3>1. UNCHANGED <<quiz, attempt, grading, submitting, viewing>>
        BY <2>3 DEF QuizClock
      <3>2. completions' = completions /\ (\A a \in QuizAttempts : Stays(a)) /\ (\A q \in Quizzes : QuizStays(q))
        BY <2>3, <3>1 DEF grading, QuizStays, QuizFits, QuizInv, QuizRows
      <3>3. QuizTable' /\ AttemptTable' /\ HeldAttempts'
        BY <3>1 DEF QuizInv, QuizRows, QuizTable, AttemptTable, HeldAttempts
      <3>. QED  BY <3>1, <3>2, <3>3, RowsStand, BooksStand DEF QuizInv
    <2>. QED  BY <1>3, <2>1, <2>2, <2>3
  <1>. QED  BY <1>1, <1>2, <1>3, AdminSteps, GradeSteps DEF QuizNext

LEMMA QuizAtFirst ==
  ASSUME QuizInit
  PROVE  QuizInv
  <1>1. /\ quizEvent = [q \in Quizzes |-> 0] /\ completions = {} /\ quizXp = 0
        /\ submitting = NoAttempt /\ viewing = NoAttempt
        /\ quiz = [q \in Quizzes |-> [status |-> "none", published |-> FALSE, content |-> 0]]
        /\ attempt = [a \in QuizAttempts |-> NoRow]
    BY DEF QuizInit
  <1>2. NoRow = AttemptColumns(NoRow) /\ NoRow.status = "none" /\ NoRow.xp = 0
    <2>1. PICK some : some = CHOOSE p \in Quizzes : TRUE
      OBVIOUS
    <2>2. PICK r : r = [quiz |-> some, status |-> "none", expires |-> 0, completed |-> 0, xp |-> 0,
                        lifelines |-> {}, content |-> 0]
      OBVIOUS
    <2>3. NoRow = r
      BY <2>1, <2>2 DEF NoRow
    <2>. QED  BY <2>2, <2>3 DEF AttemptColumns
  <1>3. QuizRows
    <2>1. \A a \in QuizAttempts : attempt[a] = NoRow
      BY <1>1
    <2>2. AttemptTable /\ \A a \in QuizAttempts : AttemptFits(a)
      BY <1>1, <1>2, <2>1 DEF AttemptTable, AttemptFits
    <2>3. PICK row : row = [status |-> "none", published |-> FALSE, content |-> 0]
      OBVIOUS
    <2>4. quiz = [q \in Quizzes |-> row]
      BY <1>1, <2>3
    <2>5. row = QuizColumns(row) /\ row.published \in BOOLEAN /\ row.status = "none"
      BY <2>3 DEF QuizColumns
    <2>6. QuizTable /\ \A q \in Quizzes : QuizFits(q)
      BY <2>4, <2>5 DEF QuizTable, QuizFits
    <2>. QED  BY <1>1, <2>2, <2>6 DEF QuizRows, HeldAttempts
  <1>4. \A q \in Quizzes : SumFunctionOnSet(XpAt(q), QuizAttempts) = 0
    <2>1. ASSUME NEW q \in Quizzes PROVE SumFunctionOnSet(XpAt(q), QuizAttempts) = 0
      <3>1. \A a \in QuizAttempts : XpAt(q)[a] = 0
        BY <1>1, <1>2 DEF XpAt
      <3>2. SumFunctionOnSet(XpAt(q), QuizAttempts) = 0 * Cardinality(QuizAttempts)
        BY <3>1, QuizzesAreFinite, SumOfConstant
      <3>. QED  BY <3>2, QuizzesAreFinite, FS_CardinalityType
    <2>. QED  BY <2>1
  <1>5. SumFunctionOnSet(quizEvent, Quizzes) = 0
    <2>1. SumFunctionOnSet(quizEvent, Quizzes) = 0 * Cardinality(Quizzes)
      BY <1>1, QuizzesAreFinite, SumOfConstant
    <2>. QED  BY <2>1, QuizzesAreFinite, FS_CardinalityType
  <1>. QED  BY <1>1, <1>3, <1>4, <1>5 DEF QuizInv, QuizBooks

\* Only the attempts at a quiz have XP of it.
LEMMA XpInSum ==
  ASSUME QuizInv, NEW q \in Quizzes
  PROVE  SumFunctionOnSet(XpAt(q), QuizAttempts) = MapThenSumSet(LAMBDA a : attempt[a].xp, AttemptsAt(q))
  <1>. DEFINE mine == AttemptsAt(q)
              gain == [a \in mine |-> attempt[a].xp]
  <1>1. mine \subseteq QuizAttempts /\ IsFiniteSet(mine) /\ IsFiniteSet(QuizAttempts \ mine)
    BY QuizzesAreFinite, FS_Subset DEF AttemptsAt
  <1>2. \A a \in QuizAttempts : attempt[a].xp \in Nat
    BY DEF QuizInv, QuizRows, AttemptFits
  <1>3. \A a \in mine : gain[a] = XpAt(q)[a] /\ gain[a] \in Int
    BY <1>2 DEF XpAt, AttemptsAt
  <1>4. \A a \in QuizAttempts \ mine : XpAt(q)[a] = 0
    BY DEF XpAt, AttemptsAt
  <1>5. \A a \in QuizAttempts : XpAt(q)[a] \in Int
    BY <1>2 DEF XpAt
  <1>. HIDE DEF mine
  <1>6. SumFunctionOnSet(gain, mine) = MapThenSumSet(LAMBDA a : attempt[a].xp, mine)
    BY ZenonT(40) DEF MapThenSumSet, MapThenFoldSet, SumFunctionOnSet, FoldFunctionOnSet
  <1>. HIDE DEF gain
  <1>7. PICK all : all = XpAt(q)
    OBVIOUS
  <1>8. SumFunctionOnSet(all, QuizAttempts \ mine) = SumFunctionOnSet(all, QuizAttempts) - SumFunctionOnSet(all, mine)
    BY <1>1, <1>5, <1>7, QuizzesAreFinite, SumOfRest
  <1>9. SumFunctionOnSet(all, QuizAttempts \ mine) = 0
    <2>1. SumFunctionOnSet(all, QuizAttempts \ mine) = 0 * Cardinality(QuizAttempts \ mine)
      BY <1>1, <1>4, <1>7, SumOfConstant
    <2>. QED  BY <1>1, <2>1, FS_CardinalityType
  <1>10. SumFunctionOnSet(all, mine) = SumFunctionOnSet(gain, mine)
    BY <1>1, <1>3, <1>7, SumOfEqual
  <1>11. SumFunctionOnSet(all, QuizAttempts) \in Int /\ SumFunctionOnSet(all, mine) \in Int
    BY <1>1, <1>5, <1>7, QuizzesAreFinite, SumIsInt
  <1>12. SumFunctionOnSet(all, QuizAttempts) = SumFunctionOnSet(gain, mine)
    BY <1>8, <1>9, <1>10, <1>11
  <1>. QED  BY <1>6, <1>7, <1>12 DEF mine

LEMMA EventsInSum ==
  ASSUME QuizInv
  PROVE  SumFunctionOnSet(quizEvent, Quizzes) = MapThenSumSet(LAMBDA q : quizEvent[q], Quizzes)
  BY ZenonT(40) DEF MapThenSumSet, MapThenFoldSet, SumFunctionOnSet, FoldFunctionOnSet

\* Every quiz gives its XP once, and what was given adds up.
THEOREM QuizzesCorrect == QuizSpec => []XpOncePerQuiz
  <1>1. QuizInit => QuizInv
    BY QuizAtFirst
  <1>2. QuizInv /\ [QuizNext]_quizVars => QuizInv'
    BY QuizKept
  <1>3. QuizInv => XpOncePerQuiz
    <2>1. ASSUME QuizInv PROVE XpOncePerQuiz
      <3>1. ASSUME NEW q \in Quizzes, NEW a \in AttemptsAt(q)
            PROVE  /\ attempt[a].status = "passed" => q \in completions
                   /\ attempt[a].content = quiz[q].content
        BY <2>1 DEF AttemptsAt, QuizInv, QuizRows, AttemptFits
      <3>2. quizXp = MapThenSumSet(LAMBDA q : quizEvent[q], Quizzes)
        BY <2>1, EventsInSum DEF QuizInv, QuizBooks
      <3>3. ASSUME NEW q \in Quizzes
            PROVE  /\ q \in completions <=> quizEvent[q] > 0
                   /\ MapThenSumSet(LAMBDA a : attempt[a].xp, AttemptsAt(q)) = quizEvent[q]
        <4>1. SumFunctionOnSet(XpAt(q), QuizAttempts) = quizEvent[q] /\ (q \in completions <=> quizEvent[q] > 0)
          BY <2>1 DEF QuizInv, QuizBooks
        <4>. QED  BY <2>1, <4>1, XpInSum
      <3>. QED  BY <3>1, <3>2, <3>3 DEF XpOncePerQuiz
    <2>. QED  BY <2>1
  <1>. QED  BY <1>1, <1>2, <1>3, PTL DEF QuizSpec

-----------------------------------------------------------------------------
(* The passport: the types of the quizzes *)

\* The rows of the attempts.
AttemptRow ==
  [quiz : Quizzes, expires : Nat, completed : Nat, xp : Nat,
   status : {"none", "in_progress", "expired", "abandoned", "passed", "failed"},
   lifelines : SUBSET Lifelines, content : 0..MaxContent]

LEMMA QuizLimitsHold ==
  /\ TimeLimit \in Nat /\ Cooldown \in Nat /\ MaxContent \in Nat /\ MaxClock \in Nat
  BY QuizLimits

\* An attempt that is not there has a row of its type.
LEMMA NoRowFits == NoRow \in AttemptRow
  <1>1. PICK q : q = CHOOSE p \in Quizzes : TRUE
    OBVIOUS
  <1>2. q \in Quizzes
    BY <1>1, QuizLimits
  <1>3. NoRow = [quiz |-> q, status |-> "none", expires |-> 0, completed |-> 0, xp |-> 0,
                 lifelines |-> {}, content |-> 0]
    BY <1>1 DEF NoRow
  <1>. QED  BY <1>2, <1>3, QuizLimitsHold DEF AttemptRow

\* An attempt with another status is a row of the table.
LEMMA RenameFits ==
  ASSUME attempt \in [QuizAttempts -> AttemptRow], NEW table,
         NEW status \in {"expired", "abandoned"}
  PROVE  Rename(table, status) \in [QuizAttempts -> AttemptRow]
  <1>1. ASSUME NEW a \in QuizAttempts PROVE [attempt[a] EXCEPT !.status = status] \in AttemptRow
    BY DEF AttemptRow
  <1>. QED  BY <1>1 DEF Rename

LEMMA QuizRowFits ==
  ASSUME quiz \in [Quizzes -> QuizRow], NEW q \in Quizzes, QuizAdmin(q)
  PROVE  quiz' \in [Quizzes -> QuizRow]
  <1>1. CASE CreateQuizDraft(q)
    BY <1>1 DEF CreateQuizDraft, QuizRow
  <1>2. CASE UpdateQuizDraft(q)
    <2>1. quiz[q].content + 1 \in 0..MaxContent
      BY <1>2, QuizLimitsHold DEF UpdateQuizDraft, QuizRow
    <2>. QED  BY <1>2, <2>1 DEF UpdateQuizDraft, QuizRow
  <1>3. CASE PublishQuiz(q)
    BY <1>3 DEF PublishQuiz, QuizRow
  <1>4. ASSUME NEW status \in {"paused", "archived"}, SetQuizStatus(q, status)
        PROVE  quiz' \in [Quizzes -> QuizRow]
    BY <1>4 DEF SetQuizStatus, QuizRow
  <1>5. CASE RevokeQuiz(q)
    BY <1>5 DEF RevokeQuiz, QuizRow
  <1>. QED  BY <1>1, <1>2, <1>3, <1>4, <1>5 DEF QuizAdmin

QuizTypes ==
  /\ quiz \in [Quizzes -> QuizRow] /\ attempt \in [QuizAttempts -> AttemptRow]
  /\ quizEvent \in [Quizzes -> Nat] /\ completions \subseteq Quizzes /\ quizXp \in Nat
  /\ {submitting, viewing} \subseteq QuizAttempts \cup {NoAttempt}
  /\ clock \in 0..MaxClock

LEMMA AttemptFitsAfter ==
  ASSUME QuizTypes, NEW a \in QuizAttempts, QuizTraveler(a)
  PROVE  attempt' \in [QuizAttempts -> AttemptRow]
  <1>1. ASSUME NEW q \in Quizzes, StartQuiz(a, q) PROVE attempt' \in [QuizAttempts -> AttemptRow]
    <2>1. PICK swept : swept = Rename({b \in Active(q) : OverTime(b)}, "expired")
      OBVIOUS
    <2>2. PICK row : row = [NoRow EXCEPT !.quiz = q, !.status = "in_progress",
                     !.expires = clock + TimeLimit, !.content = quiz[q].content]
      OBVIOUS
    <2>3. swept \in [QuizAttempts -> AttemptRow]
      BY <2>1, RenameFits DEF QuizTypes
    <2>4. clock + TimeLimit \in Nat /\ quiz[q].content \in 0..MaxContent
      BY QuizLimitsHold DEF QuizTypes, QuizRow
    <2>5. row \in AttemptRow
      BY <2>2, <2>4, NoRowFits DEF AttemptRow
    <2>6. attempt' = [swept EXCEPT ![a] = row]
      BY <1>1, <2>1, <2>2 DEF StartQuiz
    <2>. QED  BY <2>3, <2>5, <2>6
  <1>2. ASSUME NEW l \in Lifelines, UseLifeline(a, l) PROVE attempt' \in [QuizAttempts -> AttemptRow]
    BY <1>2 DEF UseLifeline, QuizTypes, AttemptRow
  <1>3. CASE BeginSubmit(a)
    BY <1>3, RenameFits DEF BeginSubmit, QuizTypes
  <1>4. CASE ViewQuiz(a)
    BY <1>4 DEF ViewQuiz, QuizTypes
  <1>. QED  BY <1>1, <1>2, <1>3, <1>4 DEF QuizTraveler

LEMMA GradeFits ==
  ASSUME QuizTypes, HeldAttempts, NEW score \in Scores, NEW skipped, NEW bonus \in XpBonuses,
         Grade(score, skipped, bonus)
  PROVE  QuizTypes'
  <1>1. PICK xp \in Nat : xp = IF score >= 4 /\ FirstCompletion(attempt[submitting].quiz)
                                 THEN XpReward + bonus ELSE 0
    BY QuizzesReward
  <1>2. PICK status \in {"passed", "failed"} : status = IF score >= 4 THEN "passed" ELSE "failed"
    OBVIOUS
  <1>3. submitting \in QuizAttempts /\ attempt[submitting].quiz \in Quizzes /\ clock \in Nat
    BY QuizLimitsHold DEF Grade, HeldAttempts, QuizTypes, AttemptRow
  <1>4. attempt' \in [QuizAttempts -> AttemptRow]
    <2>1. attempt' = [attempt EXCEPT ![submitting].status = status, ![submitting].xp = xp,
                                     ![submitting].completed = clock]
      BY <1>1, <1>2 DEF Grade
    <2>2. PICK f : f = [attempt EXCEPT ![submitting].status = status]
      OBVIOUS
    <2>3. PICK g : g = [f EXCEPT ![submitting].xp = xp]
      OBVIOUS
    <2>4. attempt' = [g EXCEPT ![submitting].completed = clock]
      BY <2>1, <2>2, <2>3, <1>3 DEF QuizTypes
    <2>5. f \in [QuizAttempts -> AttemptRow]
      BY <1>3, <2>2 DEF QuizTypes, AttemptRow
    <2>6. g \in [QuizAttempts -> AttemptRow]
      BY <1>3, <2>3, <2>5 DEF AttemptRow
    <2>. QED  BY <1>3, <2>4, <2>6 DEF AttemptRow
  <1>5. quizEvent' \in [Quizzes -> Nat] /\ completions' \subseteq Quizzes /\ quizXp' \in Nat
    <2>1. CASE xp > 0
      <3>1. /\ quizEvent' = [quizEvent EXCEPT ![attempt[submitting].quiz] = xp]
            /\ completions' = completions \cup {attempt[submitting].quiz}
            /\ quizXp' = quizXp + xp
        BY <1>1, <2>1 DEF Grade
      <3>. QED  BY <1>3, <3>1 DEF QuizTypes
    <2>2. CASE ~(xp > 0)
      BY <1>1, <2>2 DEF Grade, grading, QuizTypes
    <2>. QED  BY <2>1, <2>2
  <1>6. UNCHANGED <<quiz, viewing, clock>> /\ submitting' = NoAttempt
    BY DEF Grade
  <1>. QED  BY <1>4, <1>5, <1>6 DEF QuizTypes

LEMMA QuizTypesKept ==
  ASSUME QuizTypes, HeldAttempts, [QuizNext]_quizVars
  PROVE  QuizTypes'
  <1>1. ASSUME NEW q \in Quizzes, QuizAdmin(q) PROVE QuizTypes'
    <2>1. quiz' \in [Quizzes -> QuizRow]
      BY <1>1, QuizRowFits DEF QuizTypes
    <2>2. UNCHANGED <<grading, requests>>
      BY <1>1 DEF QuizAdmin, CreateQuizDraft, UpdateQuizDraft, PublishQuiz, SetQuizStatus, RevokeQuiz
    <2>3. attempt' \in [QuizAttempts -> AttemptRow]
      <3>1. CASE RevokeQuiz(q)
        BY <3>1, RenameFits DEF RevokeQuiz, QuizTypes
      <3>2. CASE ~RevokeQuiz(q)
        BY <1>1, <3>2 DEF QuizAdmin, CreateQuizDraft, UpdateQuizDraft, PublishQuiz, SetQuizStatus,
                          QuizTypes
      <3>. QED  BY <3>1, <3>2
    <2>. QED  BY <2>1, <2>2, <2>3 DEF grading, requests, QuizTypes
  <1>2. ASSUME NEW a \in QuizAttempts, QuizTraveler(a) PROVE QuizTypes'
    <2>1. attempt' \in [QuizAttempts -> AttemptRow]
      BY <1>2, AttemptFitsAfter
    <2>2. /\ UNCHANGED <<quiz, grading, clock>>
          /\ submitting' \in {submitting, a} /\ viewing' \in {viewing, a}
      BY <1>2 DEF QuizTraveler, StartQuiz, UseLifeline, BeginSubmit, ViewQuiz, requests
    <2>. QED  BY <1>2, <2>1, <2>2 DEF grading, QuizTypes
  <1>3. CASE AbortSubmit
    BY <1>3 DEF AbortSubmit, grading, QuizTypes
  <1>4. CASE MarkExpired
    <2>1. attempt' \in [QuizAttempts -> AttemptRow]
      BY <1>4, RenameFits DEF MarkExpired, QuizTypes
    <2>2. UNCHANGED <<quiz, grading, submitting, clock>> /\ viewing' = NoAttempt
      BY <1>4 DEF MarkExpired
    <2>. QED  BY <2>1, <2>2 DEF grading, QuizTypes
  <1>5. CASE QuizClock
    BY <1>5, QuizLimitsHold DEF QuizClock, grading, QuizTypes
  <1>6. CASE UNCHANGED quizVars
    BY <1>6 DEF quizVars, QuizTypes
  <1>. QED  BY <1>1, <1>2, <1>3, <1>4, <1>5, <1>6, GradeFits DEF QuizNext

\* The rows of quizzes and attempts keep their type.
THEOREM QuizzesTyped == QuizSpec => []QuizTypeOK
  <1>1. QuizInit => QuizInv /\ QuizTypes
    <2>1. QuizInit => QuizInv
      BY QuizAtFirst
    <2>2. QuizInit => QuizTypes
      BY NoRowFits, QuizLimitsHold DEF QuizInit, QuizTypes, QuizRow
    <2>. QED  BY <2>1, <2>2
  <1>2. QuizInv /\ QuizTypes /\ [QuizNext]_quizVars => (QuizInv /\ QuizTypes)'
    <2>1. QuizInv /\ [QuizNext]_quizVars => QuizInv'
      BY QuizKept
    <2>2. QuizInv => HeldAttempts
      BY DEF QuizInv, QuizRows
    <2>. QED  BY <2>1, <2>2, QuizTypesKept
  <1>3. QuizTypes => QuizTypeOK
    BY DEF QuizTypes, QuizTypeOK, AttemptRow
  <1>. QED  BY <1>1, <1>2, <1>3, PTL DEF QuizSpec

-----------------------------------------------------------------------------
(* The passport: sums of the column delta *)

Deltas(table) == [row \in table |-> row.delta]
Total(table) == SumFunctionOnSet(Deltas(table), table)
AllInt(table) == IsFiniteSet(table) /\ \A row \in table : row.delta \in Int

LEMMA TotalInSum ==
  ASSUME NEW table
  PROVE  /\ Total(table) = MapThenSumSet(LAMBDA row : row.delta, table)
         /\ Total(table) = ShieldSum(table)
  <1>1. Total(table) = MapThenSumSet(LAMBDA row : row.delta, table)
    BY ZenonT(40) DEF Total, Deltas, MapThenSumSet, MapThenFoldSet, SumFunctionOnSet, FoldFunctionOnSet
  <1>2. Total(table) = ShieldSum(table)
    BY ZenonT(40) DEF Total, Deltas, ShieldSum, MapThenSumSet, MapThenFoldSet, SumFunctionOnSet, FoldFunctionOnSet
  <1>. QED  BY <1>1, <1>2

LEMMA TotalOfNone == Total({}) = 0
  BY SumOfEmpty DEF Total

LEMMA TotalIsInt ==
  ASSUME NEW table, AllInt(table)
  PROVE  Total(table) \in Int
  <1>1. \A row \in table : Deltas(table)[row] \in Int
    BY DEF Deltas, AllInt
  <1>. QED  BY <1>1, SumIsInt DEF Total, AllInt

LEMMA TotalOfBoth ==
  ASSUME NEW S, AllInt(S), NEW T, AllInt(T), S \cap T = {}
  PROVE  AllInt(S \cup T) /\ Total(S \cup T) = Total(S) + Total(T)
  <1>1. IsFiniteSet(S) /\ IsFiniteSet(T) /\ IsFiniteSet(S \cup T)
    BY FS_Union DEF AllInt
  <1>2. PICK all : all = Deltas(S \cup T)
    OBVIOUS
  <1>3. /\ \A row \in S \cup T : all[row] \in Int
        /\ \A row \in S : all[row] = Deltas(S)[row]
        /\ \A row \in T : all[row] = Deltas(T)[row]
    BY <1>2 DEF Deltas, AllInt
  <1>4. SumFunctionOnSet(all, S \cup T) = SumFunctionOnSet(all, S) + SumFunctionOnSet(all, T)
    BY <1>1, <1>3, SumOfDisjoint
  <1>5. SumFunctionOnSet(all, S) = Total(S) /\ SumFunctionOnSet(all, T) = Total(T)
    BY <1>1, <1>3, SumOfEqual DEF Total
  <1>. QED  BY <1>1, <1>2, <1>4, <1>5 DEF Total, AllInt

LEMMA TotalWith ==
  ASSUME NEW S, AllInt(S), NEW row, row \notin S, row.delta \in Int
  PROVE  AllInt(S \cup {row}) /\ Total(S \cup {row}) = Total(S) + row.delta
  <1>1. AllInt({row}) /\ Total({row}) = row.delta
    <2>1. PICK w : w = Deltas({row})
      OBVIOUS
    <2>2. w[row] = row.delta
      BY <2>1 DEF Deltas
    <2>3. SumFunctionOnSet(w, {row}) = w[row]
      BY <2>2, SumOfOne
    <2>. QED  BY <2>1, <2>2, <2>3, FS_Singleton DEF Total, AllInt
  <1>2. PICK T : T = {row}
    OBVIOUS
  <1>3. AllInt(T) /\ Total(T) = row.delta /\ S \cap T = {}
    BY <1>1, <1>2
  <1>4. AllInt(S \cup T) /\ Total(S \cup T) = Total(S) + Total(T)
    BY <1>3, TotalOfBoth
  <1>. QED  BY <1>2, <1>3, <1>4

-----------------------------------------------------------------------------
(* The passport: what an award leaves of the ledger *)

Earned(table, w) == {row \in table : row.week = w /\ row.delta > 0}

LEMMA EarnedInSum ==
  ASSUME NEW table, NEW w
  PROVE  WeekStamps(table, w) = Total(Earned(table, w))
  BY TotalInSum DEF WeekStamps, Earned

\* No week earns more than its cap.
Capped(table) == AllInt(table) /\ \A w : WeekStamps(table, w) <= WeeklyCap

\* A chest was earned by the missions of its week.
ChestsEarned(table, pairs) ==
  \A row \in table : row.source = "weekly_chest" =>
    Cardinality({p \in pairs : Week(p[1]) = row.week}) >= ChestRequired

LEMMA EarnedIsInt ==
  ASSUME NEW table, AllInt(table), NEW w
  PROVE  AllInt(Earned(table, w)) /\ WeekStamps(table, w) \in Int
  <1>1. AllInt(Earned(table, w))
    BY FS_Subset DEF AllInt, Earned
  <1>. QED  BY <1>1, EarnedInSum, TotalIsInt

\* A row that is new and earns no more than its week has left.
LEMMA CappedWith ==
  ASSUME NEW table, Capped(table), NEW row, row \notin table, row.delta \in Int,
         row.delta > 0 => row.delta <= WeeklyCap - WeekStamps(table, row.week)
  PROVE  Capped(table \cup {row})
  <1>1. AllInt(table \cup {row})
    BY TotalWith DEF Capped
  <1>2. ASSUME NEW w PROVE WeekStamps(table \cup {row}, w) <= WeeklyCap
    <2>1. CASE row.week = w /\ row.delta > 0
      <3>1. Earned(table \cup {row}, w) = Earned(table, w) \cup {row} /\ row \notin Earned(table, w)
        BY <2>1 DEF Earned
      <3>2. AllInt(Earned(table, w)) /\ WeekStamps(table, w) \in Int
        BY EarnedIsInt DEF Capped
      <3>3. WeekStamps(table \cup {row}, w) = WeekStamps(table, w) + row.delta
        BY <3>1, <3>2, EarnedInSum, TotalWith
      <3>. QED  BY <2>1, <3>2, <3>3, StampAmounts
    <2>2. CASE ~(row.week = w /\ row.delta > 0)
      <3>1. Earned(table \cup {row}, w) = Earned(table, w)
        BY <2>2 DEF Earned
      <3>. QED  BY <3>1, EarnedInSum DEF Capped
    <2>. QED  BY <2>1, <2>2
  <1>. QED  BY <1>1, <1>2 DEF Capped

LEMMA WithinCap ==
  ASSUME NEW used \in Int, NEW amount \in Nat
  PROVE  AwardWithin(used, amount) \in Nat
         /\ (AwardWithin(used, amount) > 0 => AwardWithin(used, amount) <= WeeklyCap - used)
  <1>1. WeeklyCap \in Nat /\ WeeklyCap - used \in Int
    BY StampAmounts
  <1>2. PICK left \in Int : left = Max({0, WeeklyCap - used}) /\ left >= 0
                         /\ (left > 0 => left = WeeklyCap - used)
    BY <1>1, GreaterOfTwo
  <1>3. AwardWithin(used, amount) = IF amount <= left THEN amount ELSE left
    BY <1>2, LesserOfTwo DEF AwardWithin
  <1>. QED  BY <1>1, <1>2, <1>3

LEMMA AwardedIsCapped ==
  ASSUME NEW table, Capped(table), NEW source, NEW key, NEW amount \in Nat, NEW date
  PROVE  LET new == Awarded(table, source, key, amount, date) IN
         /\ Capped(new) /\ table \subseteq new
         /\ \A row \in new \ table : row.source = source /\ row.week = Week(date)
  <1>1. CASE HasRow(table, source, key)
    BY <1>1 DEF Awarded
  <1>2. CASE ~HasRow(table, source, key)
    <2>1. PICK given : given = AwardWithin(WeekStamps(table, Week(date)), amount)
      OBVIOUS
    <2>2. PICK row : row = [source |-> source, key |-> key, week |-> Week(date), delta |-> given]
      OBVIOUS
    <2>3. Awarded(table, source, key, amount, date) = table \cup {row}
      BY <1>2, <2>1, <2>2 DEF Awarded
    <2>4. row.source = source /\ row.key = key /\ row.week = Week(date) /\ row.delta = given
      BY <2>2
    <2>5. row \notin table
      BY <1>2, <2>4 DEF HasRow
    <2>6. given \in Nat /\ (given > 0 => given <= WeeklyCap - WeekStamps(table, Week(date)))
      BY <2>1, EarnedIsInt, WithinCap DEF Capped
    <2>7. Capped(table \cup {row})
      BY <2>4, <2>5, <2>6, CappedWith
    <2>. QED  BY <2>3, <2>4, <2>7
  <1>. QED  BY <1>1, <1>2

LEMMA StampsFollow ==
  ASSUME NEW table, SetStamps(table), Capped(table), stampLedger \subseteq table, Capped(stampLedger),
         stamps = Total(stampLedger)
  PROVE  stampLedger' = table /\ stamps' = Total(table)
  <1>1. PICK new : new = table \ stampLedger
    OBVIOUS
  <1>2. AllInt(new) /\ AllInt(stampLedger) /\ stampLedger \cap new = {} /\ table = stampLedger \cup new
    BY <1>1, FS_Subset DEF Capped, AllInt
  <1>3. Total(table) = Total(stampLedger) + Total(new)
    BY <1>2, TotalOfBoth
  <1>4. stampLedger' = table /\ stamps' = stamps + Total(new)
    BY <1>1, TotalInSum DEF SetStamps
  <1>. QED  BY <1>3, <1>4

-----------------------------------------------------------------------------
(* The passport: its books *)

StreakColumns ==
  streak = [current |-> streak.current, best |-> streak.best, last |-> streak.last,
            shields |-> streak.shields]

LedgerBooks ==
  /\ Capped(stampLedger) /\ stamps = Total(stampLedger)
  /\ ChestsEarned(stampLedger, completed)

Completions == completed \subseteq Dates \X Missions /\ assigned \subseteq Dates \X Missions

\* A shield was used for a date that is claimed, or bought with a row of the ledger.
Backed(e) ==
  /\ e.kind = "consume" => e.key[1] \in Claimed
  /\ e.kind = "purchase" => HasRow(stampLedger, "spend:streak_shield", e.key)

ShieldBooks ==
  /\ AllInt(shieldEvents) /\ streak.shields = Total(shieldEvents)
  /\ streak.shields \in Nat /\ streak.shields <= ShieldsMax
  /\ \A e \in shieldEvents : Backed(e)

StreakBooks ==
  /\ claims \in [Dates -> Nat]
  /\ streak.current \in Nat /\ streak.current <= Cardinality(Claimed)
  /\ streak.last = -1 \/ streak.last \in Claimed

StampInv == StreakColumns /\ LedgerBooks /\ Completions /\ ShieldBooks /\ StreakBooks

LEMMA DatesAreFinite ==
  /\ IsFiniteSet(Dates) /\ Dates \subseteq Nat /\ IsFiniteSet(Dates \X Missions)
  /\ IsFiniteSet(Claimed) /\ Cardinality(Claimed) \in Nat
  <1>1. IsFiniteSet(Dates) /\ Dates \subseteq Nat
    <2>1. LastDay \in Nat
      BY StampAmounts
    <2>. QED  BY <2>1, FS_Interval DEF Dates
  <1>2. IsFiniteSet(Dates \X Missions)
    BY <1>1, MissionAmounts, FS_Union, FS_Product DEF Missions
  <1>3. Claimed \subseteq Dates
    BY DEF Claimed
  <1>4. IsFiniteSet(Claimed)
    BY <1>1, <1>3, FS_Subset
  <1>. QED  BY <1>1, <1>2, <1>4, FS_CardinalityType

\* The month's shield is an event of its own, and none above the maximum.
LEMMA GrantFits ==
  ASSUME ShieldBooks, NEW date
  PROVE  LET grant == MonthlyGrant(date)
             held == streak.shields + ShieldSum(grant) IN
         /\ ShieldSum(grant) \in Int
         /\ \A e \in grant : e.kind = "grant"
         /\ AllInt(shieldEvents \cup grant) /\ Total(shieldEvents \cup grant) = held
         /\ held \in Nat /\ held <= ShieldsMax
  <1>1. ShieldsMax \in Nat
    BY StampAmounts
  <1>2. CASE HasShieldEvent("grant", <<Month(date), "">>)
    <2>1. MonthlyGrant(date) = {}
      BY <1>2 DEF MonthlyGrant
    <2>2. AllInt({}) /\ ShieldSum({}) = 0
      BY FS_EmptySet, TotalInSum, TotalOfNone DEF AllInt
    <2>3. shieldEvents \cup {} = shieldEvents
      OBVIOUS
    <2>. QED  BY <1>1, <2>1, <2>2, <2>3 DEF ShieldBooks
  <1>3. CASE ~HasShieldEvent("grant", <<Month(date), "">>)
    <2>1. PICK given \in Nat : given = IF streak.shields < ShieldsMax THEN 1 ELSE 0
      OBVIOUS
    <2>2. PICK key : key = <<Month(date), "">>
      OBVIOUS
    <2>3. PICK e : e = [kind |-> "grant", key |-> key, delta |-> given]
      OBVIOUS
    <2>4. MonthlyGrant(date) = {e} /\ e.kind = "grant" /\ e.key = key /\ e.delta = given
      BY <1>3, <2>1, <2>2, <2>3 DEF MonthlyGrant
    <2>5. e \notin shieldEvents
      BY <1>3, <2>2, <2>4 DEF HasShieldEvent
    <2>6. AllInt(shieldEvents \cup {e}) /\ Total(shieldEvents \cup {e}) = Total(shieldEvents) + given
      BY <2>4, <2>5, TotalWith DEF ShieldBooks
    <2>7. AllInt({e}) /\ ShieldSum({e}) = given
      <3>1. AllInt({}) /\ e \notin {} /\ e.delta \in Int
        BY <2>4, FS_EmptySet DEF AllInt
      <3>2. AllInt({} \cup {e}) /\ Total({} \cup {e}) = Total({}) + e.delta
        BY <3>1, TotalWith
      <3>3. {} \cup {e} = {e}
        OBVIOUS
      <3>4. PICK T : T = {e}
        OBVIOUS
      <3>5. AllInt(T) /\ Total(T) = given
        BY <2>4, <3>2, <3>3, <3>4, TotalOfNone
      <3>6. ShieldSum(T) = Total(T)
        BY TotalInSum
      <3>. QED  BY <3>4, <3>5, <3>6
    <2>8. streak.shields + given \in Nat /\ streak.shields + given <= ShieldsMax
      BY <1>1, <2>1 DEF ShieldBooks
    <2>. QED  BY <2>4, <2>5, <2>6, <2>7, <2>8 DEF ShieldBooks
  <1>. QED  BY <1>2, <1>3

\* What backs an event stays: claims are not taken back, and table stay.
LEMMA StillBacked ==
  ASSUME \A e \in shieldEvents : Backed(e), Claimed \subseteq Claimed', stampLedger \subseteq stampLedger'
  PROVE  \A e \in shieldEvents : Backed(e)'
  BY DEF Backed, HasRow

LEMMA SlotsGrow ==
  ASSUME NEW table, NEW pairs, NEW more, pairs \subseteq more, more \subseteq Dates \X Missions,
         ChestsEarned(table, pairs)
  PROVE  ChestsEarned(table, more)
  <1>. SUFFICES ASSUME NEW row \in table, row.source = "weekly_chest"
                PROVE  Cardinality({p \in more : Week(p[1]) = row.week}) >= ChestRequired
    BY DEF ChestsEarned
  <1>. DEFINE few == {p \in pairs : Week(p[1]) = row.week}
              many == {p \in more : Week(p[1]) = row.week}
  <1>1. few \subseteq many /\ many \subseteq Dates \X Missions
    OBVIOUS
  <1>2. IsFiniteSet(many) /\ IsFiniteSet(few)
    BY <1>1, DatesAreFinite, FS_Subset
  <1>3. Cardinality(few) <= Cardinality(many) /\ Cardinality(few) \in Nat /\ Cardinality(many) \in Nat
    BY <1>1, <1>2, FS_Subset, FS_CardinalityType
  <1>4. Cardinality(few) >= ChestRequired /\ ChestRequired \in Nat
    BY StampAmounts DEF ChestsEarned
  <1>. QED  BY <1>3, <1>4

\* A day of the cycle is never zero, so what is claimed stays claimed.
LEMMA CycleDayIsNat ==
  ASSUME StreakBooks, NEW date \in Dates
  PROVE  CycleDay(date) \in Nat /\ CycleDay(date) # 0
  <1>. DEFINE before == {d \in Claimed : d < date}
  <1>1. CASE before = {}
    BY <1>1 DEF CycleDay
  <1>2. CASE before # {}
    <2>1. before \subseteq Dates /\ IsFiniteSet(before) /\ \A d \in before : d \in Int
      BY DatesAreFinite, FS_Subset DEF Claimed
    <2>2. Max(before) \in Dates
      <3>. HIDE DEF before
      <3>. QED  BY <1>2, <2>1, GreatestExists
    <2>3. PICK n \in Nat : n = claims[Max(before)]
      BY <2>2 DEF StreakBooks
    <2>4. CycleDay(date) = IF n >= Cycle THEN 1 ELSE n + 1
      BY <1>2, <2>3 DEF CycleDay
    <2>. QED  BY <2>4
  <1>. QED  BY <1>1, <1>2

LEMMA ClaimedGrows ==
  ASSUME StreakBooks, NEW date \in Dates, date \notin Claimed, NEW n \in Nat, n # 0,
         claims' = [claims EXCEPT ![date] = n]
  PROVE  /\ claims' \in [Dates -> Nat] /\ Claimed' = Claimed \cup {date}
         /\ Cardinality(Claimed') = Cardinality(Claimed) + 1
  <1>1. claims' \in [Dates -> Nat] /\ Claimed' = Claimed \cup {date}
    BY DEF StreakBooks, Claimed
  <1>. QED  BY <1>1, DatesAreFinite, FS_AddElement

\* A streak is at most one day longer, and uses no more shields than are held.
LEMMA StreakFits ==
  ASSUME StreakBooks, NEW date \in Dates, NEW held \in Nat
  PROVE  LET next == Streak(date, held) IN
         /\ next.current \in Nat /\ next.current <= Cardinality(Claimed) + 1
         /\ next.consumed \in Nat /\ next.consumed <= held
  <1>1. /\ date \in Int /\ streak.last \in Int /\ streak.current \in Nat
        /\ Cardinality(Claimed) \in Nat /\ streak.current <= Cardinality(Claimed)
    BY DatesAreFinite DEF StreakBooks, Claimed
  <1>2. PICK gap \in Int : gap = date - streak.last
    BY <1>1
  <1>3. Max({1, streak.current}) = IF 1 >= streak.current THEN 1 ELSE streak.current
    BY <1>1, GreaterOfTwo
  <1>4. CASE gap > 1 /\ held >= gap - 1 /\ streak.last # -1
    BY <1>1, <1>2, <1>4 DEF Streak
  <1>5. CASE ~(gap > 1 /\ held >= gap - 1 /\ streak.last # -1)
    <2>1. Streak(date, held) \in {[current |-> 1, consumed |-> 0], [current |-> streak.current + 1, consumed |-> 0],
                                  [current |-> Max({1, streak.current}), consumed |-> 0]}
      BY <1>1, <1>2, <1>5 DEF Streak
    <2>. QED  BY <1>1, <1>3, <2>1
  <1>. QED  BY <1>4, <1>5

-----------------------------------------------------------------------------
(* The passport: requests *)

\* A row other than a chest's changes nothing about chests.
LEMMA ChestsStand ==
  ASSUME NEW table, NEW more, NEW source, source # "weekly_chest",
         \A row \in more \ table : row.source = source, NEW pairs, ChestsEarned(table, pairs)
  PROVE  ChestsEarned(more, pairs)
  BY DEF ChestsEarned

LEMMA AwardedKeepsChests ==
  ASSUME NEW table, Capped(table), NEW source, source # "weekly_chest", NEW key, NEW amount \in Nat,
         NEW date, NEW pairs, ChestsEarned(table, pairs)
  PROVE  LET new == Awarded(table, source, key, amount, date) IN
         Capped(new) /\ table \subseteq new /\ ChestsEarned(new, pairs)
  <1>1. PICK new : new = Awarded(table, source, key, amount, date)
    OBVIOUS
  <1>2. Capped(new) /\ table \subseteq new /\ \A row \in new \ table : row.source = source
    BY <1>1, AwardedIsCapped
  <1>3. ChestsEarned(new, pairs)
    BY <1>2, ChestsStand
  <1>. QED  BY <1>1, <1>2, <1>3

LEMMA ClaimSteps ==
  ASSUME StampInv, NEW date \in Dates, NEW bonus \in PerkBonuses, ClaimDaily(date, bonus)
  PROVE  StampInv'
  <1>1. PICK grant : grant = MonthlyGrant(date)
    OBVIOUS
  <1>2. PICK held \in Nat : /\ held = streak.shields + ShieldSum(grant) /\ held <= ShieldsMax
                            /\ ShieldSum(grant) \in Int
                            /\ AllInt(shieldEvents \cup grant) /\ Total(shieldEvents \cup grant) = held
                            /\ \A e \in grant : e.kind = "grant"
    BY <1>1, GrantFits DEF StampInv
  <1>3. PICK next : next = Streak(date, held)
    OBVIOUS
  <1>4. /\ next.current \in Nat /\ next.current <= Cardinality(Claimed) + 1
        /\ next.consumed \in Nat /\ next.consumed <= held
    BY <1>3, StreakFits DEF StampInv
  <1>5. PICK consume : consume = IF next.consumed = 0 THEN {}
                                 ELSE {[kind |-> "consume", key |-> <<date, "miss">>,
                                        delta |-> -next.consumed]}
    OBVIOUS
  <1>6. PICK amount \in Nat : amount = IF CycleDay(date) = Cycle THEN Day7Stamps ELSE ClaimStamps
    BY StampAmounts
  <1>7. PICK daily : daily = Awarded(stampLedger, "daily_claim", <<date, "">>, amount, date)
    OBVIOUS
  <1>8. PICK table : table = IF bonus = 0 THEN daily
                           ELSE Awarded(daily, "juanchoice_perk", <<date, "">>, bonus, date)
    OBVIOUS
  <1>9. /\ date \notin Claimed
        /\ shieldEvents' = shieldEvents \cup grant \cup consume
        /\ streak' = [current |-> next.current, best |-> Max({streak.best, next.current}),
                      last |-> date, shields |-> Max({0, held - next.consumed})]
        /\ claims' = [claims EXCEPT ![date] = CycleDay(date)]
        /\ SetStamps(table)
        /\ assigned' = assigned /\ completed' = completed
    <2>1. /\ streak.shields + ShieldSum(MonthlyGrant(date)) = held
          /\ ShieldSum(MonthlyGrant(date)) \in Int /\ streak.shields \in Int
      BY <1>1, <1>2 DEF StampInv, ShieldBooks
    <2>2. Streak(date, streak.shields + ShieldSum(MonthlyGrant(date))) = next
      BY <1>3, <2>1
    <2>3. /\ date \notin Claimed
          /\ claims' = [claims EXCEPT ![date] = CycleDay(date)]
          /\ assigned' = assigned /\ completed' = completed
      BY DEF ClaimDaily
    <2>4. shieldEvents' = shieldEvents \cup grant \cup consume
      BY <1>1, <1>5, <2>2 DEF ClaimDaily
    <2>5. streak' = [current |-> next.current, best |-> Max({streak.best, next.current}),
                     last |-> date, shields |-> Max({0, held - next.consumed})]
      <3>1. streak' = [current |-> Streak(date, streak.shields + ShieldSum(MonthlyGrant(date))).current,
                       best |-> Max({streak.best,
                                     Streak(date, streak.shields + ShieldSum(MonthlyGrant(date))).current}),
                       last |-> date,
                       shields |-> Max({0, streak.shields + ShieldSum(MonthlyGrant(date))
                                             - Streak(date, streak.shields + ShieldSum(MonthlyGrant(date))).consumed})]
        BY Zenon DEF ClaimDaily
      <3>2. PICK longest : longest = Max({streak.best, Streak(date, streak.shields + ShieldSum(MonthlyGrant(date))).current})
        OBVIOUS
      <3>3. PICK left : left = Max({0, streak.shields + ShieldSum(MonthlyGrant(date))
                                         - Streak(date, streak.shields + ShieldSum(MonthlyGrant(date))).consumed})
        OBVIOUS
      <3>4. longest = Max({streak.best, next.current})
        <4>1. {streak.best, Streak(date, streak.shields + ShieldSum(MonthlyGrant(date))).current}
                = {streak.best, next.current}
          BY <2>2
        <4>. QED  BY <3>2, <4>1
      <3>5. left = Max({0, held - next.consumed})
        <4>1. {0, streak.shields + ShieldSum(MonthlyGrant(date))
                    - Streak(date, streak.shields + ShieldSum(MonthlyGrant(date))).consumed}
                = {0, held - next.consumed}
          BY <1>4, <2>1, <2>2
        <4>. QED  BY <3>3, <4>1
      <3>. QED  BY <2>2, <3>1, <3>2, <3>3, <3>4, <3>5
    <2>6. SetStamps(table)
      BY <1>6, <1>7, <1>8 DEF ClaimDaily
    <2>. QED  BY <2>3, <2>4, <2>5, <2>6
  <1>10. Capped(table) /\ stampLedger \subseteq table /\ ChestsEarned(table, completed)
    <2>1. Capped(daily) /\ stampLedger \subseteq daily /\ ChestsEarned(daily, completed)
      BY <1>7, AwardedKeepsChests DEF StampInv, LedgerBooks
    <2>2. bonus \in Nat
      BY StampAmounts
    <2>3. CASE bonus = 0
      BY <1>8, <2>1, <2>3
    <2>4. CASE bonus # 0
      BY <1>8, <2>1, <2>2, <2>4, AwardedKeepsChests
    <2>. QED  BY <2>3, <2>4
  <1>11. stampLedger' = table /\ stamps' = Total(table)
    BY <1>9, <1>10, StampsFollow DEF StampInv, LedgerBooks
  <1>12. /\ claims' \in [Dates -> Nat] /\ Claimed' = Claimed \cup {date}
         /\ Cardinality(Claimed') = Cardinality(Claimed) + 1
    BY <1>9, CycleDayIsNat, ClaimedGrows DEF StampInv
  <1>13. held - next.consumed \in Nat /\ Max({0, held - next.consumed}) = held - next.consumed
    BY <1>4, GreaterOfTwo
  <1>14. /\ StreakColumns' /\ streak'.current = next.current /\ streak'.last = date
         /\ streak'.shields = held - next.consumed
    <2>1. PICK best : best = Max({streak.best, next.current})
      OBVIOUS
    <2>2. PICK left : left = held - next.consumed
      OBVIOUS
    <2>3. streak' = [current |-> next.current, best |-> best, last |-> date, shields |-> left]
      BY <1>9, <1>13, <2>1, <2>2
    <2>. QED  BY <2>2, <2>3 DEF StreakColumns
  <1>15. StreakBooks'
    BY <1>4, <1>12, <1>14, DatesAreFinite DEF StreakBooks
  <1>16. LedgerBooks' /\ Completions'
    BY <1>9, <1>10, <1>11 DEF LedgerBooks, Completions, StampInv
  <1>17. \A e \in shieldEvents : Backed(e)'
    BY <1>10, <1>11, <1>12, StillBacked DEF StampInv, ShieldBooks
  <1>18. \A e \in grant : Backed(e)'
    BY <1>2 DEF Backed
  <1>19. ShieldBooks'
    <2>1. streak'.shields \in Nat /\ streak'.shields <= ShieldsMax
      <3>1. ShieldsMax \in Nat
        BY StampAmounts
      <3>. QED  BY <1>2, <1>4, <1>13, <1>14, <3>1
    <2>2. CASE next.consumed = 0
      <3>1. shieldEvents' = shieldEvents \cup grant /\ streak'.shields = held
        BY <1>2, <1>5, <1>9, <1>14, <2>2
      <3>. QED  BY <1>2, <1>17, <1>18, <2>1, <3>1 DEF ShieldBooks
    <2>3. CASE next.consumed # 0
      <3>1. PICK key : key = <<date, "miss">>
        OBVIOUS
      <3>2. PICK delta \in Int : delta = -next.consumed
        BY <1>4
      <3>3. PICK e : e = [kind |-> "consume", key |-> key, delta |-> delta]
        OBVIOUS
      <3>4. consume = {e} /\ e.kind = "consume" /\ e.key = key /\ e.delta = delta /\ key[1] = date
        BY <1>5, <2>3, <3>1, <3>2, <3>3
      <3>5. e \notin shieldEvents \cup grant
        <4>1. e \notin shieldEvents
          BY <1>9, <3>4 DEF StampInv, ShieldBooks, Backed
        <4>2. e \notin grant
          BY <1>2, <3>4
        <4>. QED  BY <4>1, <4>2
      <3>6. PICK events : events = shieldEvents \cup grant
        OBVIOUS
      <3>7. AllInt(events \cup {e}) /\ Total(events \cup {e}) = held + delta
        BY <1>2, <3>4, <3>5, <3>6, TotalWith
      <3>8. shieldEvents' = events \cup {e}
        BY <1>9, <3>4, <3>6
      <3>9. Backed(e)'
        BY <1>12, <3>4 DEF Backed
      <3>10. streak'.shields = held + delta
        BY <1>2, <1>4, <1>14, <3>2
      <3>11. \A d \in shieldEvents' : Backed(d)'
        BY <1>17, <1>18, <3>6, <3>8, <3>9
      <3>. QED  BY <2>1, <3>7, <3>8, <3>10, <3>11 DEF ShieldBooks
    <2>. QED  BY <2>2, <2>3
  <1>. QED  BY <1>14, <1>15, <1>16, <1>19 DEF StampInv

\* Another number of shields, and nothing else of the streak.
LEMMA ShieldsSet ==
  ASSUME StreakColumns, NEW n, streak' = [streak EXCEPT !.shields = n]
  PROVE  /\ StreakColumns' /\ streak'.current = streak.current /\ streak'.last = streak.last
         /\ streak'.shields = n
  <1>1. PICK row : row = [current |-> streak.current, best |-> streak.best, last |-> streak.last,
                          shields |-> n]
    OBVIOUS
  <1>2. streak' = row
    BY <1>1 DEF StreakColumns
  <1>. QED  BY <1>1, <1>2 DEF StreakColumns

LEMMA AssignmentsFit ==
  ASSUME Completions, NEW date \in Dates
  PROVE  WithAssignments(date) \subseteq Dates \X Missions
  BY DEF WithAssignments, Best, Missions, Completions

LEMMA OpenSteps ==
  ASSUME StampInv, NEW date \in Dates, GetDailyState(date)
  PROVE  StampInv'
  <1>1. PICK grant : grant = MonthlyGrant(date)
    OBVIOUS
  <1>2. PICK held \in Nat : /\ held = streak.shields + ShieldSum(grant) /\ held <= ShieldsMax
                            /\ AllInt(shieldEvents \cup grant) /\ Total(shieldEvents \cup grant) = held
                            /\ \A e \in grant : e.kind = "grant"
    BY <1>1, GrantFits DEF StampInv
  <1>3. /\ shieldEvents' = shieldEvents \cup grant
        /\ streak' = [streak EXCEPT !.shields = held]
        /\ assigned' = WithAssignments(date)
        /\ UNCHANGED <<stamps, stampLedger, claims, completed>>
    BY <1>1, <1>2 DEF GetDailyState
  <1>4. /\ StreakColumns' /\ streak'.current = streak.current /\ streak'.last = streak.last
        /\ streak'.shields = held
    BY <1>3, ShieldsSet DEF StampInv
  <1>5. Claimed' = Claimed
    BY <1>3 DEF Claimed
  <1>6. StreakBooks' /\ LedgerBooks'
    BY <1>3, <1>4, <1>5 DEF StampInv, StreakBooks, LedgerBooks
  <1>7. Completions'
    BY <1>3, AssignmentsFit DEF StampInv, Completions
  <1>8. \A e \in shieldEvents' : Backed(e)'
    <2>1. \A e \in shieldEvents : Backed(e)'
      BY <1>3, <1>5, StillBacked DEF StampInv, ShieldBooks
    <2>. QED  BY <1>2, <1>3, <2>1 DEF Backed
  <1>9. ShieldBooks'
    BY <1>2, <1>3, <1>4, <1>8 DEF ShieldBooks
  <1>. QED  BY <1>4, <1>6, <1>7, <1>9 DEF StampInv

\* The row of a mission, and that of the chest its week has then earned.
LEMMA MissionSteps ==
  ASSUME StampInv, NEW date \in Dates, NEW m \in Missions, RecordMission(date, m)
  PROVE  StampInv'
  <1>1. PICK pairs : pairs = WithAssignments(date)
    OBVIOUS
  <1>2. assigned' = pairs /\ pairs \subseteq Dates \X Missions /\ UNCHANGED <<streak, shieldEvents, claims>>
    BY <1>1, AssignmentsFit DEF RecordMission, StampInv
  <1>3. Claimed' = Claimed /\ StreakColumns' /\ StreakBooks'
    <2>1. Claimed' = Claimed
      BY <1>2 DEF Claimed
    <2>. QED  BY <1>2, <2>1 DEF StampInv, StreakColumns, StreakBooks
  <1>4. ASSUME stampLedger \subseteq stampLedger', LedgerBooks', completed' \subseteq Dates \X Missions
        PROVE  StampInv'
    <2>1. \A e \in shieldEvents : Backed(e)'
      BY <1>3, <1>4, StillBacked DEF StampInv, ShieldBooks
    <2>2. ShieldBooks'
      BY <1>2, <2>1 DEF StampInv, ShieldBooks
    <2>. QED  BY <1>2, <1>3, <1>4, <2>2 DEF StampInv, Completions
  <1>5. CASE <<date, m>> \notin pairs \ completed
    <2>1. UNCHANGED <<completed, stamps, stampLedger>>
      BY <1>1, <1>5 DEF RecordMission
    <2>. QED  BY <1>4, <2>1 DEF StampInv, LedgerBooks, Completions
  <1>6. CASE <<date, m>> \in pairs \ completed
    <2>1. PICK done : done = completed \cup {<<date, m>>}
      OBVIOUS
    <2>2. PICK amount \in Nat : amount = MissionStamps[m]
      BY MissionAmounts DEF Missions
    <2>3. PICK table : table = Awarded(stampLedger, "mission", <<date, m>>, amount, date)
      OBVIOUS
    <2>4. PICK all : all = IF ChestEarned(done, Week(date))
                             THEN Awarded(table, "weekly_chest", <<Week(date), "">>, ChestStamps, date)
                             ELSE table
      OBVIOUS
    <2>5. completed' = done /\ SetStamps(all)
      BY <1>1, <1>6, <2>1, <2>2, <2>3, <2>4 DEF RecordMission
    <2>6. completed \subseteq done /\ done \subseteq Dates \X Missions
      BY <2>1 DEF StampInv, Completions
    <2>7. ChestsEarned(stampLedger, done)
      BY <2>6, SlotsGrow DEF StampInv, LedgerBooks
    <2>8. Capped(table) /\ stampLedger \subseteq table /\ ChestsEarned(table, done)
      BY <2>3, <2>7, AwardedKeepsChests DEF StampInv, LedgerBooks
    <2>9. Capped(all) /\ table \subseteq all /\ ChestsEarned(all, done)
      <3>1. CASE ~ChestEarned(done, Week(date))
        BY <2>4, <2>8, <3>1
      <3>2. CASE ChestEarned(done, Week(date))
        <4>1. ChestStamps \in Nat
          BY StampAmounts
        <4>2. /\ Capped(all) /\ table \subseteq all
              /\ \A row \in all \ table : row.week = Week(date)
          <5>1. PICK key : key = <<Week(date), "">>
            OBVIOUS
          <5>2. all = Awarded(table, "weekly_chest", key, ChestStamps, date)
            BY <2>4, <3>2, <5>1
          <5>3. /\ Capped(Awarded(table, "weekly_chest", key, ChestStamps, date))
                /\ table \subseteq Awarded(table, "weekly_chest", key, ChestStamps, date)
                /\ \A row \in Awarded(table, "weekly_chest", key, ChestStamps, date) \ table :
                     row.week = Week(date)
            BY <2>8, <4>1, AwardedIsCapped
          <5>. QED  BY <5>2, <5>3
        <4>3. Cardinality({p \in done : Week(p[1]) = Week(date)}) >= ChestRequired
          BY <3>2 DEF ChestEarned
        <4>4. ChestsEarned(all, done)
          BY <2>8, <4>2, <4>3 DEF ChestsEarned
        <4>. QED  BY <4>2, <4>4
      <3>. QED  BY <3>1, <3>2
    <2>10. stampLedger' = all /\ stamps' = Total(all)
      BY <2>5, <2>8, <2>9, StampsFollow DEF StampInv, LedgerBooks
    <2>11. LedgerBooks'
      BY <2>5, <2>9, <2>10 DEF LedgerBooks
    <2>. QED  BY <1>4, <2>5, <2>6, <2>8, <2>9, <2>10, <2>11
  <1>. QED  BY <1>5, <1>6

LEMMA SpendSteps ==
  ASSUME StampInv, NEW date \in Dates, NEW key, SpendStamps(date, key)
  PROVE  StampInv'
  <1>1. PICK id : id = <<0, key>>
    OBVIOUS
  <1>2. PICK paid \in Int : paid = -ShieldPrice /\ paid <= 0
    BY StampAmounts
  <1>3. PICK row : row = [source |-> "spend:streak_shield", key |-> id, week |-> Week(date), delta |-> paid]
    OBVIOUS
  <1>4. PICK e : e = [kind |-> "purchase", key |-> id, delta |-> 1]
    OBVIOUS
  <1>5. PICK table : table = stampLedger \cup {row}
    OBVIOUS
  <1>6. /\ ~HasRow(stampLedger, "spend:streak_shield", id) /\ streak.shields < ShieldsMax
        /\ SetStamps(table) /\ streak' = [streak EXCEPT !.shields = streak.shields + 1]
        /\ shieldEvents' = shieldEvents \cup {e}
        /\ UNCHANGED <<claims, assigned, completed>>
    BY <1>1, <1>2, <1>3, <1>4, <1>5 DEF SpendStamps
  <1>7. /\ row.source = "spend:streak_shield" /\ row.key = id /\ row.week = Week(date) /\ row.delta = paid
        /\ e.kind = "purchase" /\ e.key = id /\ e.delta = 1
    BY <1>3, <1>4
  <1>8. row \notin stampLedger /\ e \notin shieldEvents
    BY <1>6, <1>7 DEF HasRow, StampInv, ShieldBooks, Backed
  <1>9. Capped(table)
    BY <1>2, <1>5, <1>7, <1>8, CappedWith DEF StampInv, LedgerBooks
  <1>10. stampLedger \subseteq table /\ ChestsEarned(table, completed)
    BY <1>5, <1>7 DEF StampInv, LedgerBooks, ChestsEarned
  <1>11. stampLedger' = table /\ stamps' = Total(table)
    BY <1>6, <1>9, <1>10, StampsFollow DEF StampInv, LedgerBooks
  <1>12. LedgerBooks' /\ Completions'
    BY <1>6, <1>9, <1>10, <1>11 DEF LedgerBooks, Completions, StampInv
  <1>13. /\ StreakColumns' /\ streak'.current = streak.current /\ streak'.last = streak.last
         /\ streak'.shields = streak.shields + 1
    BY <1>6, ShieldsSet DEF StampInv
  <1>14. Claimed' = Claimed
    BY <1>6 DEF Claimed
  <1>15. StreakBooks'
    BY <1>6, <1>13, <1>14 DEF StampInv, StreakBooks
  <1>16. AllInt(shieldEvents') /\ Total(shieldEvents') = streak'.shields
    BY <1>6, <1>7, <1>8, <1>13, TotalWith DEF StampInv, ShieldBooks
  <1>17. \A d \in shieldEvents' : Backed(d)'
    <2>1. \A d \in shieldEvents : Backed(d)'
      BY <1>10, <1>11, <1>14, StillBacked DEF StampInv, ShieldBooks
    <2>2. Backed(e)'
      BY <1>5, <1>7, <1>11 DEF Backed, HasRow
    <2>. QED  BY <1>6, <2>1, <2>2
  <1>18. streak'.shields \in Nat /\ streak'.shields <= ShieldsMax
    <2>1. ShieldsMax \in Nat
      BY StampAmounts
    <2>. QED  BY <1>6, <1>13, <2>1 DEF StampInv, ShieldBooks
  <1>. QED  BY <1>12, <1>13, <1>15, <1>16, <1>17, <1>18 DEF StampInv, ShieldBooks

\* What leaves the balances, the claims and the missions that are done.
LEMMA StampsLast ==
  ASSUME StampInv, UNCHANGED <<stamps, stampLedger, streak, shieldEvents, claims, assigned, completed>>
  PROVE  StampInv'
  <1>1. Claimed' = Claimed
    BY DEF Claimed
  <1>2. StreakColumns' /\ LedgerBooks' /\ Completions' /\ StreakBooks'
    BY <1>1 DEF StampInv, StreakColumns, LedgerBooks, Completions, StreakBooks
  <1>3. ShieldBooks'
    BY <1>1 DEF StampInv, ShieldBooks, Backed
  <1>. QED  BY <1>2, <1>3 DEF StampInv

LEMMA StampsKept ==
  ASSUME StampInv, [StampNext]_stampVars
  PROVE  StampInv'
  <1>1. RequestDates \subseteq Dates
    BY DEF RequestDates
  <1>2. CASE UNCHANGED stampVars
    BY <1>2, StampsLast DEF stampVars
  <1>3. ASSUME NEW date, AnswerQuestion(date) PROVE StampInv'
    BY <1>3, StampsLast DEF AnswerQuestion
  <1>4. ASSUME NEW m, SetMissionActive(m) PROVE StampInv'
    BY <1>4, StampsLast DEF SetMissionActive
  <1>5. CASE Midnight
    BY <1>5, StampsLast DEF Midnight
  <1>6. ASSUME NEW date \in Dates, NEW m \in Missions, RecordActivity(date, m) PROVE StampInv'
    BY <1>6, MissionSteps DEF RecordActivity
  <1>. QED  BY <1>1, <1>2, <1>3, <1>4, <1>5, <1>6, ClaimSteps, OpenSteps, SpendSteps DEF StampNext

LEMMA StampsAtFirst ==
  ASSUME StampInit
  PROVE  StampInv
  <1>1. /\ stamps = 0 /\ stampLedger = {} /\ shieldEvents = {} /\ completed = {} /\ assigned = {}
        /\ claims = [date \in Dates |-> 0]
        /\ streak = [current |-> 0, best |-> 0, last |-> -1, shields |-> 0]
    BY DEF StampInit
  <1>2. AllInt({}) /\ Total({}) = 0
    BY FS_EmptySet, TotalOfNone DEF AllInt
  <1>3. Capped({})
    <2>1. ASSUME NEW w PROVE WeekStamps({}, w) = 0
      <3>1. Earned({}, w) = {}
        BY DEF Earned
      <3>. QED  BY <1>2, <3>1, EarnedInSum
    <2>. QED  BY <1>2, <2>1, StampAmounts DEF Capped
  <1>4. LedgerBooks /\ Completions
    BY <1>1, <1>2, <1>3 DEF LedgerBooks, Completions, ChestsEarned
  <1>5. StreakColumns /\ streak.shields = 0 /\ streak.current = 0 /\ streak.last = -1
    BY <1>1 DEF StreakColumns
  <1>6. ShieldBooks /\ StreakBooks
    BY <1>1, <1>2, <1>5, DatesAreFinite, StampAmounts DEF ShieldBooks, StreakBooks
  <1>. QED  BY <1>4, <1>5, <1>6 DEF StampInv

\* Stamps, weeks, chests, shields and streaks add up.
THEOREM StampsCorrect == StampSpec => []StampBooksBalance
  <1>1. StampInit => StampInv
    BY StampsAtFirst
  <1>2. StampInv /\ [StampNext]_stampVars => StampInv'
    BY StampsKept
  <1>3. StampInv => StampBooksBalance
    <2>1. ASSUME StampInv PROVE StampBooksBalance
      <3>1. stamps = MapThenSumSet(LAMBDA row : row.delta, stampLedger)
        BY <2>1, TotalInSum DEF StampInv, LedgerBooks
      <3>2. streak.shields = ShieldSum(shieldEvents)
        BY <2>1, TotalInSum DEF StampInv, ShieldBooks
      <3>3. streak.shields \in 0..ShieldsMax
        BY <2>1, StampAmounts DEF StampInv, ShieldBooks
      <3>4. \A w : WeekStamps(stampLedger, w) <= WeeklyCap
        BY <2>1 DEF StampInv, LedgerBooks, Capped
      <3>5. \A row \in stampLedger : row.source = "weekly_chest" =>
              Cardinality({p \in completed : Week(p[1]) = row.week}) >= ChestRequired
        BY <2>1 DEF StampInv, LedgerBooks, ChestsEarned
      <3>6. streak.current <= Cardinality(Claimed) /\ (streak.last # -1 => streak.last \in Claimed)
        BY <2>1 DEF StampInv, StreakBooks
      <3>. QED  BY <3>1, <3>2, <3>3, <3>4, <3>5, <3>6 DEF StampBooksBalance
    <2>. QED  BY <2>1
  <1>. QED  BY <1>1, <1>2, <1>3, PTL DEF StampSpec

-----------------------------------------------------------------------------
(* The passport: the types of the stamps *)

\* The table of the ledger and of the events, and their keys.
StampKeys == Dates \X ({""} \cup Missions \cup SpendKeys)
ShieldKeys == Dates \X ({"", "miss"} \cup SpendKeys)

StampRow ==
  [source : {"daily_claim", "juanchoice_perk", "mission", "weekly_chest", "spend:streak_shield"},
   key : StampKeys, week : Nat, delta : Int]
ShieldRow == [kind : {"grant", "consume", "purchase"}, key : ShieldKeys, delta : Int]

LEMMA KeysFit ==
  ASSUME NEW date \in Dates
  PROVE  /\ <<date, "">> \in StampKeys /\ <<date, "">> \in ShieldKeys /\ <<date, "miss">> \in ShieldKeys
         /\ \A m \in Missions : <<date, m>> \in StampKeys
         /\ \A key \in SpendKeys : <<date, key>> \in StampKeys /\ <<date, key>> \in ShieldKeys
  <1>1. <<date, "">> \in StampKeys /\ \A m \in Missions : <<date, m>> \in StampKeys
    BY DEF StampKeys
  <1>2. <<date, "">> \in ShieldKeys /\ <<date, "miss">> \in ShieldKeys
    BY DEF ShieldKeys
  <1>3. \A key \in SpendKeys : <<date, key>> \in StampKeys /\ <<date, key>> \in ShieldKeys
    BY DEF StampKeys, ShieldKeys
  <1>. QED  BY <1>1, <1>2, <1>3

\* The parts of StampTypeOK the books do not say.
StampTypes ==
  /\ stamps \in Nat /\ stampLedger \subseteq StampRow
  /\ streak \in [current : Nat, best : Nat, last : {-1} \cup Dates, shields : Nat]
  /\ shieldEvents \subseteq ShieldRow
  /\ claims \in [Dates -> 0..Cycle]
  /\ completed \subseteq assigned
  /\ answered \subseteq Dates /\ catalogue \subseteq Missions

\* A quotient is no greater than the number that was divided.
LEMMA QuotientBound ==
  ASSUME NEW n \in Nat, NEW d \in Nat \ {0}
  PROVE  n \div d \in Nat /\ n \div d <= n
  <1>1. d \in Nat /\ d > 0
    OBVIOUS
  <1>. QED  BY <1>1

\* The week and the month of a date are no later than the date.
LEMMA PeriodsFit ==
  ASSUME NEW date \in Dates
  PROVE  date \in Nat /\ Week(date) \in Dates /\ Month(date) \in Dates /\ Week(date) \in Nat /\ 0 \in Dates
  <1>1. date \in Nat /\ LastDay \in Nat /\ date <= LastDay
    BY StampAmounts DEF Dates
  <1>2. WeekDays \in Nat \ {0} /\ MonthDays \in Nat \ {0}
    BY StampAmounts
  <1>3. PICK w \in Nat, m \in Nat : w = Week(date) /\ m = Month(date) /\ w <= date /\ m <= date
    BY <1>1, <1>2, QuotientBound DEF Week, Month
  <1>. QED  BY <1>1, <1>3 DEF Dates

\* What an award adds is a row of the ledger, and takes nothing.
LEMMA AwardFits ==
  ASSUME NEW table, Capped(table), table \subseteq StampRow,
         NEW source \in {"daily_claim", "juanchoice_perk", "mission", "weekly_chest"},
         NEW key \in StampKeys, NEW amount \in Nat,
         NEW date \in Dates
  PROVE  /\ Awarded(table, source, key, amount, date) \subseteq StampRow
         /\ Total(table) \in Int /\ Total(Awarded(table, source, key, amount, date)) \in Int
         /\ Total(Awarded(table, source, key, amount, date)) >= Total(table)
  <1>1. Total(table) \in Int
    BY TotalIsInt DEF Capped
  <1>2. CASE HasRow(table, source, key)
    <2>1. Awarded(table, source, key, amount, date) = table
      BY <1>2 DEF Awarded
    <2>. QED  BY <1>1, <2>1
  <1>3. CASE ~HasRow(table, source, key)
    <2>1. PICK given : given = AwardWithin(WeekStamps(table, Week(date)), amount)
      OBVIOUS
    <2>2. PICK row : row = [source |-> source, key |-> key, week |-> Week(date), delta |-> given]
      OBVIOUS
    <2>3. Awarded(table, source, key, amount, date) = table \cup {row}
      BY <1>3, <2>1, <2>2 DEF Awarded
    <2>4. given \in Nat
      BY <2>1, EarnedIsInt, WithinCap DEF Capped
    <2>5. row \notin table /\ row.delta = given
      BY <1>3, <2>2 DEF HasRow
    <2>6. row \in StampRow
      <3>1. PICK weekOf \in Nat : weekOf = Week(date)
        BY PeriodsFit
      <3>2. PICK n \in Int : n = given
        BY <2>4
      <3>3. row = [source |-> source, key |-> key, week |-> weekOf, delta |-> n]
        BY <2>2, <3>1, <3>2
      <3>. QED  BY <3>3 DEF StampRow
    <2>7. Total(table \cup {row}) = Total(table) + given
      <3>1. AllInt(table) /\ row.delta \in Int
        BY <2>4, <2>5 DEF Capped
      <3>2. Total(table \cup {row}) = Total(table) + row.delta
        BY <2>5, <3>1, TotalWith
      <3>. QED  BY <2>5, <3>2
    <2>8. PICK sum \in Int : sum = Total(table)
      BY <1>1
    <2>9. PICK more \in Int : more = Total(table \cup {row}) /\ more >= sum
      BY <2>4, <2>7, <2>8
    <2>10. table \cup {row} \subseteq StampRow
      BY <2>6
    <2>. QED  BY <2>3, <2>8, <2>9, <2>10
  <1>. QED  BY <1>2, <1>3

\* The cycle begins again after its last day.
LEMMA CycleDayFits ==
  ASSUME claims \in [Dates -> 0..Cycle], NEW date \in Dates
  PROVE  CycleDay(date) \in 0..Cycle
  <1>. DEFINE before == {d \in Claimed : d < date}
  <1>0. Cycle \in Nat \ {0}
    BY StampAmounts
  <1>1. CASE before = {}
    BY <1>0, <1>1 DEF CycleDay
  <1>2. CASE before # {}
    <2>1. before \subseteq Dates /\ IsFiniteSet(before) /\ \A d \in before : d \in Int
      BY DatesAreFinite, FS_Subset DEF Claimed
    <2>2. Max(before) \in Dates
      <3>. HIDE DEF before
      <3>. QED  BY <1>2, <2>1, GreatestExists
    <2>3. PICK n \in 0..Cycle : n = claims[Max(before)]
      BY <2>2
    <2>4. CycleDay(date) = IF n >= Cycle THEN 1 ELSE n + 1
      BY <1>2, <2>3 DEF CycleDay
    <2>. QED  BY <1>0, <2>3, <2>4
  <1>. QED  BY <1>1, <1>2

\* The month's shield is an event of its type.
LEMMA GrantTyped ==
  ASSUME NEW date \in Dates
  PROVE  MonthlyGrant(date) \subseteq ShieldRow
  <1>1. <<Month(date), "">> \in ShieldKeys
    BY PeriodsFit, KeysFit
  <1>2. PICK key \in ShieldKeys : key = <<Month(date), "">>
    BY <1>1
  <1>3. PICK n \in Int : n = IF streak.shields < ShieldsMax THEN 1 ELSE 0
    OBVIOUS
  <1>4. [kind |-> "grant", key |-> key, delta |-> n] \in ShieldRow
    BY DEF ShieldRow
  <1>5. MonthlyGrant(date) \subseteq {[kind |-> "grant", key |-> key, delta |-> n]}
    BY <1>2, <1>3 DEF MonthlyGrant
  <1>. QED  BY <1>4, <1>5

LEMMA ClaimTyped ==
  ASSUME StampInv, StampTypes, NEW date \in Dates, NEW bonus \in PerkBonuses, ClaimDaily(date, bonus)
  PROVE  StampTypes'
  <1>1. PICK grant : grant = MonthlyGrant(date)
    OBVIOUS
  <1>2. PICK held \in Nat : held = streak.shields + ShieldSum(grant)
    BY <1>1, GrantFits DEF StampInv
  <1>3. PICK next : next = Streak(date, held)
    OBVIOUS
  <1>4. next.current \in Nat /\ next.consumed \in Nat /\ next.consumed <= held
    BY <1>3, StreakFits DEF StampInv
  <1>5. PICK consume : consume = IF next.consumed = 0 THEN {}
                                 ELSE {[kind |-> "consume", key |-> <<date, "miss">>,
                                        delta |-> -next.consumed]}
    OBVIOUS
  <1>6. PICK amount \in Nat : amount = IF CycleDay(date) = Cycle THEN Day7Stamps ELSE ClaimStamps
    BY StampAmounts
  <1>7. PICK daily : daily = Awarded(stampLedger, "daily_claim", <<date, "">>, amount, date)
    OBVIOUS
  <1>8. PICK table : table = IF bonus = 0 THEN daily
                           ELSE Awarded(daily, "juanchoice_perk", <<date, "">>, bonus, date)
    OBVIOUS
  <1>9. /\ claims' = [claims EXCEPT ![date] = CycleDay(date)] /\ SetStamps(table)
        /\ UNCHANGED <<assigned, completed, answered, catalogue>>
    BY <1>6, <1>7, <1>8 DEF ClaimDaily
  <1>10. shieldEvents' = shieldEvents \cup grant \cup consume
    BY <1>1, <1>2, <1>3, <1>5 DEF ClaimDaily
  <1>11. /\ streak' = [current |-> next.current, best |-> streak'.best, last |-> date,
                       shields |-> streak'.shields]
         /\ streak'.best = Max({streak.best, next.current})
    BY <1>1, <1>2, <1>3 DEF ClaimDaily
  <1>12. streak'.best \in Nat
    <2>1. streak.best \in Nat
      BY DEF StampTypes
    <2>2. Max({streak.best, next.current}) \in {streak.best, next.current}
      BY <1>4, <2>1, GreaterOfTwo
    <2>. QED  BY <1>4, <1>11, <2>1, <2>2
  <1>13. streak'.shields \in Nat
    BY ClaimSteps DEF StampInv, ShieldBooks
  <1>14. streak' \in [current : Nat, best : Nat, last : {-1} \cup Dates, shields : Nat]
    <2>1. PICK best \in Nat, shields \in Nat : best = streak'.best /\ shields = streak'.shields
      BY <1>12, <1>13
    <2>2. streak' = [current |-> next.current, best |-> best, last |-> date, shields |-> shields]
      BY <1>11, <2>1
    <2>. QED  BY <1>4, <2>2
  <1>15. shieldEvents' \subseteq ShieldRow
    <2>1. consume \subseteq ShieldRow
      <3>1. PICK key \in ShieldKeys : key = <<date, "miss">>
        BY KeysFit
      <3>2. PICK n \in Int : n = -next.consumed
        BY <1>4
      <3>3. [kind |-> "consume", key |-> key, delta |-> n] \in ShieldRow
        BY DEF ShieldRow
      <3>4. consume \subseteq {[kind |-> "consume", key |-> key, delta |-> n]}
        BY <1>5, <3>1, <3>2
      <3>. QED  BY <3>3, <3>4
    <2>. QED  BY <1>1, <1>10, <2>1, GrantTyped DEF StampTypes
  <1>16. claims' \in [Dates -> 0..Cycle]
    BY <1>9, CycleDayFits DEF StampTypes
  <1>17. PICK key : key = <<date, "">> /\ key \in StampKeys
    BY KeysFit
  <1>18. /\ daily \subseteq StampRow /\ Total(daily) \in Int /\ Total(stampLedger) \in Int
         /\ Total(daily) >= Total(stampLedger)
         /\ Capped(daily) /\ stampLedger \subseteq daily
    BY <1>7, <1>17, AwardFits, AwardedIsCapped DEF StampInv, LedgerBooks, StampTypes
  <1>19. /\ table \subseteq StampRow /\ Total(table) \in Int /\ Total(table) >= Total(stampLedger)
         /\ Capped(table) /\ stampLedger \subseteq table
    <2>1. CASE bonus = 0
      BY <1>8, <1>18, <2>1
    <2>2. CASE bonus # 0
      <3>1. bonus \in Nat
        BY StampAmounts
      <3>2. table = Awarded(daily, "juanchoice_perk", key, bonus, date)
        BY <1>8, <1>17, <2>2
      <3>3. table \subseteq StampRow /\ Total(table) \in Int /\ Total(table) >= Total(daily)
        BY <1>17, <1>18, <3>1, <3>2, AwardFits
      <3>4. Capped(table) /\ daily \subseteq table
        BY <1>18, <3>1, <3>2, AwardedIsCapped
      <3>. QED  BY <1>18, <3>3, <3>4
    <2>. QED  BY <2>1, <2>2
  <1>20. stampLedger' = table /\ stamps' = Total(table)
    BY <1>9, <1>19, StampsFollow DEF StampInv, LedgerBooks
  <1>21. stamps' \in Nat
    <2>1. stamps \in Nat /\ stamps = Total(stampLedger)
      BY DEF StampTypes, StampInv, LedgerBooks
    <2>. QED  BY <1>19, <1>20, <2>1
  <1>. QED  BY <1>9, <1>14, <1>15, <1>16, <1>19, <1>20, <1>21 DEF StampTypes

LEMMA ShieldsTyped ==
  ASSUME streak \in [current : Nat, best : Nat, last : {-1} \cup Dates, shields : Nat],
         NEW n \in Nat
  PROVE  [streak EXCEPT !.shields = n] \in [current : Nat, best : Nat, last : {-1} \cup Dates, shields : Nat]
  OBVIOUS

LEMMA OpenTyped ==
  ASSUME StampInv, StampTypes, NEW date \in Dates, GetDailyState(date)
  PROVE  StampTypes'
  <1>1. PICK held \in Nat : held = streak.shields + ShieldSum(MonthlyGrant(date))
    BY GrantFits DEF StampInv
  <1>2. /\ shieldEvents' = shieldEvents \cup MonthlyGrant(date)
        /\ streak' = [streak EXCEPT !.shields = held]
        /\ assigned' = WithAssignments(date)
        /\ UNCHANGED <<stamps, stampLedger, claims, completed, answered, catalogue>>
    BY <1>1 DEF GetDailyState
  <1>3. streak' \in [current : Nat, best : Nat, last : {-1} \cup Dates, shields : Nat]
    BY <1>2, ShieldsTyped DEF StampTypes
  <1>4. shieldEvents' \subseteq ShieldRow
    BY <1>2, GrantTyped DEF StampTypes
  <1>5. completed' \subseteq assigned'
    BY <1>2 DEF StampTypes, WithAssignments
  <1>. QED  BY <1>2, <1>3, <1>4, <1>5 DEF StampTypes

LEMMA MissionTyped ==
  ASSUME StampInv, StampTypes, NEW date \in Dates, NEW m \in Missions, RecordMission(date, m)
  PROVE  StampTypes'
  <1>1. PICK pairs : pairs = WithAssignments(date)
    OBVIOUS
  <1>2. /\ assigned' = pairs /\ assigned \subseteq pairs
        /\ UNCHANGED <<streak, shieldEvents, claims, answered, catalogue>>
    BY <1>1 DEF RecordMission, WithAssignments
  <1>3. ASSUME stamps' \in Nat, stampLedger' \subseteq StampRow, completed' \subseteq pairs
        PROVE  StampTypes'
    BY <1>2, <1>3 DEF StampTypes
  <1>4. CASE <<date, m>> \notin pairs \ completed
    <2>1. UNCHANGED <<completed, stamps, stampLedger>>
      BY <1>1, <1>4 DEF RecordMission
    <2>. QED  BY <1>2, <1>3, <2>1 DEF StampTypes
  <1>5. CASE <<date, m>> \in pairs \ completed
    <2>1. PICK done : done = completed \cup {<<date, m>>}
      OBVIOUS
    <2>2. PICK amount \in Nat : amount = MissionStamps[m]
      BY MissionAmounts DEF Missions
    <2>3. PICK mine \in StampKeys : mine = <<date, m>>
      BY KeysFit
    <2>4. PICK table : table = Awarded(stampLedger, "mission", mine, amount, date)
      OBVIOUS
    <2>5. PICK chest \in StampKeys : chest = <<Week(date), "">>
      BY PeriodsFit, KeysFit
    <2>6. PICK all : all = IF ChestEarned(done, Week(date))
                             THEN Awarded(table, "weekly_chest", chest, ChestStamps, date)
                             ELSE table
      OBVIOUS
    <2>7. completed' = done /\ SetStamps(all)
      BY <1>1, <1>5, <2>1, <2>2, <2>3, <2>4, <2>5, <2>6 DEF RecordMission
    <2>8. /\ table \subseteq StampRow /\ Total(table) \in Int /\ Total(stampLedger) \in Int
          /\ Total(table) >= Total(stampLedger)
          /\ Capped(table) /\ stampLedger \subseteq table
      BY <2>4, AwardFits, AwardedIsCapped DEF StampInv, LedgerBooks, StampTypes
    <2>9. /\ all \subseteq StampRow /\ Total(all) \in Int /\ Total(all) >= Total(stampLedger)
          /\ Capped(all) /\ stampLedger \subseteq all
      <3>1. CASE ~ChestEarned(done, Week(date))
        BY <2>6, <2>8, <3>1
      <3>2. CASE ChestEarned(done, Week(date))
        <4>1. ChestStamps \in Nat /\ all = Awarded(table, "weekly_chest", chest, ChestStamps, date)
          BY <2>6, <3>2, StampAmounts
        <4>2. all \subseteq StampRow /\ Total(all) \in Int /\ Total(all) >= Total(table)
          BY <2>8, <4>1, AwardFits
        <4>3. Capped(all) /\ table \subseteq all
          BY <2>8, <4>1, AwardedIsCapped
        <4>4. PICK old \in Int, mid \in Int, new \in Int :
                old = Total(stampLedger) /\ mid = Total(table) /\ new = Total(all)
          BY <2>8, <4>2
        <4>5. new >= old
          BY <2>8, <4>2, <4>4
        <4>. QED  BY <2>8, <4>2, <4>3, <4>4, <4>5
      <3>. QED  BY <3>1, <3>2
    <2>10. stampLedger' = all /\ stamps' = Total(all)
      BY <2>7, <2>9, StampsFollow DEF StampInv, LedgerBooks
    <2>11. stamps' \in Nat
      <3>1. PICK old \in Nat, new \in Int : old = stamps /\ old = Total(stampLedger) /\ new = Total(all)
        BY <2>9 DEF StampTypes, StampInv, LedgerBooks
      <3>. QED  BY <2>9, <2>10, <3>1
    <2>12. completed' \subseteq pairs
      BY <1>2, <1>5, <2>1, <2>7 DEF StampTypes
    <2>. QED  BY <1>3, <2>9, <2>10, <2>11, <2>12
  <1>. QED  BY <1>4, <1>5

LEMMA SpendTyped ==
  ASSUME StampInv, StampTypes, NEW date \in Dates, NEW key \in SpendKeys, SpendStamps(date, key)
  PROVE  StampTypes'
  <1>0. 0 \in Dates
    BY PeriodsFit
  <1>1. PICK id : id = <<0, key>> /\ id \in StampKeys
                  /\ id \in ShieldKeys
    BY <1>0, KeysFit
  <1>2. PICK paid \in Int : paid = -ShieldPrice
    BY StampAmounts
  <1>3. PICK row : row = [source |-> "spend:streak_shield", key |-> id, week |-> Week(date), delta |-> paid]
    OBVIOUS
  <1>4. PICK e : e = [kind |-> "purchase", key |-> id, delta |-> 1]
    OBVIOUS
  <1>5. /\ ~HasRow(stampLedger, "spend:streak_shield", id) /\ stamps >= ShieldPrice
        /\ SetStamps(stampLedger \cup {row})
        /\ streak' = [streak EXCEPT !.shields = streak.shields + 1]
        /\ shieldEvents' = shieldEvents \cup {e}
        /\ UNCHANGED <<claims, assigned, completed, answered, catalogue>>
    BY <1>1, <1>2, <1>3, <1>4 DEF SpendStamps
  <1>6. row \in StampRow /\ e \in ShieldRow
    <2>1. PICK weekOf \in Nat : weekOf = Week(date)
      BY PeriodsFit
    <2>2. row = [source |-> "spend:streak_shield", key |-> id, week |-> weekOf, delta |-> paid]
      BY <1>3, <2>1
    <2>3. row \in StampRow
      BY <1>1, <2>2 DEF StampRow
    <2>4. e \in ShieldRow
      BY <1>1, <1>4 DEF ShieldRow
    <2>. QED  BY <2>3, <2>4
  <1>7. row \notin stampLedger /\ row.delta = paid
    BY <1>3, <1>5 DEF HasRow
  <1>8. /\ Total(stampLedger \cup {row}) = Total(stampLedger) + paid
        /\ AllInt(stampLedger) /\ stamps = Total(stampLedger)
    BY <1>7, TotalWith DEF StampInv, LedgerBooks, Capped
  <1>9. stampLedger' = stampLedger \cup {row}
    BY <1>5 DEF SetStamps
  <1>10. stamps' = stamps + paid
    <2>1. stamps' = Total(stampLedger')
      BY SpendSteps DEF StampInv, LedgerBooks
    <2>. QED  BY <1>8, <1>9, <2>1
  <1>11. stamps' \in Nat
    BY <1>2, <1>5, <1>10, StampAmounts DEF StampTypes
  <1>12. streak' \in [current : Nat, best : Nat, last : {-1} \cup Dates, shields : Nat]
    <2>1. streak.shields + 1 \in Nat
      BY DEF StampTypes
    <2>. QED  BY <1>5, <2>1, ShieldsTyped DEF StampTypes
  <1>. QED  BY <1>5, <1>6, <1>9, <1>11, <1>12 DEF StampTypes

LEMMA StampTypesKept ==
  ASSUME StampInv, StampTypes, [StampNext]_stampVars
  PROVE  StampTypes'
  <1>1. RequestDates \subseteq Dates
    BY DEF RequestDates
  <1>2. CASE UNCHANGED stampVars
    BY <1>2 DEF stampVars, StampTypes
  <1>3. ASSUME NEW date \in Dates, AnswerQuestion(date) PROVE StampTypes'
    BY <1>3 DEF AnswerQuestion, StampTypes
  <1>4. ASSUME NEW m \in Missions, SetMissionActive(m) PROVE StampTypes'
    BY <1>4 DEF SetMissionActive, StampTypes
  <1>5. CASE Midnight
    BY <1>5 DEF Midnight, StampTypes
  <1>6. ASSUME NEW date \in Dates, NEW m \in Missions, RecordActivity(date, m) PROVE StampTypes'
    BY <1>6, MissionTyped DEF RecordActivity
  <1>. QED  BY <1>1, <1>2, <1>3, <1>4, <1>5, <1>6, ClaimTyped, OpenTyped, SpendTyped DEF StampNext

\* The tables of stamps, shields and missions keep their type.
THEOREM StampsTyped == StampSpec => []StampTypeOK
  <1>1. StampInit => StampInv /\ StampTypes
    <2>1. StampInit => StampInv
      BY StampsAtFirst
    <2>2. StampInit => StampTypes
      BY StampAmounts DEF StampInit, StampTypes
    <2>. QED  BY <2>1, <2>2
  <1>2. StampInv /\ StampTypes /\ [StampNext]_stampVars => (StampInv /\ StampTypes)'
    BY StampsKept, StampTypesKept
  <1>3. StampInv /\ StampTypes => StampTypeOK
    BY DEF StampInv, Completions, StampTypes, StampTypeOK, StampRow, ShieldRow, StampKeys, ShieldKeys
  <1>. QED  BY <1>1, <1>2, <1>3, PTL DEF StampSpec

-----------------------------------------------------------------------------
(* The passport: the theorem *)

\* Whatever a traveler claims, completes, buys and answers, and however often
\* it is sent: the stamps and the XP of the passport are those its tables give.
THEOREM PassportCorrect == PassportSpec => []PassportHolds
  <1>1. StampBooksBalance /\ XpOncePerQuiz => PassportHolds
    BY DEF PassportHolds
  <1>. QED  BY <1>1, StampsCorrect, QuizzesCorrect, PTL DEF PassportSpec
=============================================================================
