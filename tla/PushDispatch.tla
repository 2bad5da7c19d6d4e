------------------------------ MODULE PushDispatch ------------------------------
(***************************************************************************)
(* The pushes of one traveler: what enqueuePush (push/enqueue.ts) queues   *)
(* under the preferences, daily caps and quiet hours, and how dispatcher   *)
(* ticks (push/dispatcher.ts) claim the due rows, check each again, hand   *)
(* it to FCM and record what came of it.                                   *)
(*                                                                         *)
(* A dispatcher holds an advisory lock but no transaction: the claim, the  *)
(* checks of a row, the call of FCM and the record of its outcome are      *)
(* separate actions, between which the traveler changes settings, others   *)
(* enqueue and the process may stop. Time passes in thirds of a day:       *)
(* before 08:00, the day, and after 21:00.                                 *)
(***************************************************************************)
EXTENDS Integers, FiniteSets, FiniteSetsExt

CONSTANTS
  Pushes,            \* ids of push_deliveries
  Keys,              \* collapse keys
  Categories,
  DayCap,            \* six non-account pushes a day
  CategoryCap,       \* overtaken 1, friend_activity 2, social 4, else DayCap
  SendTries,         \* five
  SendLimit,         \* rows claimed by a tick
  Dispatchers, NoDispatcher, NoPush,
  LastThird          \* bound on the clock

ASSUME PushCaps ==
  /\ IsFiniteSet(Pushes) /\ Keys # {} /\ LastThird \in Nat
  /\ NoDispatcher \notin Dispatchers
  /\ {"account", "weekly_recap"} \subseteq Categories
  /\ DayCap \in Nat /\ CategoryCap \in [Categories -> Nat]
  /\ SendTries \in Nat \ {0} /\ SendLimit \in Nat \ {0}

VARIABLES
  third,             \* the clock
  push,              \* push_deliveries, "none" for an unused id
  reached,           \* how often FCM delivered each push
  optedOut,          \* categories switched off in the preferences
  quietHours,
  device,            \* a registered device that is not disabled
  lockHolder,        \* of PLAZA_PUSH_DISPATCHER_LOCK_KEY
  dispatch           \* what each dispatcher does

pushVars == <<third, push, reached, optedOut, quietHours, device, lockHolder, dispatch>>

settings == <<optedOut, quietHours, device>>

Day(t) == t \div 3
IsQuiet(t) == t % 3 # 1
NextMorning(t) == IF t % 3 = 0 THEN t + 1 ELSE t + 2

PushRow == [status : {"none", "queued", "sending", "sent", "skipped", "failed"},
            reason : {"", "PREF_OFF", "CAP_REACHED", "NO_DEVICE"},
            category : Categories, key : Keys, tries : 0..SendTries,
            after : 0..(LastThird + 2), sentOn : 0..Day(LastThird)]

DispatchState == [pc : {"off", "claim", "next", "check", "send", "record"},
                  since : 0..Day(LastThird), todo : SUBSET Pushes,
                  push : Pushes \cup {NoPush}, delivered : BOOLEAN]

AtRest == [pc |-> "off", since |-> 0, todo |-> {}, push |-> NoPush, delivered |-> FALSE]

WithStatus(status) == {p \in Pushes : push[p].status = status}

\* checkDailyCaps: the pushes sent since a day began, of a set of categories.
SentSince(day, categories) ==
  Cardinality({p \in WithStatus("sent") :
    push[p].category \in categories /\ push[p].sentOn >= day})

OverCap(category, day) ==
  \/ SentSince(day, Categories \ {"account"}) >= DayCap
  \/ /\ category \notin {"account", "weekly_recap"}
     /\ SentSince(day, {category}) >= CategoryCap[category]

-----------------------------------------------------------------------------
(* Enqueueing and settings *)

NewRow(category, key, status, reason, after) ==
  [status |-> status, reason |-> reason, category |-> category, key |-> key,
   tries |-> 0, after |-> after, sentOn |-> 0]

\* enqueuePush: an account push ignores preferences and caps; one with an open
\* row of its key is merged into it, which changes only its text.
EnqueuePush(p, category, key) ==
  LET due == IF quietHours /\ IsQuiet(third) THEN NextMorning(third) ELSE third
      row == IF category # "account" /\ category \in optedOut
             THEN NewRow(category, key, "skipped", "PREF_OFF", third)
             ELSE IF category # "account" /\ OverCap(category, Day(third))
             THEN NewRow(category, key, "skipped", "CAP_REACHED", third)
             ELSE NewRow(category, key, "queued", "", due)
  IN
  /\ push[p].status = "none"
  /\ row.status = "queued" => \A q \in WithStatus("queued") : push[q].key # key
  /\ push' = [push EXCEPT ![p] = row]
  /\ UNCHANGED <<third, reached, settings, lockHolder, dispatch>>

\* PUT /me/notification-preferences.
SetPreferences(off, quiet) ==
  /\ optedOut' = off /\ quietHours' = quiet
  /\ UNCHANGED <<third, push, reached, device, lockHolder, dispatch>>

\* PUT and DELETE /me/devices.
SetDevice(registered) ==
  /\ device' = registered
  /\ UNCHANGED <<third, push, reached, optedOut, quietHours, lockHolder, dispatch>>

ThirdPasses ==
  /\ third < LastThird
  /\ third' = third + 1
  /\ UNCHANGED <<push, reached, settings, lockHolder, dispatch>>

-----------------------------------------------------------------------------
(* A dispatcher tick *)

Doing(d, pc) == dispatch[d].pc = pc
Becomes(d, state) == dispatch' = [dispatch EXCEPT ![d] = state]

\* Mutant: a tick does not wait for the lock.
MayTick_Any(d) == TRUE

\* pg_try_advisory_lock.
MayTick(d) == lockHolder = NoDispatcher

StartTick(d) ==
  /\ Doing(d, "off") /\ MayTick(d)
  /\ lockHolder' = d
  /\ Becomes(d, [AtRest EXCEPT !.pc = "claim", !.since = Day(third)])
  /\ UNCHANGED <<third, push, reached, settings>>

DueNow == {p \in WithStatus("queued") : push[p].after <= third}

\* One statement claims the oldest due rows.
ClaimPushes(d, some) ==
  /\ Doing(d, "claim")
  /\ some \subseteq DueNow
  /\ Cardinality(some) = Min({SendLimit, Cardinality(DueNow)})
  /\ \A p \in some, q \in DueNow \ some : push[p].after <= push[q].after
  /\ push' = [p \in Pushes |-> IF p \notin some THEN push[p]
       ELSE [push[p] EXCEPT !.status = "sending", !.tries = @ + 1]]
  /\ Becomes(d, [dispatch[d] EXCEPT !.pc = "next", !.todo = some])
  /\ UNCHANGED <<third, reached, settings, lockHolder>>

NextPush(d, p) ==
  /\ Doing(d, "next") /\ p \in dispatch[d].todo
  /\ Becomes(d, [dispatch[d] EXCEPT !.pc = "check", !.push = p, !.todo = @ \ {p}])
  /\ UNCHANGED <<third, push, reached, settings, lockHolder>>

\* The tick is over, and unlocks.
EndTick(d) ==
  /\ Doing(d, "next") /\ dispatch[d].todo = {}
  /\ lockHolder' = NoDispatcher
  /\ Becomes(d, AtRest)
  /\ UNCHANGED <<third, push, reached, settings>>

\* The preference that is checked again: the recap's for an account push.
PreferenceOf(category) == IF category = "account" THEN "weekly_recap" ELSE category

\* Why the row is skipped, if it is; the caps count from the tick's day.
Refusal(d, row) ==
  IF PreferenceOf(row.category) \in optedOut THEN "PREF_OFF"
  ELSE IF OverCap(row.category, dispatch[d].since) THEN "CAP_REACHED"
  ELSE IF ~device THEN "NO_DEVICE" ELSE ""

CheckPush(d) ==
  LET p == dispatch[d].push
      reason == Refusal(d, push[p])
  IN
  /\ Doing(d, "check")
  /\ push' = IF reason = "" THEN push
             ELSE [push EXCEPT ![p].status = "skipped", ![p].reason = reason]
  /\ Becomes(d, [dispatch[d] EXCEPT !.pc = IF reason = "" THEN "send" ELSE "next"])
  /\ UNCHANGED <<third, reached, settings, lockHolder>>

\* The call of FCM: delivered, a transient error, or a token no longer
\* registered, which disables the device.
SendPush(d, delivered, unregistered) ==
  /\ Doing(d, "send")
  /\ delivered => ~unregistered
  /\ reached' = [reached EXCEPT ![dispatch[d].push] = @ + (IF delivered THEN 1 ELSE 0)]
  /\ device' = IF unregistered THEN FALSE ELSE device
  /\ Becomes(d, [dispatch[d] EXCEPT !.pc = "record", !.delivered = delivered])
  /\ UNCHANGED <<third, push, optedOut, quietHours, lockHolder>>

\* Queueing the row again is refused while another row of its key is queued
\* (uq_push_open_collapse), and the error ends the tick.
RequeueCollides(p) == \E q \in WithStatus("queued") : push[q].key = push[p].key

\* The minutes of backoff pass within a third.
Outcome(d, p) ==
  IF dispatch[d].delivered
  THEN [push[p] EXCEPT !.status = "sent", !.sentOn = Day(third)]
  ELSE IF push[p].tries >= SendTries THEN [push[p] EXCEPT !.status = "failed"]
  ELSE [push[p] EXCEPT !.status = "queued", !.after = third]

RecordPush(d) ==
  LET p == dispatch[d].push IN
  /\ Doing(d, "record")
  /\ IF Outcome(d, p).status = "queued" /\ RequeueCollides(p)
     THEN /\ lockHolder' = NoDispatcher
          /\ Becomes(d, AtRest)
          /\ UNCHANGED push
     ELSE /\ push' = [push EXCEPT ![p] = Outcome(d, p)]
          /\ Becomes(d, [dispatch[d] EXCEPT !.pc = "next"])
          /\ UNCHANGED lockHolder
  /\ UNCHANGED <<third, reached, settings>>

\* A statement fails or the process stops: what was claimed stays claimed.
TickStops(d) ==
  /\ ~Doing(d, "off")
  /\ lockHolder' = IF lockHolder = d THEN NoDispatcher ELSE lockHolder
  /\ Becomes(d, AtRest)
  /\ UNCHANGED <<third, push, reached, settings>>

-----------------------------------------------------------------------------

PushInit ==
  /\ third \in 0..LastThird
  /\ push = [p \in Pushes |-> NewRow("account", CHOOSE k \in Keys : TRUE, "none", "", 0)]
  /\ reached = [p \in Pushes |-> 0]
  /\ optedOut = {} /\ quietHours = TRUE /\ device = TRUE
  /\ lockHolder = NoDispatcher
  /\ dispatch = [d \in Dispatchers |-> AtRest]

TickStep(d) ==
  \/ StartTick(d)
  \/ \E some \in SUBSET Pushes : ClaimPushes(d, some)
  \/ \E p \in Pushes : NextPush(d, p)
  \/ CheckPush(d)
  \/ \E delivered, unregistered \in BOOLEAN : SendPush(d, delivered, unregistered)
  \/ RecordPush(d) \/ EndTick(d)

PushNext ==
  \/ \E p \in Pushes, c \in Categories, k \in Keys : EnqueuePush(p, c, k)
  \/ \E off \in SUBSET (Categories \ {"account"}), quiet \in BOOLEAN : SetPreferences(off, quiet)
  \/ \E registered \in BOOLEAN : SetDevice(registered)
  \/ ThirdPasses
  \/ \E d \in Dispatchers : TickStep(d) \/ TickStops(d)

PushSpec == PushInit /\ [][PushNext]_pushVars

-----------------------------------------------------------------------------
(* Properties *)

PushTypeOK ==
  /\ third \in 0..LastThird
  /\ push \in [Pushes -> PushRow]
  /\ reached \in [Pushes -> Nat]
  /\ optedOut \subseteq Categories \ {"account"}
  /\ quietHours \in BOOLEAN /\ device \in BOOLEAN
  /\ lockHolder \in Dispatchers \cup {NoDispatcher}
  /\ dispatch \in [Dispatchers -> DispatchState]

\* However ticks, retries, crashes and settings interleave, a push reaches the
\* traveler at most once, none is called sent that did not, and the pushes
\* sent on one day stay within the daily caps.
SentWithinCaps ==
  /\ \A p \in Pushes : reached[p] <= 1 /\ (push[p].status = "sent" => reached[p] = 1)
  /\ \A day \in 0..Day(LastThird) :
       LET sent(categories) == Cardinality({p \in WithStatus("sent") :
             push[p].sentOn = day /\ push[p].category \in categories})
       IN /\ sent(Categories \ {"account"}) <= DayCap
          /\ \A c \in Categories \ {"account", "weekly_recap"} : sent({c}) <= CategoryCap[c]
=============================================================================
