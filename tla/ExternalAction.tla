--------------------------- MODULE ExternalAction ---------------------------
(***************************************************************************)
(* Outbound signal messages of one external deployment:                    *)
(*                                                                         *)
(*   ExternalActionEventService      stores the actionable event, adds a   *)
(*                                   delivery job whose id is the event's  *)
(*   ExternalActionReplayService     adds a further job for the event      *)
(*   the external-action-delivery queue (BullMQ, external)                 *)
(*   ExternalActionDeliveryProcessor delivers, settles event and replay    *)
(*   TelegramExternalActionDeliveryService calls Telegram (external)       *)
(*                                                                         *)
(* One action is the code between two awaits; a worker is one concurrency  *)
(* slot of the worker process.                                             *)
(***************************************************************************)
EXTENDS Naturals, FiniteSets

CONSTANTS
  Events,       \* one per (deployment, signal event); also their first jobs
  Replays,      \* replay requests; also their jobs
  EventOf,      \* the event a job delivers
  Workers,
  MaxAttempts,  \* BullMQ "attempts"
  MaxStalled,   \* BullMQ maxStalledCount
  Faults,       \* the failures the environment may show
  NoJob, NoWorker

Jobs == Events \cup Replays

(* "ambiguous": the call to Telegram throws although the message went out  *)
(* "db": a statement sent to the external database throws                  *)
(* "crash": a worker process, or the API process, dies                     *)
(* "stall": a live handler loses its job lock and the job is run again     *)
(* "enqueue": queue.add throws, whether or not the job was stored          *)
FaultKinds == {"ambiguous", "db", "crash", "stall", "enqueue"}

ASSUME ConstantsAssumption ==
  /\ Events \cap Replays = {}
  /\ EventOf \in [Jobs -> Events]
  /\ \A e \in Events : EventOf[e] = e
  /\ MaxAttempts \in Nat \ {0}
  /\ MaxStalled \in Nat
  /\ Faults \subseteq FaultKinds
  /\ NoJob \notin Jobs
  /\ NoWorker \notin Workers
  /\ IsFiniteSet(Workers)

VARIABLES
  active,      \* external_deployments.status is ACTIVE
  event,       \* external_action_events.status
  replay,      \* external_action_replay_jobs.status
  caller,      \* progress of the API process with each job it adds
  job,         \* BullMQ jobs
  h,           \* what each worker slot is doing
  rows,        \* external_action_deliveries of each job
  sentRows,    \* ... those of them that are SENT
  telegram,    \* messages of each job that went out
  late         \* messages that went out since the deployment was last ACTIVE

vars == <<active, event, replay, caller, job, h, rows, sentRows, telegram, late>>
Deliveries == <<rows, sentRows, telegram, late>>

EventStatus == {"absent", "READY", "SENT", "FAILED", "CANCELED"}
ReplayStatus == {"absent", "QUEUED", "PROCESSING", "COMPLETED", "FAILED"}
JobState == {"absent", "waiting", "active", "completed", "failed"}
CallerPCs == {"idle", "selected", "read", "created", "enqueue", "undo", "unmark", "end"}

BeforeTry == {"start", "load", "cancel", "giveUp", "attempt"}
InTry == {"deliver", "sent", "markSent", "completeReplay"}
InCatch == {"failed", "markFailed", "failReplay"}
PCs == {"idle", "return", "throw"} \cup BeforeTry \cup InTry \cup InCatch

CallerRow == [pc : CallerPCs, prev : EventStatus]
JobRow == [state : JobState, attempts : Nat, holder : Workers \cup {NoWorker}, stalls : Nat]
HandlerState == [pc : PCs, job : Jobs \cup {NoJob}, attempt : Nat, claimed : 0..1]

Idle == [pc |-> "idle", job |-> NoJob, attempt |-> 0, claimed |-> 0]

At(w, p) == h[w].pc = p /\ h[w].job \in Jobs
IsReplay(w) == h[w].job \in Replays

(* claimed: the rows of this run that say SENT, none or one.               *)
SetHandler(w, p, j, n, c) ==
  h' = [h EXCEPT ![w] = [pc |-> p, job |-> j, attempt |-> n, claimed |-> c]]
Claim(w, p, c) == SetHandler(w, p, h[w].job, h[w].attempt, c)
Goto(w, p) == Claim(w, p, h[w].claimed)
SetEvent(w, s) == event' = [event EXCEPT ![EventOf[h[w].job]] = s]
SetReplay(w, s) == replay' = [replay EXCEPT ![h[w].job] = s]
SetCaller(j, p, prev) == caller' = [caller EXCEPT ![j] = [pc |-> p, prev |-> prev]]
SetJob(j, s, n, w, k) ==
  job' = [job EXCEPT ![j] = [state |-> s, attempts |-> n, holder |-> w, stalls |-> k]]
AddJob(j) == SetJob(j, "waiting", 0, NoWorker, 0)
EndJob(j, s) == SetJob(j, s, 0, NoWorker, 0)

Init ==
  /\ active = FALSE
  /\ event = [e \in Events |-> "absent"]
  /\ replay = [r \in Replays |-> "absent"]
  /\ caller = [j \in Jobs |-> [pc |-> "idle", prev |-> "absent"]]
  /\ job = [j \in Jobs |-> [state |-> "absent", attempts |-> 0, holder |-> NoWorker, stalls |-> 0]]
  /\ h = [w \in Workers |-> Idle]
  /\ rows = [j \in Jobs |-> 0]
  /\ sentRows = [j \in Jobs |-> 0]
  /\ telegram = [j \in Jobs |-> 0]
  /\ late = 0
-----------------------------------------------------------------------------
(* DEPLOYMENT: enable, pause and archive are unconditional updates, and    *)
(* every status but ACTIVE is treated the same.                            *)

EnableDeployment ==
  /\ active' = TRUE
  /\ late' = 0
  /\ UNCHANGED <<event, replay, caller, job, h, rows, sentRows, telegram>>

PauseDeployment ==
  /\ active' = FALSE
  /\ UNCHANGED <<event, replay, caller, job, h, Deliveries>>
-----------------------------------------------------------------------------
(* CAPTURE: captureActionableEvents                                        *)

FindDeployment(e) ==
  /\ caller[e].pc = "idle"
  /\ active
  /\ SetCaller(e, "selected", "absent")
  /\ UNCHANGED <<active, event, replay, job, h, Deliveries>>

CreateEvent(e) ==
  /\ caller[e].pc = "selected"
  /\ event' = [event EXCEPT ![e] = "READY"]
  /\ SetCaller(e, "enqueue", "FAILED")
  /\ UNCHANGED <<active, replay, job, h, Deliveries>>
-----------------------------------------------------------------------------
(* REPLAY: replayEvent, for an event in any status                         *)

ReadEvent(r) ==
  /\ caller[r].pc = "idle"
  /\ event[EventOf[r]] # "absent"
  /\ SetCaller(r, "read", event[EventOf[r]])
  /\ UNCHANGED <<active, event, replay, job, h, Deliveries>>

CreateReplay(r) ==
  /\ caller[r].pc = "read"
  /\ replay' = [replay EXCEPT ![r] = "QUEUED"]
  /\ SetCaller(r, "created", caller[r].prev)
  /\ UNCHANGED <<active, event, job, h, Deliveries>>

MarkReady(r) ==
  /\ caller[r].pc = "created"
  /\ event' = [event EXCEPT ![EventOf[r]] = "READY"]
  /\ SetCaller(r, "enqueue", caller[r].prev)
  /\ UNCHANGED <<active, replay, job, h, Deliveries>>

(* queue.add, in captureActionableEvents or in replayEvent.                *)
Enqueue(j) ==
  /\ caller[j].pc = "enqueue"
  /\ \/ SetCaller(j, "end", "absent") /\ AddJob(j)
     \/ /\ "enqueue" \in Faults
        /\ SetCaller(j, "undo", caller[j].prev)
        /\ AddJob(j) \/ UNCHANGED job
  /\ UNCHANGED <<active, event, replay, h, Deliveries>>

(* The catch of a failed enqueue: captureActionableEvents writes FAILED    *)
(* for a new event, replayEvent the status it read at its beginning.       *)
UndoEnqueue(j) ==
  /\ caller[j].pc = "undo"
  /\ event' = [event EXCEPT ![EventOf[j]] = caller[j].prev]
  /\ SetCaller(j, IF j \in Replays THEN "unmark" ELSE "end", "absent")
  /\ UNCHANGED <<active, replay, job, h, Deliveries>>

MarkReplayFailed(r) ==
  /\ caller[r].pc = "unmark"
  /\ replay' = [replay EXCEPT ![r] = "FAILED"]
  /\ SetCaller(r, "end", "absent")
  /\ UNCHANGED <<active, event, job, h, Deliveries>>

CallerAborts(j) ==
  /\ {"crash", "db"} \cap Faults # {}
  /\ caller[j].pc \notin {"idle", "end"}
  /\ SetCaller(j, "end", "absent")
  /\ UNCHANGED <<active, event, replay, job, h, Deliveries>>
-----------------------------------------------------------------------------
(* QUEUE                                                                   *)

StartJob(w, j) ==
  /\ h[w] = Idle
  /\ job[j].state = "waiting"
  /\ SetJob(j, "active", job[j].attempts, w, job[j].stalls)
  /\ SetHandler(w, IF j \in Replays THEN "start" ELSE "load", j, job[j].attempts + 1, 0)
  /\ UNCHANGED <<active, event, replay, caller, Deliveries>>

JobReturns(w) ==
  /\ At(w, "return")
  /\ h' = [h EXCEPT ![w] = Idle]
  /\ LET j == h[w].job IN
     IF job[j].holder = w THEN EndJob(j, "completed")
     ELSE UNCHANGED job
  /\ UNCHANGED <<active, event, replay, caller, Deliveries>>

JobThrows(w) ==
  /\ At(w, "throw")
  /\ h' = [h EXCEPT ![w] = Idle]
  /\ LET j == h[w].job
         n == job[j].attempts + 1 IN
     \/ job[j].holder # w /\ UNCHANGED job
     \/ job[j].holder = w /\ n < MaxAttempts /\ SetJob(j, "waiting", n, NoWorker, job[j].stalls)
     \/ job[j].holder = w /\ n >= MaxAttempts /\ EndJob(j, "failed")
  /\ UNCHANGED <<active, event, replay, caller, Deliveries>>

WorkerCrash(w) ==
  /\ "crash" \in Faults
  /\ h[w] # Idle
  /\ h' = [h EXCEPT ![w] = Idle]
  /\ UNCHANGED <<active, event, replay, caller, job, Deliveries>>

Abandoned(j) == job[j].holder \in Workers /\ h[job[j].holder].job # j

RecoverStalled(j) ==
  /\ job[j].state = "active"
  /\ Abandoned(j) \/ "stall" \in Faults
  /\ \/ /\ job[j].stalls < MaxStalled
        /\ SetJob(j, "waiting", job[j].attempts, NoWorker, job[j].stalls + 1)
     \/ job[j].stalls >= MaxStalled /\ EndJob(j, "failed")
  /\ UNCHANGED <<active, event, replay, caller, h, Deliveries>>
-----------------------------------------------------------------------------
(* PROCESSOR: process()                                                    *)

StartReplay(w) ==
  /\ At(w, "start")
  /\ SetReplay(w, "PROCESSING")
  /\ Goto(w, "load")
  /\ UNCHANGED <<active, event, caller, job, Deliveries>>

(* Variant: does not look at the deployment.                               *)
LoadAnyway(w) ==
  /\ At(w, "load")
  /\ Goto(w, "attempt")
  /\ UNCHANGED <<active, event, replay, caller, job, Deliveries>>

(* getActionableEventWithDeployment and the check of the deployment.       *)
Load(w) ==
  /\ At(w, "load")
  /\ Goto(w, IF active THEN "attempt" ELSE "cancel")
  /\ UNCHANGED <<active, event, replay, caller, job, Deliveries>>

CancelEvent(w) ==
  /\ At(w, "cancel")
  /\ SetEvent(w, "CANCELED")
  /\ Goto(w, IF IsReplay(w) THEN "giveUp" ELSE "return")
  /\ UNCHANGED <<active, replay, caller, job, Deliveries>>

(* Variant: reports the canceled replay as completed.                      *)
GiveUpCompleted(w) ==
  /\ At(w, "giveUp")
  /\ SetReplay(w, "COMPLETED")
  /\ Goto(w, "return")
  /\ UNCHANGED <<active, event, caller, job, Deliveries>>

GiveUpReplay(w) ==
  /\ At(w, "giveUp")
  /\ SetReplay(w, "FAILED")
  /\ Goto(w, "return")
  /\ UNCHANGED <<active, event, caller, job, Deliveries>>

(* Variant: one row for all attempts of a job.                             *)
ReuseAttempt(w) ==
  /\ At(w, "attempt")
  /\ rows' = [rows EXCEPT ![h[w].job] = 1]
  /\ Goto(w, "deliver")
  /\ UNCHANGED <<active, event, replay, caller, job, sentRows, telegram, late>>

CreateAttempt(w) ==
  /\ At(w, "attempt")
  /\ rows' = [rows EXCEPT ![h[w].job] = rows[h[w].job] + 1]
  /\ Goto(w, "deliver")
  /\ UNCHANGED <<active, event, replay, caller, job, sentRows, telegram, late>>

(* Telegram gets n copies of the message of worker w.                      *)
Receive(w, n) ==
  /\ telegram' = [telegram EXCEPT ![h[w].job] = telegram[h[w].job] + n]
  /\ late' = IF active THEN late ELSE late + n

(* deliver: sendMessage with a timeout of five seconds.  Whatever answers  *)
(* with a 2xx status counts as delivered unless its body is JSON with      *)
(* ok = false; that only Telegram answers so, after it took the message,   *)
(* is an assumption.                                                       *)
Deliver(w) ==
  /\ At(w, "deliver")
  /\ \/ Receive(w, 1) /\ Goto(w, "sent")
     \/ Receive(w, 0) /\ Goto(w, "failed")
     \/ "ambiguous" \in Faults /\ Receive(w, 1) /\ Goto(w, "failed")
  /\ UNCHANGED <<active, event, replay, caller, job, rows, sentRows>>

RecordSent(w) ==
  /\ At(w, "sent")
  /\ sentRows' = [sentRows EXCEPT ![h[w].job] = sentRows[h[w].job] + 1]
  /\ Claim(w, "markSent", 1)
  /\ UNCHANGED <<active, event, replay, caller, job, rows, telegram, late>>

MarkSent(w) ==
  /\ At(w, "markSent")
  /\ SetEvent(w, "SENT")
  /\ Goto(w, IF IsReplay(w) THEN "completeReplay" ELSE "return")
  /\ UNCHANGED <<active, replay, caller, job, Deliveries>>

CompleteReplay(w) ==
  /\ At(w, "completeReplay")
  /\ SetReplay(w, "COMPLETED")
  /\ Goto(w, "return")
  /\ UNCHANGED <<active, event, caller, job, Deliveries>>

(* Variant: takes back the claim of every row.                             *)
RecordFailedTwice(w) ==
  /\ At(w, "failed")
  /\ sentRows' = [sentRows EXCEPT ![h[w].job] = sentRows[h[w].job] - 1]
  /\ Claim(w, IF h[w].attempt >= MaxAttempts THEN "markFailed" ELSE "throw", 0)
  /\ UNCHANGED <<active, event, replay, caller, job, rows, telegram, late>>

(* Variant: tries again itself instead of leaving it to the queue.         *)
RecordFailedInPlace(w) ==
  /\ At(w, "failed")
  /\ sentRows' = [sentRows EXCEPT ![h[w].job] = sentRows[h[w].job] - h[w].claimed]
  /\ Claim(w, IF h[w].attempt >= MaxAttempts THEN "markFailed" ELSE "attempt", 0)
  /\ UNCHANGED <<active, event, replay, caller, job, rows, telegram, late>>

(* The catch: whatever threw in the try, the row becomes FAILED.           *)
RecordFailed(w) ==
  /\ At(w, "failed")
  /\ sentRows' = [sentRows EXCEPT ![h[w].job] = sentRows[h[w].job] - h[w].claimed]
  /\ Claim(w, IF h[w].attempt >= MaxAttempts THEN "markFailed" ELSE "throw", 0)
  /\ UNCHANGED <<active, event, replay, caller, job, rows, telegram, late>>

(* Variant: forgets the replay.                                            *)
MarkFailedOnly(w) ==
  /\ At(w, "markFailed")
  /\ SetEvent(w, "FAILED")
  /\ Goto(w, "throw")
  /\ UNCHANGED <<active, replay, caller, job, Deliveries>>

MarkFailed(w) ==
  /\ At(w, "markFailed")
  /\ SetEvent(w, "FAILED")
  /\ Goto(w, IF IsReplay(w) THEN "failReplay" ELSE "throw")
  /\ UNCHANGED <<active, replay, caller, job, Deliveries>>

FailReplay(w) ==
  /\ At(w, "failReplay")
  /\ SetReplay(w, "FAILED")
  /\ Goto(w, "throw")
  /\ UNCHANGED <<active, event, caller, job, Deliveries>>

(* A throwing statement inside the try reaches the catch, even after the   *)
(* message was sent; any other leaves process().                           *)
DbError(w) ==
  /\ "db" \in Faults
  /\ \/ h[w].pc \in BeforeTry \cup InCatch /\ Goto(w, "throw")
     \/ h[w].pc \in InTry \ {"deliver"} /\ Goto(w, "failed")
  /\ UNCHANGED <<active, event, replay, caller, job, Deliveries>>

Caller(j) == Enqueue(j) \/ UndoEnqueue(j)
Capture(e) == FindDeployment(e) \/ CreateEvent(e)
Replay(r) == CreateReplay(r) \/ MarkReady(r) \/ MarkReplayFailed(r)

Step(w) ==
  \/ StartReplay(w) \/ Load(w) \/ CancelEvent(w) \/ GiveUpReplay(w) \/ CreateAttempt(w)
  \/ Deliver(w) \/ RecordSent(w) \/ MarkSent(w) \/ CompleteReplay(w)
  \/ RecordFailed(w) \/ MarkFailed(w) \/ FailReplay(w) \/ JobReturns(w) \/ JobThrows(w)

Next ==
  \/ EnableDeployment \/ PauseDeployment
  \/ \E e \in Events : Capture(e)
  \/ \E r \in Replays : ReadEvent(r) \/ Replay(r)
  \/ \E j \in Jobs : Caller(j) \/ CallerAborts(j) \/ RecoverStalled(j)
  \/ \E w \in Workers : Step(w) \/ WorkerCrash(w) \/ DbError(w)
  \/ \E w \in Workers, j \in Jobs : StartJob(w, j)

Spec == Init /\ [][Next]_vars

(* Processes run on, BullMQ hands out waiting jobs and recovers abandoned  *)
(* ones.  Operators owe nothing.                                           *)
FairSpec ==
  /\ Spec
  /\ \A e \in Events : WF_vars(CreateEvent(e))
  /\ \A r \in Replays : WF_vars(Replay(r))
  /\ \A j \in Jobs : WF_vars(Caller(j)) /\ WF_vars(Abandoned(j) /\ RecoverStalled(j))
  /\ \A j \in Jobs : WF_vars(\E w \in Workers : StartJob(w, j))
  /\ \A w \in Workers : WF_vars(Step(w))
-----------------------------------------------------------------------------
(* PROPERTIES                                                              *)

(* Every variable keeps the shape of the rows and records it models.       *)
TypeOK ==
  /\ active \in BOOLEAN
  /\ event \in [Events -> EventStatus]
  /\ replay \in [Replays -> ReplayStatus]
  /\ caller \in [Jobs -> CallerRow]
  /\ job \in [Jobs -> JobRow]
  /\ h \in [Workers -> HandlerState]
  /\ rows \in [Jobs -> Nat]
  /\ sentRows \in [Jobs -> Nat]
  /\ telegram \in [Jobs -> Nat]
  /\ late \in Nat

JobsOf(e) == {j \in Jobs : EventOf[j] = e}

(* SENT is only reported of an event whose message went out, although a    *)
(* replay that cannot be enqueued writes back a status it read long ago.   *)
SentMeansDelivered ==
  \A e \in Events : event[e] = "SENT" => \E j \in JobsOf(e) : telegram[j] > 0

(* A replay is COMPLETED only if the replay itself sent a message: not     *)
(* because the event was already SENT, and not if it was canceled.         *)
ReplayMeansResent == \A r \in Replays : replay[r] = "COMPLETED" => telegram[r] > 0

(* What operators read of an event and of a replay is true: neither claims *)
(* a message that did not go out for it.                                   *)
ReportsAreTrue == SentMeansDelivered /\ ReplayMeansResent

(* The delivery rows are a complete record: no row claims a message that   *)
(* did not go out, and no message went out without a row of its own.       *)
RowsAccountForMessages ==
  \A j \in Jobs :
    /\ sentRows[j] <= telegram[j]
    /\ telegram[j] <= rows[j]

(* Duplicates are bounded: a job sends at most one message per attempt and *)
(* one more for each time it stalled, whatever is lost on the way back.    *)
DuplicatesBounded == \A j \in Jobs : telegram[j] <= MaxAttempts + MaxStalled

(* The status of the deployment is checked before the message is sent, not *)
(* with it: after a pause each worker slot lets at most one message out.   *)
PauseBound == late <= Cardinality(Workers)

(* Without crashes and failed statements an event with a delivery waiting  *)
(* leaves READY, also if the calls to Telegram fail or are lost, another   *)
(* replay cannot be enqueued, or the deployment is paused.                 *)
EventsSettle ==
  \A e \in Events, j \in Jobs :
    EventOf[j] = e /\ event[e] = "READY" /\ job[j].state = "waiting" ~> event[e] # "READY"

(* ... and every replay an operator asked for is answered.                 *)
ReplaysSettle ==
  \A r \in Replays : replay[r] \in {"QUEUED", "PROCESSING"} ~> replay[r] \in {"COMPLETED", "FAILED"}

(* Nobody waits for ever: neither the event of a waiting delivery nor an   *)
(* operator's replay stays undecided.                                      *)
DeliveriesSettle == EventsSettle /\ ReplaysSettle
=============================================================================
