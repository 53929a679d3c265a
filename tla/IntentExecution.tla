--------------------------- MODULE IntentExecution ---------------------------
(***************************************************************************)
(* The paper auto-execution lane, from a captured trade intent to an order *)
(* at the broker:                                                          *)
(*                                                                         *)
(*   TradingTradeIntentService      creates the intent row, adds the job   *)
(*   the trading-auto-execution queue (BullMQ, external)                   *)
(*   TradingAutoExecutionProcessor  claims, checks, settles the intent     *)
(*   TradingExecutionService        drives the command row                 *)
(*   MT5BridgeClient and the bridge (external) place the order             *)
(*                                                                         *)
(* One action is the code between two awaits.  A worker is one concurrency *)
(* slot of a worker process.  Rows the code never reads back (execution    *)
(* events, lastTriggeredAt, reasons, volumes) are left out.                *)
(***************************************************************************)
EXTENDS Naturals, FiniteSets

CONSTANTS
  Intents,      \* one per (bindingId, signalEventId)
  Bindings,
  Workers,
  BindingOf,    \* Intents -> Bindings
  MaxAttempts,  \* BullMQ "attempts"
  MaxStalled,   \* BullMQ maxStalledCount
  Faults,       \* the failures the environment may show, see FaultKinds
  NoIntent, NoWorker

(* "ambiguous": the bridge call reports an error although the order exists *)
(* "db": a statement sent to the database throws and changes nothing       *)
(* "crash": a worker process, or the capturing process, dies               *)
(* "stall": a live handler loses its job lock and the job is run again     *)
(* "enqueue": queue.add throws although the job was stored                 *)
FaultKinds == {"ambiguous", "db", "crash", "stall", "enqueue"}

ASSUME ConstantsAssumption ==
  /\ BindingOf \in [Intents -> Bindings]
  /\ MaxAttempts \in Nat \ {0}
  /\ MaxStalled \in Nat
  /\ Faults \subseteq FaultKinds
  /\ NoIntent \notin Intents
  /\ NoWorker \notin Workers

VARIABLES
  cap,      \* progress of createIntentForBinding for each intent
  intent,   \* trading_trade_intents: status, done (completedAt is set)
  cmd,      \* trading_execution_commands, found by its idempotency key
  job,      \* the BullMQ job whose id is the intent's
  h,        \* what each worker slot is doing
  binding,  \* trading_automation_bindings, as the processor reads it
  expired,  \* intents older than MAX_INTENT_AGE_MS
  broker    \* MT5: orders placed; history: orders reported, calls sent, orders
            \* placed while killed

vars == <<cap, intent, cmd, job, h, binding, expired, broker>>
-----------------------------------------------------------------------------
RetryableCodes == {"BRIDGE_UNREACHABLE", "BRIDGE_TRANSPORT_FAILURE"}

IntentStatus == {"absent", "QUEUED", "PROCESSING", "EXECUTED", "REJECTED", "FAILED"}
Verdicts == {"EXECUTED", "REJECTED", "FAILED"}
CommandStatus ==
  {"absent", "PENDING", "VALIDATED", "DISPATCHED", "COMPLETED", "REJECTED", "FAILED"}
JobState == {"absent", "waiting", "active", "completed", "failed"}
Replies == {"accepted", "refused", "transport", "unreachable", "failed"}

(* Program points of a handler that owns the claim on its intent.          *)
Owning == {"load", "reject", "guard", "find", "create", "execute", "dispatch", "bridge",
           "reply", "defer", "conceal", "result", "settle", "requeue", "error"}
PCs == {"idle", "claim", "return", "throw"} \cup Owning

IntentRow == [status : IntentStatus, done : BOOLEAN]
CommandRow == [status : CommandStatus, code : RetryableCodes \cup {"none", "other"}]
JobRow == [state : JobState, attempts : Nat, holder : Workers \cup {NoWorker}, stalls : Nat]
Outs == Replies \cup IntentStatus \cup {"none"}
HandlerState == [pc : PCs, intent : Intents \cup {NoIntent}, attempt : Nat, out : Outs]
BindingRow == [active : BOOLEAN, killed : BOOLEAN]
BrokerRow == [orders : Nat, reported : Nat, calls : Nat, late : Nat]

Idle == [pc |-> "idle", intent |-> NoIntent, attempt |-> 0, out |-> "none"]

(* Variant: also takes over a command whose dispatch was interrupted.      *)
ResumesDispatched(c) ==
  c.status = "DISPATCHED" \/ (c.status = "FAILED" /\ c.code \in RetryableCodes)

(* A command that createCommand runs again instead of returning as it is.  *)
Retryable(c) == c.status = "FAILED" /\ c.code \in RetryableCodes

(* Variant: copies the command status into the intent.                     *)
CommandStatusAsIs(c) == c.status

(* Variant: reports a command that was dispatched as executed.             *)
DispatchedCounts(c) ==
  IF c.status \in {"COMPLETED", "DISPATCHED"} THEN "EXECUTED"
  ELSE IF c.status = "REJECTED" THEN "REJECTED" ELSE "FAILED"

(* The intent status a finished command stands for.                        *)
StatusFor(c) ==
  IF c.status = "COMPLETED" THEN "EXECUTED"
  ELSE IF c.status = "REJECTED" THEN "REJECTED" ELSE "FAILED"

(* Variant: forgets the kill switch.                                       *)
ActiveOnly(i) == binding[BindingOf[i]].active

Admissible(i) == binding[BindingOf[i]].active /\ ~binding[BindingOf[i]].killed

(* Handler w continues at p, carrying o to its next step.                  *)
Goto(w, p, o) ==
  h' = [h EXCEPT ![w] = [pc |-> p, intent |-> h[w].intent, attempt |-> h[w].attempt, out |-> o]]

At(w, p) == h[w].pc = p /\ h[w].intent \in Intents

SetIntent(w, s, d) == intent' = [intent EXCEPT ![h[w].intent] = [status |-> s, done |-> d]]
SetJob(i, s, n, w, k) ==
  job' = [job EXCEPT ![i] = [state |-> s, attempts |-> n, holder |-> w, stalls |-> k]]
SetCmd(w, s, c) == cmd' = [cmd EXCEPT ![h[w].intent] = [status |-> s, code |-> c]]

Init ==
  /\ cap = [i \in Intents |-> "idle"]
  /\ intent = [i \in Intents |-> [status |-> "absent", done |-> FALSE]]
  /\ cmd = [i \in Intents |-> [status |-> "absent", code |-> "none"]]
  /\ job = [i \in Intents |-> [state |-> "absent", attempts |-> 0, holder |-> NoWorker, stalls |-> 0]]
  /\ h = [w \in Workers |-> Idle]
  /\ binding = [b \in Bindings |-> [active |-> TRUE, killed |-> FALSE]]
  /\ expired = {}
  /\ broker = [i \in Intents |-> [orders |-> 0, reported |-> 0, calls |-> 0, late |-> 0]]
-----------------------------------------------------------------------------
(* CAPTURE: captureAutoExecuteEntryIntents and createIntentForBinding      *)

(* The query for bindings that are AUTO_EXECUTE, ACTIVE, PAPER, not killed *)
SelectBinding(i) ==
  /\ cap[i] = "idle"
  /\ Admissible(i)
  /\ cap' = [cap EXCEPT ![i] = "selected"]
  /\ UNCHANGED <<intent, cmd, job, h, binding, expired, broker>>

CreateIntent(i) ==
  /\ cap[i] = "selected"
  /\ cap' = [cap EXCEPT ![i] = "created"]
  /\ intent' = [intent EXCEPT ![i] = [status |-> "QUEUED", done |-> FALSE]]
  /\ UNCHANGED <<cmd, job, h, binding, expired, broker>>

AddJob(i) == SetJob(i, "waiting", 0, NoWorker, 0)

(* queue.add succeeds; or throws, having stored nothing or the whole job.  *)
Enqueue(i) ==
  /\ cap[i] = "created"
  /\ \/ cap' = [cap EXCEPT ![i] = "end"] /\ AddJob(i)
     \/ cap' = [cap EXCEPT ![i] = "enqueueFailed"] /\ UNCHANGED job
     \/ /\ "enqueue" \in Faults
        /\ cap' = [cap EXCEPT ![i] = "enqueueFailed"] /\ AddJob(i)
  /\ UNCHANGED <<intent, cmd, h, binding, expired, broker>>

MarkEnqueueFailed(i) ==
  /\ cap[i] = "enqueueFailed"
  /\ cap' = [cap EXCEPT ![i] = "end"]
  /\ intent' = [intent EXCEPT ![i] = [status |-> "FAILED", done |-> TRUE]]
  /\ UNCHANGED <<cmd, job, h, binding, expired, broker>>

(* The capturing process dies, or one of its writes throws: nothing in the *)
(* code looks for the row it leaves behind.                                *)
CaptureAbort(i) ==
  /\ {"crash", "db"} \cap Faults # {}
  /\ cap[i] \in {"selected", "created", "enqueueFailed"}
  /\ cap' = [cap EXCEPT ![i] = "end"]
  /\ UNCHANGED <<intent, cmd, job, h, binding, expired, broker>>
-----------------------------------------------------------------------------
(* QUEUE: BullMQ jobs and worker slots                                     *)

StartJob(w, i) ==
  /\ h[w] = Idle
  /\ job[i].state = "waiting"
  /\ SetJob(i, "active", job[i].attempts, w, job[i].stalls)
  /\ h' = [h EXCEPT ![w] = [pc |-> "claim", intent |-> i,
                            attempt |-> job[i].attempts + 1, out |-> "none"]]
  /\ UNCHANGED <<cap, intent, cmd, binding, expired, broker>>

(* The processor returned: the job completes, if its lock is still ours.   *)
JobReturns(w) ==
  /\ At(w, "return")
  /\ h' = [h EXCEPT ![w] = Idle]
  /\ LET i == h[w].intent IN
     \/ /\ job[i].holder = w
        /\ SetJob(i, "completed", job[i].attempts, NoWorker, job[i].stalls)
     \/ job[i].holder # w /\ UNCHANGED job
  /\ UNCHANGED <<cap, intent, cmd, binding, expired, broker>>

(* The processor threw: back off and wait, or fail after the last attempt. *)
JobThrows(w) ==
  /\ At(w, "throw")
  /\ h' = [h EXCEPT ![w] = Idle]
  /\ LET i == h[w].intent
         n == job[i].attempts + 1 IN
     \/ /\ job[i].holder = w
        /\ SetJob(i, IF n < MaxAttempts THEN "waiting" ELSE "failed", n, NoWorker, job[i].stalls)
     \/ job[i].holder # w /\ UNCHANGED job
  /\ UNCHANGED <<cap, intent, cmd, binding, expired, broker>>

WorkerCrash(w) ==
  /\ "crash" \in Faults
  /\ h[w] # Idle
  /\ h' = [h EXCEPT ![w] = Idle]
  /\ UNCHANGED <<cap, intent, cmd, job, binding, expired, broker>>

Abandoned(i) == job[i].holder \in Workers /\ h[job[i].holder].intent # i

(* The lock of an active job expired: run the job again, up to MaxStalled  *)
(* times.  The slot that held it need not be dead.                         *)
RecoverStalled(i) ==
  /\ job[i].state = "active"
  /\ Abandoned(i) \/ "stall" \in Faults
  /\ SetJob(i, IF job[i].stalls < MaxStalled THEN "waiting" ELSE "failed",
            job[i].attempts, NoWorker, job[i].stalls + 1)
  /\ UNCHANGED <<cap, intent, cmd, h, binding, expired, broker>>
-----------------------------------------------------------------------------
(* PROCESSOR: process(), up to the call of createCommand                   *)

(* Variant: an unconditional update instead of the guarded updateMany.     *)
ClaimAny(w) ==
  /\ At(w, "claim")
  /\ SetIntent(w, "PROCESSING", intent[h[w].intent].done)
  /\ Goto(w, "load", "none")
  /\ UNCHANGED <<cap, cmd, job, binding, expired, broker>>

(* Variant: claims whatever no other handler is processing.                *)
ClaimUnlessProcessing(w) ==
  /\ At(w, "claim")
  /\ \/ /\ intent[h[w].intent].status # "PROCESSING"
        /\ SetIntent(w, "PROCESSING", intent[h[w].intent].done)
        /\ Goto(w, "load", "none")
     \/ /\ intent[h[w].intent].status = "PROCESSING"
        /\ Goto(w, "return", "none")
        /\ UNCHANGED intent
  /\ UNCHANGED <<cap, cmd, job, binding, expired, broker>>

(* Variant: waits for an intent that another handler is processing.        *)
ClaimWaits(w) ==
  /\ At(w, "claim")
  /\ \/ /\ intent[h[w].intent].status \in {"QUEUED", "FAILED"}
        /\ SetIntent(w, "PROCESSING", intent[h[w].intent].done)
        /\ Goto(w, "load", "none")
     \/ /\ intent[h[w].intent].status \notin {"QUEUED", "FAILED"}
        /\ Goto(w, IF intent[h[w].intent].status = "PROCESSING" THEN "claim" ELSE "return", "none")
        /\ UNCHANGED intent
  /\ UNCHANGED <<cap, cmd, job, binding, expired, broker>>

(* updateMany where status in (QUEUED, FAILED); a count of 0 ends the job. *)
Claim(w) ==
  /\ At(w, "claim")
  /\ \/ /\ intent[h[w].intent].status \in {"QUEUED", "FAILED"}
        /\ SetIntent(w, "PROCESSING", intent[h[w].intent].done)
        /\ Goto(w, "load", "none")
     \/ /\ intent[h[w].intent].status \notin {"QUEUED", "FAILED"}
        /\ Goto(w, "return", "none")
        /\ UNCHANGED intent
  /\ UNCHANGED <<cap, cmd, job, binding, expired, broker>>

(* findUnique with binding and command, then the checks on what was read.  *)
Load(w) ==
  /\ At(w, "load")
  /\ LET i == h[w].intent
         old == i \in expired
         linked == cmd[i].status # "absent" /\ ~Retryable(cmd[i]) IN
     \/ old /\ Goto(w, "reject", "REJECTED")
     \/ ~old /\ linked /\ Goto(w, "reject", StatusFor(cmd[i]))
     \/ ~old /\ ~linked /\ ~Admissible(i) /\ Goto(w, "reject", "REJECTED")
     \/ ~old /\ ~linked /\ Admissible(i) /\ Goto(w, "guard", "none")
  /\ UNCHANGED <<cap, intent, cmd, job, binding, expired, broker>>

(* checkGuardrails, side and type, quoted price: any may block, and a      *)
(* drawdown above the threshold activates the binding's kill switch.       *)
Guard(w) ==
  /\ At(w, "guard")
  /\ \/ Goto(w, "find", "none") /\ UNCHANGED binding
     \/ Goto(w, "reject", "REJECTED") /\ UNCHANGED binding
     \/ /\ Goto(w, "reject", "REJECTED")
        /\ LET b == BindingOf[h[w].intent] IN
           binding' = [binding EXCEPT ![b] = [active |-> binding[b].active, killed |-> TRUE]]
  /\ UNCHANGED <<cap, intent, cmd, job, expired, broker>>

(* rejectIntent, or the settlement of an intent whose command is final.    *)
RejectIntent(w) ==
  /\ At(w, "reject")
  /\ SetIntent(w, h[w].out, TRUE)
  /\ Goto(w, "return", "none")
  /\ UNCHANGED <<cap, cmd, job, binding, expired, broker>>
-----------------------------------------------------------------------------
(* COMMAND BOUNDARY: createCommand and executeCommand                      *)

FindCommand(w) ==
  /\ At(w, "find")
  /\ LET c == cmd[h[w].intent] IN
     \/ c.status = "absent" /\ Goto(w, "create", "none")
     \/ Retryable(c) /\ Goto(w, "execute", "none")
     \/ c.status # "absent" /\ ~Retryable(c) /\ Goto(w, "result", "none")
  /\ UNCHANGED <<cap, intent, cmd, job, binding, expired, broker>>

(* The idempotency key is unique: a second insert throws P2002.            *)
CreateCommand(w) ==
  /\ At(w, "create")
  /\ \/ /\ cmd[h[w].intent].status = "absent"
        /\ SetCmd(w, "PENDING", "none")
        /\ Goto(w, "execute", "none")
     \/ /\ cmd[h[w].intent].status # "absent"
        /\ Goto(w, "error", "none")
        /\ UNCHANGED cmd
  /\ UNCHANGED <<cap, intent, job, binding, expired, broker>>

(* validateInput, then sync health and credential.                         *)
ValidateCommand(w) ==
  /\ At(w, "execute")
  /\ \/ SetCmd(w, "REJECTED", "other") /\ Goto(w, "result", "none")
     \/ SetCmd(w, "VALIDATED", "none") /\ Goto(w, "dispatch", "none")
  /\ UNCHANGED <<cap, intent, job, binding, expired, broker>>

DispatchCommand(w) ==
  /\ At(w, "dispatch")
  /\ SetCmd(w, "DISPATCHED", "none")
  /\ Goto(w, "bridge", "none")
  /\ UNCHANGED <<cap, intent, job, binding, expired, broker>>

(* Variant: the client itself repeats a request that found nobody.         *)
PostAgain(w) ==
  /\ At(w, "bridge")
  /\ \E placed \in BOOLEAN, r \in Replies :
       /\ r = "accepted" => placed
       /\ placed => r = "accepted" \/ "ambiguous" \in Faults
       /\ Goto(w, IF r = "unreachable" /\ ~placed THEN "bridge" ELSE "reply", r)
       /\ LET i == h[w].intent
              n == IF placed THEN 1 ELSE 0
              a == IF r = "accepted" THEN 1 ELSE 0
              k == IF placed /\ binding[BindingOf[i]].killed THEN 1 ELSE 0 IN
          broker' = [broker EXCEPT ![i] =
            [orders |-> broker[i].orders + n, reported |-> broker[i].reported + a,
             calls |-> broker[i].calls + 1, late |-> broker[i].late + k]]
  /\ UNCHANGED <<cap, intent, cmd, job, binding, expired>>

(* POST /trade/open-market.  An order placed is reported accepted, unless  *)
(* the answer is lost or garbled on the way back.                          *)
BridgeCall(w) ==
  /\ At(w, "bridge")
  /\ \E placed \in BOOLEAN, r \in Replies :
       /\ r = "accepted" => placed
       /\ placed => r = "accepted" \/ "ambiguous" \in Faults
       /\ Goto(w, "reply", r)
       /\ LET i == h[w].intent
              n == IF placed THEN 1 ELSE 0
              a == IF r = "accepted" THEN 1 ELSE 0
              k == IF placed /\ binding[BindingOf[i]].killed THEN 1 ELSE 0 IN
          broker' = [broker EXCEPT ![i] =
            [orders |-> broker[i].orders + n, reported |-> broker[i].reported + a,
             calls |-> broker[i].calls + 1, late |-> broker[i].late + k]]
  /\ UNCHANGED <<cap, intent, cmd, job, binding, expired>>

(* accepted; accepted: false (refused, or of category transport); or       *)
(* MT5BridgeClientError thrown (unreachable, or any other code).           *)
RecordReply(w) ==
  /\ At(w, "reply")
  /\ LET r == h[w].out IN
     \/ /\ r = "accepted"
        /\ SetCmd(w, "COMPLETED", "none") /\ Goto(w, "defer", "none")
     \/ /\ r = "transport"
        /\ SetCmd(w, "FAILED", "BRIDGE_TRANSPORT_FAILURE") /\ Goto(w, "defer", "none")
     \/ /\ r = "unreachable"
        /\ SetCmd(w, "FAILED", "BRIDGE_UNREACHABLE") /\ Goto(w, "result", "none")
     \/ /\ r = "refused"
        /\ SetCmd(w, "REJECTED", "other") /\ Goto(w, "defer", "none")
     \/ /\ r = "failed"
        /\ SetCmd(w, "REJECTED", "other") /\ Goto(w, "result", "none")
  /\ UNCHANGED <<cap, intent, job, binding, expired, broker>>

(* Variant: a failed enqueue of the reconciliation reaches the outer catch.*)
DeferMayThrow(w) ==
  /\ At(w, "defer")
  /\ Goto(w, "result", "none") \/ Goto(w, "conceal", "none")
  /\ UNCHANGED <<cap, intent, cmd, job, binding, expired, broker>>

(* What is left of the try: the event of the transition and, for an order  *)
(* accepted, deferReconciliation, which swallows a failed enqueue.         *)
DeferReconciliation(w) ==
  /\ At(w, "defer")
  /\ Goto(w, "result", "none")
  /\ UNCHANGED <<cap, intent, cmd, job, binding, expired, broker>>

(* The catch of executeCommand turns any other error into DISPATCH_FAILED. *)
ConcealReply(w) ==
  /\ At(w, "conceal")
  /\ SetCmd(w, "REJECTED", "other")
  /\ Goto(w, "result", "none")
  /\ UNCHANGED <<cap, intent, job, binding, expired, broker>>
-----------------------------------------------------------------------------
(* PROCESSOR: what process() does with the command                         *)

(* Variant: off by one, schedules a retry after the last attempt.          *)
RetriesAfterLast(w) ==
  /\ At(w, "result")
  /\ LET c == cmd[h[w].intent]
         again == Retryable(c) /\ h[w].attempt <= MaxAttempts IN
     \/ again /\ Goto(w, "requeue", "none")
     \/ ~again /\ Goto(w, "settle", StatusFor(c))
  /\ UNCHANGED <<cap, intent, cmd, job, binding, expired, broker>>

LoadResult(w) ==
  /\ At(w, "result")
  /\ LET c == cmd[h[w].intent]
         again == Retryable(c) /\ h[w].attempt < MaxAttempts IN
     \/ again /\ Goto(w, "requeue", "none")
     \/ ~again /\ Goto(w, "settle", StatusFor(c))
  /\ UNCHANGED <<cap, intent, cmd, job, binding, expired, broker>>

SettleIntent(w) ==
  /\ At(w, "settle")
  /\ SetIntent(w, h[w].out, TRUE)
  /\ Goto(w, "return", "none")
  /\ UNCHANGED <<cap, cmd, job, binding, expired, broker>>

(* FAILED with completedAt null, then RetryScheduledError.                 *)
RequeueIntent(w) ==
  /\ At(w, "requeue")
  /\ SetIntent(w, "FAILED", FALSE)
  /\ Goto(w, "throw", "none")
  /\ UNCHANGED <<cap, cmd, job, binding, expired, broker>>

(* The catch of process(): throws again, except on the last attempt.       *)
CatchError(w) ==
  /\ At(w, "error")
  /\ \/ h[w].attempt < MaxAttempts /\ SetIntent(w, "FAILED", FALSE) /\ Goto(w, "throw", "none")
     \/ h[w].attempt >= MaxAttempts /\ SetIntent(w, "FAILED", TRUE) /\ Goto(w, "return", "none")
  /\ UNCHANGED <<cap, cmd, job, binding, expired, broker>>

(* A throwing statement is caught nowhere before the try of process(), by  *)
(* executeCommand itself once the bridge call has returned, and in the     *)
(* catch of process() otherwise.                                           *)
DbError(w) ==
  /\ "db" \in Faults
  /\ LET answered == h[w].pc = "defer" \/ (h[w].pc = "reply" /\ h[w].out \notin {"unreachable", "failed"}) IN
     \/ h[w].pc \in {"claim", "load", "reject", "guard", "error"} /\ Goto(w, "throw", "none")
     \/ answered /\ Goto(w, "conceal", "none")
     \/ /\ h[w].pc \in Owning \ {"load", "reject", "guard", "error"}
        /\ ~answered
        /\ Goto(w, "error", "none")
  /\ UNCHANGED <<cap, intent, cmd, job, binding, expired, broker>>
-----------------------------------------------------------------------------
(* ENVIRONMENT                                                             *)

Expire(i) ==
  /\ intent[i].status # "absent"
  /\ expired' = expired \cup {i}
  /\ UNCHANGED <<cap, intent, cmd, job, h, binding, broker>>

(* updateBindingStatus by an operator: pause or resume, kill switch on or  *)
(* off; its read and its write may straddle other writes, any row results. *)
(* "late" counts the orders since the kill switch was last off.            *)
UpdateBinding(b) ==
  /\ \E v \in BindingRow :
       /\ binding' = [binding EXCEPT ![b] = v]
       /\ broker' = [i \in Intents |->
            [orders |-> broker[i].orders, reported |-> broker[i].reported, calls |-> broker[i].calls,
             late |-> IF BindingOf[i] = b /\ ~v.killed THEN 0 ELSE broker[i].late]]
  /\ UNCHANGED <<cap, intent, cmd, job, h, expired>>

Capture(i) == SelectBinding(i) \/ CreateIntent(i) \/ Enqueue(i) \/ MarkEnqueueFailed(i)

Step(w) ==
  \/ Claim(w) \/ Load(w) \/ Guard(w) \/ RejectIntent(w)
  \/ FindCommand(w) \/ CreateCommand(w) \/ ValidateCommand(w) \/ DispatchCommand(w)
  \/ BridgeCall(w) \/ RecordReply(w) \/ DeferReconciliation(w) \/ ConcealReply(w)
  \/ LoadResult(w) \/ SettleIntent(w) \/ RequeueIntent(w) \/ CatchError(w)
  \/ JobReturns(w) \/ JobThrows(w)

Next ==
  \/ \E i \in Intents : Capture(i) \/ CaptureAbort(i) \/ RecoverStalled(i) \/ Expire(i)
  \/ \E w \in Workers : Step(w) \/ WorkerCrash(w) \/ DbError(w)
  \/ \E w \in Workers, i \in Intents : StartJob(w, i)
  \/ \E b \in Bindings : UpdateBinding(b)

Spec == Init /\ [][Next]_vars

(* A process that is not killed runs on; BullMQ hands out waiting jobs and *)
(* looks for stalled ones.  Faults, operators and time are under no        *)
(* obligation.                                                             *)
Fairness ==
  /\ \A i \in Intents : WF_vars(CreateIntent(i)) /\ WF_vars(Enqueue(i)) /\ WF_vars(MarkEnqueueFailed(i))
  /\ \A i \in Intents : WF_vars(Abandoned(i) /\ RecoverStalled(i))
  /\ \A i \in Intents : WF_vars(\E w \in Workers : StartJob(w, i))
  /\ \A w \in Workers : WF_vars(Step(w))

FairSpec == Spec /\ Fairness
-----------------------------------------------------------------------------
(* PROPERTIES.  Each names the faults it survives.                         *)

(* Every variable keeps the shape of the rows and records it models.       *)
TypeOK ==
  /\ cap \in [Intents -> {"idle", "selected", "created", "enqueueFailed", "end"}]
  /\ intent \in [Intents -> IntentRow]
  /\ cmd \in [Intents -> CommandRow]
  /\ job \in [Intents -> JobRow]
  /\ h \in [Workers -> HandlerState]
  /\ binding \in [Bindings -> BindingRow]
  /\ expired \subseteq Intents
  /\ broker \in [Intents -> BrokerRow]
  /\ \A w \in Workers : h[w].pc \in {"reject", "settle"} => h[w].out \in Verdicts

Owns(w, i) == h[w].intent = i /\ h[w].pc \in Owning

(* The claim in process() is a lock: only one handler at a time works on   *)
(* an intent, whatever crashes, stalled jobs and database errors do, as    *)
(* long as a failed enqueue stored no job.                                 *)
ClaimExclusive ==
  \A i \in Intents, w \in Workers : Owns(w, i) =>
    /\ intent[i].status = "PROCESSING"
    /\ \A v \in Workers : Owns(v, i) => v = w

(* One intent, one broker order: the retries of the queue, of the stalled  *)
(* job and of the command row never send a second one, as long as an error *)
(* answer of the bridge means that no order was placed.                    *)
AtMostOneOrder == \A i \in Intents : broker[i].orders <= 1

(* Under lost answers as well, the order that the bridge has reported is   *)
(* the last one of its intent: no error behind the report, crash, retry or *)
(* stalled run sends another.                                              *)
ReportedIsLast ==
  [][\A i \in Intents : broker[i].reported > 0 => broker'[i].orders = broker[i].orders]_vars

(* EXECUTED is only ever reported for an order that is at the broker and a *)
(* command that still says so.                                             *)
ExecutedMeansOrder ==
  \A i \in Intents : intent[i].status = "EXECUTED" =>
    cmd[i].status = "COMPLETED" /\ broker[i].orders >= 1

(* An intent closed as REJECTED or FAILED left nothing at the broker.  It  *)
(* needs truthful answers and a database that does not fail after them.    *)
ClosedWithoutOrder ==
  \A i \in Intents : intent[i].done /\ intent[i].status \in {"REJECTED", "FAILED"} =>
    broker[i].orders = 0

(* The bridge is called at most once per attempt: a job run again because  *)
(* it stalled repeats its attempt number, so it may add one call.          *)
CallBudget == \A i \in Intents : broker[i].calls <= MaxAttempts + MaxStalled

(* process() reads the kill switch once, before several awaits: after it   *)
(* is activated each intent of the binding places at most one more order,  *)
(* even when every answer is lost and retries are left.                    *)
KillSwitchBound == \A i \in Intents : broker[i].late <= 1

(* EXECUTED and REJECTED are final: no later attempt, stalled run or late  *)
(* write of the capturing service reopens such an intent.                  *)
VerdictIsFinal ==
  [][\A i \in Intents : intent[i].status \in {"EXECUTED", "REJECTED"} =>
       intent'[i].status = intent[i].status]_vars

(* Without crashes and database errors, every intent written by the        *)
(* capture is closed with completedAt set, however the bridge answers and  *)
(* whatever becomes of the enqueue.                                        *)
IntentsSettle == \A i \in Intents : cap[i] = "created" ~> intent[i].done

(* Under every fault, a stored job leaves the queue.                       *)
JobsDrain ==
  \A i \in Intents : job[i].state \in {"waiting", "active"} ~> job[i].state \in {"completed", "failed"}

(* The abstract view of an intent row.                                     *)
Outcome(i) ==
  CASE intent[i].status = "absent" -> "absent"
    [] intent[i].status = "EXECUTED" -> "executed"
    [] intent[i].status = "REJECTED" -> "rejected"
    [] intent[i].status = "FAILED" /\ intent[i].done -> "failed"
    [] OTHER -> "open"

Promise == INSTANCE TradePromise WITH
  outcome <- [i \in Intents |-> Outcome(i)],
  placed <- [i \in Intents |-> broker[i].orders]

(* The lane implements TradePromise: with truthful answers and a working   *)
(* database, the verdict an operator reads is what happened at the broker, *)
(* although workers crash and jobs are retried.                            *)
PromiseKept == Promise!Spec
=============================================================================
