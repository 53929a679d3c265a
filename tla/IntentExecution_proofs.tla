------------------------ MODULE IntentExecution_proofs ------------------------
(***************************************************************************)
(* Proofs about IntentExecution for every set of intents, bindings and     *)
(* workers, every MaxAttempts and MaxStalled, and every set of faults but  *)
(* the ones a theorem excludes.                                            *)
(***************************************************************************)
EXTENDS IntentExecution, TLAPS

(* What is read before the job exists: nobody but the capture knows of the *)
(* intent.                                                                 *)
CapturePrivate ==
  \A i \in Intents : cap[i] # "end" =>
    job[i].state = "absent" /\ \A w \in Workers : h[w].intent # i

JobAbsentUnknown ==
  \A i \in Intents : job[i].state = "absent" => \A w \in Workers : h[w].intent # i

(* The claim lock, strengthened to an inductive invariant.                 *)
ClaimInv == TypeOK /\ CapturePrivate /\ JobAbsentUnknown /\ ClaimExclusive

(* No order of a command that may still be dispatched was reported.        *)
FreshCommand(i) == cmd[i].status \in {"absent", "PENDING", "VALIDATED"} \/ Retryable(cmd[i])

(* What the owner of intent i knows of its command at each program point.  *)
OwnerKnows(w, i) ==
  /\ h[w].pc = "execute" => cmd[i].status = "PENDING" \/ Retryable(cmd[i])
  /\ h[w].pc = "dispatch" => cmd[i].status = "VALIDATED"
  /\ h[w].pc = "bridge" => cmd[i].status = "DISPATCHED" /\ broker[i].reported = 0
  /\ h[w].pc = "reply" /\ h[w].out # "accepted" => broker[i].reported = 0

(* Orders and reports differ only by the answers that were lost.           *)
Reports(i) ==
  /\ broker[i].reported <= 1
  /\ "ambiguous" \notin Faults => broker[i].orders = broker[i].reported

ReportInv == \A i \in Intents : Reports(i)

OrderInv ==
  /\ ClaimInv
  /\ ReportInv
  /\ \A i \in Intents : FreshCommand(i) => broker[i].reported = 0
  /\ \A i \in Intents, w \in Workers : h[w].intent = i => OwnerKnows(w, i)

(* The witness of EXECUTED: the order, then the command, then the verdict. *)
Witnessed(w, i) ==
  /\ h[w].pc = "reply" /\ h[w].out = "accepted" => broker[i].orders >= 1
  /\ h[w].pc \in {"reject", "settle"} /\ h[w].out = "EXECUTED" => cmd[i].status = "COMPLETED"

VerdictInv ==
  /\ ClaimInv
  /\ \A i \in Intents : cmd[i].status = "COMPLETED" => broker[i].orders >= 1
  /\ \A i \in Intents : intent[i].status = "EXECUTED" => cmd[i].status = "COMPLETED"
  /\ \A i \in Intents, w \in Workers : h[w].intent = i => Witnessed(w, i)
-----------------------------------------------------------------------------
(* Type correctness.                                                       *)

LEMMA TypeInit == Init => TypeOK
BY ConstantsAssumption DEF Init, TypeOK, Idle, PCs, IntentStatus, CommandStatus, JobState,
  IntentRow, CommandRow, JobRow, Outs, HandlerState, BindingRow, BrokerRow

(* The four row updates keep their tables typed.                           *)
LEMMA GotoTyped ==
  ASSUME NEW w \in Workers, NEW p \in PCs, NEW o \in Outs,
         p \in {"reject", "settle"} => o \in Verdicts,
         TypeOK, Goto(w, p, o)
  PROVE  /\ h' \in [Workers -> HandlerState]
         /\ \A v \in Workers : h'[v].pc \in {"reject", "settle"} => h'[v].out \in Verdicts
BY DEF Goto, HandlerState, TypeOK

LEMMA SetIntentTyped ==
  ASSUME NEW w \in Workers, NEW s \in IntentStatus, NEW d \in BOOLEAN,
         intent \in [Intents -> IntentRow], SetIntent(w, s, d)
  PROVE  intent' \in [Intents -> IntentRow]
BY DEF SetIntent, IntentRow

LEMMA SetCmdTyped ==
  ASSUME NEW w \in Workers, NEW s \in CommandStatus,
         NEW c \in RetryableCodes \cup {"none", "other"},
         cmd \in [Intents -> CommandRow], SetCmd(w, s, c)
  PROVE  cmd' \in [Intents -> CommandRow]
BY DEF SetCmd, CommandRow

LEMMA SetJobTyped ==
  ASSUME NEW i \in Intents, NEW s \in JobState, NEW n \in Nat,
         NEW w \in Workers \cup {NoWorker}, NEW k \in Nat,
         job \in [Intents -> JobRow], SetJob(i, s, n, w, k)
  PROVE  job' \in [Intents -> JobRow]
BY DEF SetJob, JobRow

(* A finished command maps to an intent status.                            *)
LEMMA StatusForTyped == ASSUME NEW c PROVE StatusFor(c) \in Verdicts
BY DEF StatusFor, Verdicts

(* Every step keeps the shape of the state.                                *)
LEMMA TypeStep == TypeOK /\ [Next]_vars => TypeOK'
<1> SUFFICES ASSUME TypeOK, [Next]_vars PROVE TypeOK'
  OBVIOUS
<1> USE ConstantsAssumption DEF TypeOK
<1>p. PCs = {"idle", "claim", "return", "throw"} \cup Owning
  BY DEF PCs
<1>w. ASSUME NEW w \in Workers PROVE h[w] \in HandlerState
  OBVIOUS
<1>1. ASSUME NEW i \in Intents, SelectBinding(i) PROVE TypeOK'
  BY <1>1 DEF SelectBinding
<1>2. ASSUME NEW i \in Intents, CreateIntent(i) PROVE TypeOK'
  BY <1>2 DEF CreateIntent, IntentRow, IntentStatus
<1>3. ASSUME NEW i \in Intents, Enqueue(i) PROVE TypeOK'
  BY <1>3, SetJobTyped DEF Enqueue, AddJob, JobState
<1>4. ASSUME NEW i \in Intents, MarkEnqueueFailed(i) PROVE TypeOK'
  BY <1>4 DEF MarkEnqueueFailed, IntentRow, IntentStatus
<1>5. ASSUME NEW i \in Intents, CaptureAbort(i) PROVE TypeOK'
  BY <1>5 DEF CaptureAbort
<1>6. ASSUME NEW i \in Intents, RecoverStalled(i) PROVE TypeOK'
  BY <1>6, SetJobTyped DEF RecoverStalled, JobRow, JobState
<1>7. ASSUME NEW i \in Intents, Expire(i) PROVE TypeOK'
  BY <1>7 DEF Expire
<1>8. ASSUME NEW w \in Workers, Claim(w) PROVE TypeOK'
  BY <1>8, GotoTyped, SetIntentTyped DEF Claim, At, Owning, PCs, Outs, IntentStatus, IntentRow
<1>9. ASSUME NEW w \in Workers, Load(w) PROVE TypeOK'
  BY <1>9, GotoTyped, StatusForTyped DEF Load, Verdicts, At, Owning, PCs, Outs, IntentStatus
<1>10. ASSUME NEW w \in Workers, Guard(w) PROVE TypeOK'
  <2>1. binding' \in [Bindings -> BindingRow]
    <3> DEFINE b == BindingOf[h[w].intent]
    <3>1. b \in Bindings /\ binding[b].active \in BOOLEAN
      BY <1>10 DEF Guard, At, BindingRow
    <3>2. binding' = binding
          \/ binding' = [binding EXCEPT ![b] = [active |-> binding[b].active, killed |-> TRUE]]
      BY <1>10 DEF Guard
    <3>3. [active |-> binding[b].active, killed |-> TRUE] \in BindingRow
      BY <3>1, Zenon DEF BindingRow
    <3> HIDE DEF b
    <3> QED
      BY <3>1, <3>2, <3>3
  <2>2. h' \in [Workers -> HandlerState]
        /\ \A v \in Workers : h'[v].pc \in {"reject", "settle"} => h'[v].out \in Verdicts
    BY <1>10, GotoTyped DEF Guard, Verdicts, At, Owning, PCs, Outs, IntentStatus
  <2> QED
    BY <1>10, <2>1, <2>2 DEF Guard
<1>11. ASSUME NEW w \in Workers, RejectIntent(w) PROVE TypeOK'
  BY <1>11, GotoTyped, SetIntentTyped DEF RejectIntent, At, Owning, PCs, Outs, IntentStatus, Verdicts
<1>12. ASSUME NEW w \in Workers, FindCommand(w) PROVE TypeOK'
  BY <1>12, GotoTyped DEF FindCommand, At, Owning, PCs, Outs
<1>13. ASSUME NEW w \in Workers, CreateCommand(w) PROVE TypeOK'
  BY <1>13, GotoTyped, SetCmdTyped DEF CreateCommand, At, Owning, PCs, Outs, CommandStatus
<1>14. ASSUME NEW w \in Workers, ValidateCommand(w) PROVE TypeOK'
  BY <1>14, GotoTyped, SetCmdTyped DEF ValidateCommand, At, Owning, PCs, Outs, CommandStatus
<1>15. ASSUME NEW w \in Workers, DispatchCommand(w) PROVE TypeOK'
  BY <1>15, GotoTyped, SetCmdTyped DEF DispatchCommand, At, Owning, PCs, Outs, CommandStatus
<1>16. ASSUME NEW w \in Workers, BridgeCall(w) PROVE TypeOK'
  <2>1. PICK r \in Replies : Goto(w, "reply", r)
    BY <1>16 DEF BridgeCall
  <2>2. h' \in [Workers -> HandlerState]
        /\ \A v \in Workers : h'[v].pc \in {"reject", "settle"} => h'[v].out \in Verdicts
    BY <2>1, GotoTyped DEF Owning, PCs, Outs
  <2>3. broker' \in [Intents -> BrokerRow]
    BY <1>16 DEF BridgeCall, At, BrokerRow
  <2> QED
    BY <1>16, <2>2, <2>3 DEF BridgeCall
<1>17. ASSUME NEW w \in Workers, RecordReply(w) PROVE TypeOK'
  BY <1>17, GotoTyped, SetCmdTyped DEF RecordReply, At, Owning, PCs, Outs, CommandStatus, RetryableCodes
<1>18. ASSUME NEW w \in Workers, DeferReconciliation(w) PROVE TypeOK'
  BY <1>18, GotoTyped DEF DeferReconciliation, At, Owning, PCs, Outs
<1>19. ASSUME NEW w \in Workers, ConcealReply(w) PROVE TypeOK'
  BY <1>19, GotoTyped, SetCmdTyped DEF ConcealReply, At, Owning, PCs, Outs, CommandStatus
<1>20. ASSUME NEW w \in Workers, LoadResult(w) PROVE TypeOK'
  BY <1>20, GotoTyped, StatusForTyped DEF LoadResult, Verdicts, At, Owning, PCs, Outs, IntentStatus
<1>21. ASSUME NEW w \in Workers, SettleIntent(w) PROVE TypeOK'
  BY <1>21, GotoTyped, SetIntentTyped DEF SettleIntent, At, Owning, PCs, Outs, IntentStatus, Verdicts
<1>22. ASSUME NEW w \in Workers, RequeueIntent(w) PROVE TypeOK'
  BY <1>22, GotoTyped, SetIntentTyped DEF RequeueIntent, At, Owning, PCs, Outs, IntentStatus
<1>23. ASSUME NEW w \in Workers, CatchError(w) PROVE TypeOK'
  BY <1>23, GotoTyped, SetIntentTyped DEF CatchError, At, Owning, PCs, Outs, IntentStatus
<1>24. ASSUME NEW w \in Workers, JobReturns(w) PROVE TypeOK'
  BY <1>24, SetJobTyped DEF JobReturns, Verdicts, At, Idle, PCs, HandlerState, JobRow, JobState, Outs
<1>25. ASSUME NEW w \in Workers, JobThrows(w) PROVE TypeOK'
  BY <1>25, SetJobTyped DEF JobThrows, Verdicts, At, Idle, PCs, HandlerState, JobRow, JobState, Outs
<1>26. ASSUME NEW w \in Workers, WorkerCrash(w) PROVE TypeOK'
  BY <1>26 DEF WorkerCrash, Verdicts, Idle, PCs, HandlerState, Outs
<1>27. ASSUME NEW w \in Workers, DbError(w) PROVE TypeOK'
  BY <1>27, GotoTyped DEF DbError, Owning, PCs, Outs
<1>28. ASSUME NEW w \in Workers, NEW i \in Intents, StartJob(w, i) PROVE TypeOK'
  BY <1>28, SetJobTyped DEF StartJob, PCs, HandlerState, JobRow, JobState, Outs
<1>29. ASSUME NEW b \in Bindings, UpdateBinding(b) PROVE TypeOK'
  BY <1>29 DEF UpdateBinding, BrokerRow
<1>30. CASE UNCHANGED vars
  BY <1>30 DEF vars
<1>31. QED
  BY <1>1, <1>2, <1>3, <1>4, <1>5, <1>6, <1>7, <1>8, <1>9, <1>10, <1>11, <1>12, <1>13, <1>14, <1>15, <1>16, <1>17, <1>18, <1>19, <1>20, <1>21, <1>22, <1>23, <1>24, <1>25, <1>26, <1>27, <1>28, <1>29, <1>30 DEF Next, Capture, Step

(* Every reachable state is well typed.                                    *)
THEOREM TypeCorrect == Spec => []TypeOK
BY TypeInit, TypeStep, PTL DEF Spec
-----------------------------------------------------------------------------
(* The claim is a lock.                                                    *)

ClaimParts == CapturePrivate /\ JobAbsentUnknown /\ ClaimExclusive

(* A handler that goes on with its claim disturbs nobody.                  *)
LEMMA MoveKeepsClaim ==
  ASSUME ClaimInv, NEW w \in Workers, NEW p \in PCs, NEW o,
         h[w].pc \in Owning \cup {"claim"}, p \in Owning => h[w].pc \in Owning,
         Goto(w, p, o), UNCHANGED <<cap, intent, job>>
  PROVE  ClaimParts'
<1>1. \A v \in Workers : h'[v].intent = h[v].intent /\ (h'[v].pc \in Owning => h[v].pc \in Owning)
  BY DEF Goto, ClaimInv, TypeOK, HandlerState
<1> QED
  BY <1>1 DEF ClaimInv, ClaimParts, CapturePrivate, JobAbsentUnknown, ClaimExclusive, Owns

(* A handler that writes the final status of this run gives up its claim.  *)
LEMMA ReleaseKeepsClaim ==
  ASSUME ClaimInv, NEW w \in Workers, NEW p \in {"return", "throw"}, NEW o, NEW s, NEW d \in BOOLEAN,
         h[w].pc \in Owning, h[w].intent \in Intents,
         Goto(w, p, o), SetIntent(w, s, d), UNCHANGED <<cap, job>>
  PROVE  ClaimParts'
<1>1. \A v \in Workers : h'[v].intent = h[v].intent
  BY DEF Goto, ClaimInv, TypeOK, HandlerState
<1>2. ASSUME NEW v \in Workers, NEW i \in Intents, Owns(v, i)'
      PROVE  Owns(v, i) /\ i # h[w].intent
  <2>1. v # w /\ Owns(v, i)
    BY <1>2 DEF Goto, Owns, Owning, ClaimInv, TypeOK
  <2> QED
    BY <2>1 DEF ClaimInv, ClaimExclusive, Owns
<1>3. \A i \in Intents : i # h[w].intent => intent'[i] = intent[i]
  BY DEF SetIntent, ClaimInv, TypeOK
<1>4. CapturePrivate' /\ JobAbsentUnknown'
  BY <1>1 DEF ClaimInv, CapturePrivate, JobAbsentUnknown
<1>5. ClaimExclusive'
  BY <1>2, <1>3 DEF ClaimInv, ClaimExclusive
<1> QED
  BY <1>4, <1>5 DEF ClaimParts

(* A handler that ends frees its slot; its job is not forgotten.           *)
LEMMA EndKeepsClaim ==
  ASSUME ClaimInv, NEW w \in Workers, h' = [h EXCEPT ![w] = Idle],
         \A i \in Intents : job'[i].state = "absent" => job[i].state = "absent",
         \A i \in Intents : job[i].state = "absent" => job'[i].state = "absent",
         UNCHANGED <<cap, intent>>
  PROVE  ClaimParts'
<1>1. \A v \in Workers : h'[v] = h[v] \/ h'[v] = Idle
  BY DEF ClaimInv, TypeOK
<1>2. \A i \in Intents, v \in Workers : h'[v].intent = i =>
        h[v].intent = i /\ (h'[v].pc \in Owning => h[v].pc \in Owning)
  BY <1>1, ConstantsAssumption DEF Idle
<1> QED
  BY <1>2 DEF ClaimInv, ClaimParts, CapturePrivate, JobAbsentUnknown, ClaimExclusive, Owns

(* Claiming takes a status no owner leaves behind.                         *)
LEMMA ClaimKeepsClaim == ASSUME ClaimInv, NEW w \in Workers, Claim(w) PROVE ClaimParts'
<1>1. CASE intent[h[w].intent].status \in {"QUEUED", "FAILED"}
  <2>1. Goto(w, "load", "none") /\ SetIntent(w, "PROCESSING", intent[h[w].intent].done)
        /\ h[w].intent \in Intents /\ UNCHANGED <<cap, job>>
    BY <1>1 DEF Claim, At
  <2>2. \A v \in Workers : h'[v].intent = h[v].intent /\ (v # w => h'[v] = h[v])
    BY <2>1 DEF Goto, ClaimInv, TypeOK, HandlerState
  <2>3. \A v \in Workers : ~Owns(v, h[w].intent)
    BY <1>1, <2>1 DEF ClaimInv, ClaimExclusive
  <2>4. intent'[h[w].intent].status = "PROCESSING"
        /\ \A i \in Intents : i # h[w].intent => intent'[i] = intent[i]
    BY <2>1 DEF SetIntent, ClaimInv, TypeOK
  <2>5. \A v \in Workers, i \in Intents : Owns(v, i)' =>
          (v = w /\ i = h[w].intent) \/ (v # w /\ i # h[w].intent /\ Owns(v, i))
    BY <2>1, <2>2, <2>3 DEF Owns
  <2>6. ClaimExclusive'
    BY <2>4, <2>5 DEF ClaimInv, ClaimExclusive
  <2>7. CapturePrivate' /\ JobAbsentUnknown'
    BY <2>1, <2>2 DEF ClaimInv, CapturePrivate, JobAbsentUnknown
  <2> QED
    BY <2>6, <2>7 DEF ClaimParts
<1>2. CASE intent[h[w].intent].status \notin {"QUEUED", "FAILED"}
  BY <1>2, MoveKeepsClaim DEF Claim, At, PCs, Owning
<1> QED
  BY <1>1, <1>2

(* Every step keeps the lock, provided a failed enqueue stored no job.     *)
LEMMA ClaimStep == ASSUME "enqueue" \notin Faults PROVE ClaimInv /\ [Next]_vars => ClaimInv'
<1> SUFFICES ASSUME ClaimInv, [Next]_vars PROVE ClaimParts'
  BY TypeStep DEF ClaimInv, ClaimParts
<1> USE ConstantsAssumption
<1>1. ASSUME NEW i \in Intents, SelectBinding(i) PROVE ClaimParts'
  BY <1>1 DEF SelectBinding, ClaimInv, TypeOK, ClaimParts, CapturePrivate, JobAbsentUnknown, ClaimExclusive, Owns
<1>2. ASSUME NEW i \in Intents, CreateIntent(i) PROVE ClaimParts'
  BY <1>2 DEF CreateIntent, ClaimInv, TypeOK, ClaimParts, CapturePrivate, JobAbsentUnknown, ClaimExclusive, Owns
<1>3. ASSUME NEW i \in Intents, Enqueue(i) PROVE ClaimParts'
  BY <1>3 DEF Enqueue, AddJob, SetJob, ClaimInv, TypeOK, ClaimParts, CapturePrivate, JobAbsentUnknown, ClaimExclusive, Owns
<1>4. ASSUME NEW i \in Intents, MarkEnqueueFailed(i) PROVE ClaimParts'
  BY <1>4 DEF MarkEnqueueFailed, ClaimInv, TypeOK, ClaimParts, CapturePrivate, JobAbsentUnknown, ClaimExclusive, Owns
<1>5. ASSUME NEW i \in Intents, CaptureAbort(i) PROVE ClaimParts'
  BY <1>5 DEF CaptureAbort, ClaimInv, TypeOK, ClaimParts, CapturePrivate, JobAbsentUnknown, ClaimExclusive, Owns
<1>6. ASSUME NEW i \in Intents, RecoverStalled(i) PROVE ClaimParts'
  BY <1>6 DEF RecoverStalled, SetJob, ClaimInv, TypeOK, ClaimParts, CapturePrivate, JobAbsentUnknown,
     ClaimExclusive, Owns
<1>7. ASSUME NEW i \in Intents, Expire(i) PROVE ClaimParts'
  BY <1>7 DEF Expire, ClaimInv, ClaimParts, CapturePrivate, JobAbsentUnknown, ClaimExclusive, Owns
<1>8. ASSUME NEW w \in Workers, Claim(w) PROVE ClaimParts'
  BY <1>8, ClaimKeepsClaim
<1>9. ASSUME NEW w \in Workers, Load(w) PROVE ClaimParts'
  BY <1>9, MoveKeepsClaim DEF Load, At, PCs, Owning
<1>10. ASSUME NEW w \in Workers, Guard(w) PROVE ClaimParts'
  BY <1>10, MoveKeepsClaim DEF Guard, At, PCs, Owning
<1>11. ASSUME NEW w \in Workers, FindCommand(w) PROVE ClaimParts'
  BY <1>11, MoveKeepsClaim DEF FindCommand, At, PCs, Owning
<1>12. ASSUME NEW w \in Workers, CreateCommand(w) PROVE ClaimParts'
  BY <1>12, MoveKeepsClaim DEF CreateCommand, At, PCs, Owning
<1>13. ASSUME NEW w \in Workers, ValidateCommand(w) PROVE ClaimParts'
  BY <1>13, MoveKeepsClaim DEF ValidateCommand, At, PCs, Owning
<1>14. ASSUME NEW w \in Workers, DispatchCommand(w) PROVE ClaimParts'
  BY <1>14, MoveKeepsClaim DEF DispatchCommand, At, PCs, Owning
<1>15. ASSUME NEW w \in Workers, BridgeCall(w) PROVE ClaimParts'
  BY <1>15, MoveKeepsClaim DEF BridgeCall, At, PCs, Owning
<1>16. ASSUME NEW w \in Workers, RecordReply(w) PROVE ClaimParts'
  BY <1>16, MoveKeepsClaim DEF RecordReply, At, PCs, Owning
<1>17. ASSUME NEW w \in Workers, DeferReconciliation(w) PROVE ClaimParts'
  BY <1>17, MoveKeepsClaim DEF DeferReconciliation, At, PCs, Owning
<1>18. ASSUME NEW w \in Workers, ConcealReply(w) PROVE ClaimParts'
  BY <1>18, MoveKeepsClaim DEF ConcealReply, At, PCs, Owning
<1>19. ASSUME NEW w \in Workers, LoadResult(w) PROVE ClaimParts'
  BY <1>19, MoveKeepsClaim DEF LoadResult, At, PCs, Owning
<1>20. ASSUME NEW w \in Workers, RejectIntent(w) PROVE ClaimParts'
  BY <1>20, ReleaseKeepsClaim DEF RejectIntent, At, Owning
<1>21. ASSUME NEW w \in Workers, SettleIntent(w) PROVE ClaimParts'
  BY <1>21, ReleaseKeepsClaim DEF SettleIntent, At, Owning
<1>22. ASSUME NEW w \in Workers, RequeueIntent(w) PROVE ClaimParts'
  BY <1>22, ReleaseKeepsClaim DEF RequeueIntent, At, Owning
<1>23. ASSUME NEW w \in Workers, CatchError(w) PROVE ClaimParts'
  BY <1>23, ReleaseKeepsClaim DEF CatchError, At, Owning
<1>24. ASSUME NEW w \in Workers, JobReturns(w) PROVE ClaimParts'
  <2>1. job[h[w].intent].state # "absent"
    BY <1>24 DEF JobReturns, At, ClaimInv, JobAbsentUnknown
  <2>2. \A i \in Intents : job'[i].state = "absent" <=> job[i].state = "absent"
    BY <1>24, <2>1 DEF JobReturns, At, SetJob, ClaimInv, TypeOK
  <2> QED
    BY <1>24, <2>2, EndKeepsClaim DEF JobReturns
<1>25. ASSUME NEW w \in Workers, JobThrows(w) PROVE ClaimParts'
  <2>1. job[h[w].intent].state # "absent"
    BY <1>25 DEF JobThrows, At, ClaimInv, JobAbsentUnknown
  <2>2. \A i \in Intents : job'[i].state = "absent" <=> job[i].state = "absent"
    BY <1>25, <2>1 DEF JobThrows, At, SetJob, ClaimInv, TypeOK
  <2> QED
    BY <1>25, <2>2, EndKeepsClaim DEF JobThrows
<1>26. ASSUME NEW w \in Workers, WorkerCrash(w) PROVE ClaimParts'
  BY <1>26, EndKeepsClaim DEF WorkerCrash
<1>27. ASSUME NEW w \in Workers, DbError(w) PROVE ClaimParts'
  BY <1>27, MoveKeepsClaim DEF DbError, PCs, Owning
<1>28. ASSUME NEW w \in Workers, NEW i \in Intents, StartJob(w, i) PROVE ClaimParts'
  <2>1. job[i].state = "waiting" /\ cap[i] = "end"
    BY <1>28 DEF StartJob, ClaimInv, CapturePrivate, TypeOK
  <2>2. h[w] = Idle
    BY <1>28 DEF StartJob
  <2>3. \A v \in Workers : v # w => h'[v] = h[v]
    BY <1>28 DEF StartJob, ClaimInv, TypeOK
  <2>4. h'[w].intent = i /\ h'[w].pc = "claim"
    BY <1>28 DEF StartJob, ClaimInv, TypeOK
  <2>5. \A k \in Intents : job'[k].state = "absent" <=> job[k].state = "absent"
    BY <1>28, <2>1 DEF StartJob, SetJob, ClaimInv, TypeOK
  <2>6. UNCHANGED <<cap, intent>>
    BY <1>28 DEF StartJob
  <2> QED
    BY <2>1, <2>2, <2>3, <2>4, <2>5, <2>6
       DEF ClaimInv, ClaimParts, CapturePrivate, JobAbsentUnknown, ClaimExclusive, Owns, Owning
<1>29. ASSUME NEW b \in Bindings, UpdateBinding(b) PROVE ClaimParts'
  BY <1>29 DEF UpdateBinding, ClaimInv, ClaimParts, CapturePrivate, JobAbsentUnknown, ClaimExclusive, Owns
<1>30. CASE UNCHANGED vars
  BY <1>30 DEF vars, ClaimInv, ClaimParts, CapturePrivate, JobAbsentUnknown, ClaimExclusive, Owns
<1>31. QED
  BY <1>1, <1>2, <1>3, <1>4, <1>5, <1>6, <1>7, <1>8, <1>9, <1>10, <1>11, <1>12, <1>13, <1>14, <1>15, <1>16, <1>17, <1>18, <1>19, <1>20, <1>21, <1>22, <1>23, <1>24, <1>25, <1>26, <1>27, <1>28, <1>29, <1>30 DEF Next, Capture, Step

LEMMA ClaimInit == Init => ClaimInv
BY TypeInit, ConstantsAssumption
   DEF Init, Idle, ClaimInv, CapturePrivate, JobAbsentUnknown, ClaimExclusive, Owns, Owning

(* The claim is a mutual exclusion lock, whatever else goes wrong.         *)
THEOREM ClaimIsExclusive == ASSUME "enqueue" \notin Faults PROVE Spec => []ClaimExclusive
<1>1. Init => ClaimInv
  BY ClaimInit
<1>2. ClaimInv /\ [Next]_vars => ClaimInv'
  BY ClaimStep
<1>3. ClaimInv => ClaimExclusive
  BY DEF ClaimInv
<1> QED
  BY <1>1, <1>2, <1>3, PTL DEF Spec
-----------------------------------------------------------------------------
(* One intent, one order.                                                  *)

OrderParts ==
  /\ ReportInv
  /\ \A i \in Intents : FreshCommand(i) => broker[i].reported = 0
  /\ \A i \in Intents, w \in Workers : h[w].intent = i => OwnerKnows(w, i)

DispatchPoints == {"execute", "dispatch", "bridge", "reply"}

(* A step that touches no command and places no order.                     *)
LEMMA QuietKeepsOrders ==
  ASSUME OrderInv, UNCHANGED cmd,
         \A i \in Intents : broker'[i].orders = broker[i].orders /\ broker'[i].reported = broker[i].reported,
         \A v \in Workers : h'[v] = h[v] \/ h'[v].pc \notin DispatchPoints
  PROVE  OrderParts'
BY DEF OrderInv, OrderParts, ReportInv, Reports, FreshCommand, Retryable, OwnerKnows, DispatchPoints

(* A step of the owner of intent i: only its own facts have to be shown.   *)
LEMMA OwnerKeepsOrders ==
  ASSUME OrderInv, NEW w \in Workers, NEW i \in Intents, h[w].intent = i, h[w].pc \in Owning,
         NEW p, NEW o, Goto(w, p, o),
         \A k \in Intents : k # i => cmd'[k] = cmd[k] /\ broker'[k] = broker[k],
         Reports(i)',
         FreshCommand(i)' => broker'[i].reported = 0,
         OwnerKnows(w, i)'
  PROVE  OrderParts'
<1>1. \A v \in Workers : v # w => h'[v] = h[v] /\ (h[v].intent = i => h[v].pc \notin Owning)
  BY DEF Goto, OrderInv, ClaimInv, TypeOK, ClaimExclusive, Owns
<1>2. h'[w].intent = i
  BY DEF Goto, OrderInv, ClaimInv, TypeOK, HandlerState
<1>3. ASSUME NEW k \in Intents, NEW v \in Workers, h'[v].intent = k PROVE OwnerKnows(v, k)'
  <2>1. CASE v = w
    BY <1>2, <1>3, <2>1
  <2>2. CASE v # w /\ k = i
    BY <1>1, <1>3, <2>2 DEF OwnerKnows, Owning
  <2>3. CASE v # w /\ k # i
    BY <1>1, <1>3, <2>3 DEF OwnerKnows, OrderInv, Retryable
  <2> QED
    BY <2>1, <2>2, <2>3
<1>4. ASSUME NEW k \in Intents, FreshCommand(k)' PROVE broker'[k].reported = 0
  BY <1>4 DEF OrderInv, FreshCommand, Retryable
<1>5. ReportInv'
  BY DEF OrderInv, ReportInv, Reports
<1> QED
  BY <1>3, <1>4, <1>5 DEF OrderParts

(* The steps that move the command row or the order behind it.             *)
CommandStep(w) ==
  \/ FindCommand(w) \/ CreateCommand(w) \/ ValidateCommand(w) \/ DispatchCommand(w)
  \/ BridgeCall(w) \/ RecordReply(w) \/ ConcealReply(w)

OwnedMove(w, i) ==
  /\ h[w].intent = i /\ h[w].pc \in Owning
  /\ \E p, o : Goto(w, p, o)
  /\ UNCHANGED intent
  /\ \A k \in Intents : k # i => cmd'[k] = cmd[k] /\ broker'[k] = broker[k]

(* They belong to the owner of one intent and leave the others alone.      *)
LEMMA CommandStepIsOwned ==
  ASSUME ClaimInv, NEW w \in Workers, CommandStep(w)
  PROVE  \E i \in Intents : OwnedMove(w, i)
<1>1. h[w].intent \in Intents /\ h[w].pc \in Owning /\ UNCHANGED intent
  BY DEF CommandStep, FindCommand, CreateCommand, ValidateCommand, DispatchCommand, BridgeCall,
     RecordReply, ConcealReply, At, Owning
<1>2. \E p, o : Goto(w, p, o)
  BY DEF CommandStep, FindCommand, CreateCommand, ValidateCommand, DispatchCommand, BridgeCall,
     RecordReply, ConcealReply
<1>3. \A k \in Intents : k # h[w].intent => cmd'[k] = cmd[k] /\ broker'[k] = broker[k]
  BY DEF CommandStep, FindCommand, CreateCommand, ValidateCommand, DispatchCommand, BridgeCall,
     RecordReply, ConcealReply, SetCmd, ClaimInv, TypeOK
<1> QED
  BY <1>1, <1>2, <1>3 DEF OwnedMove

(* Every step keeps OrderInv, lost answers or not.                         *)
LEMMA OrderStep ==
  ASSUME "enqueue" \notin Faults
  PROVE  OrderInv /\ [Next]_vars => OrderInv'
<1> SUFFICES ASSUME OrderInv, [Next]_vars PROVE OrderParts'
  BY ClaimStep DEF OrderInv, OrderParts
<1> USE ConstantsAssumption
<1>1. ASSUME NEW i \in Intents, SelectBinding(i) PROVE OrderParts'
  BY <1>1, QuietKeepsOrders DEF SelectBinding
<1>2. ASSUME NEW i \in Intents, CreateIntent(i) PROVE OrderParts'
  BY <1>2, QuietKeepsOrders DEF CreateIntent
<1>3. ASSUME NEW i \in Intents, Enqueue(i) PROVE OrderParts'
  BY <1>3, QuietKeepsOrders DEF Enqueue
<1>4. ASSUME NEW i \in Intents, MarkEnqueueFailed(i) PROVE OrderParts'
  BY <1>4, QuietKeepsOrders DEF MarkEnqueueFailed
<1>5. ASSUME NEW i \in Intents, CaptureAbort(i) PROVE OrderParts'
  BY <1>5, QuietKeepsOrders DEF CaptureAbort
<1>6. ASSUME NEW i \in Intents, RecoverStalled(i) PROVE OrderParts'
  BY <1>6, QuietKeepsOrders DEF RecoverStalled
<1>7. ASSUME NEW i \in Intents, Expire(i) PROVE OrderParts'
  BY <1>7, QuietKeepsOrders DEF Expire
<1>8. ASSUME NEW w \in Workers, Claim(w) PROVE OrderParts'
  BY <1>8, QuietKeepsOrders DEF Claim, At, Goto, DispatchPoints, OrderInv, ClaimInv, TypeOK
<1>9. ASSUME NEW w \in Workers, Load(w) PROVE OrderParts'
  BY <1>9, QuietKeepsOrders DEF Load, At, Goto, DispatchPoints, OrderInv, ClaimInv, TypeOK
<1>10. ASSUME NEW w \in Workers, Guard(w) PROVE OrderParts'
  BY <1>10, QuietKeepsOrders DEF Guard, At, Goto, DispatchPoints, OrderInv, ClaimInv, TypeOK
<1>11. ASSUME NEW w \in Workers, RejectIntent(w) PROVE OrderParts'
  BY <1>11, QuietKeepsOrders DEF RejectIntent, At, Goto, DispatchPoints, OrderInv, ClaimInv, TypeOK
<1>12. ASSUME NEW w \in Workers, DeferReconciliation(w) PROVE OrderParts'
  BY <1>12, QuietKeepsOrders DEF DeferReconciliation, At, Goto, DispatchPoints, OrderInv, ClaimInv, TypeOK
<1>13. ASSUME NEW w \in Workers, LoadResult(w) PROVE OrderParts'
  BY <1>13, QuietKeepsOrders DEF LoadResult, At, Goto, DispatchPoints, OrderInv, ClaimInv, TypeOK
<1>14. ASSUME NEW w \in Workers, SettleIntent(w) PROVE OrderParts'
  BY <1>14, QuietKeepsOrders DEF SettleIntent, At, Goto, DispatchPoints, OrderInv, ClaimInv, TypeOK
<1>15. ASSUME NEW w \in Workers, RequeueIntent(w) PROVE OrderParts'
  BY <1>15, QuietKeepsOrders DEF RequeueIntent, At, Goto, DispatchPoints, OrderInv, ClaimInv, TypeOK
<1>16. ASSUME NEW w \in Workers, CatchError(w) PROVE OrderParts'
  <2>1. UNCHANGED <<cmd, broker>> /\ (Goto(w, "throw", "none") \/ Goto(w, "return", "none"))
    BY <1>16, Zenon DEF CatchError
  <2>2. \A v \in Workers : h'[v] = h[v] \/ h'[v].pc \notin DispatchPoints
    BY <2>1 DEF Goto, DispatchPoints, OrderInv, ClaimInv, TypeOK
  <2> QED
    BY <2>1, <2>2, QuietKeepsOrders
<1>17. ASSUME NEW w \in Workers, JobReturns(w) PROVE OrderParts'
  BY <1>17, QuietKeepsOrders DEF JobReturns, Idle, DispatchPoints, OrderInv, ClaimInv, TypeOK
<1>18. ASSUME NEW w \in Workers, JobThrows(w) PROVE OrderParts'
  BY <1>18, QuietKeepsOrders DEF JobThrows, Idle, DispatchPoints, OrderInv, ClaimInv, TypeOK
<1>19. ASSUME NEW w \in Workers, WorkerCrash(w) PROVE OrderParts'
  BY <1>19, QuietKeepsOrders DEF WorkerCrash, Idle, DispatchPoints, OrderInv, ClaimInv, TypeOK
<1>20. ASSUME NEW w \in Workers, DbError(w) PROVE OrderParts'
  BY <1>20, QuietKeepsOrders DEF DbError, Goto, DispatchPoints, OrderInv, ClaimInv, TypeOK
<1>21. ASSUME NEW w \in Workers, FindCommand(w) PROVE OrderParts'
  <2>1. PICK i \in Intents : OwnedMove(w, i)
    BY <1>21, CommandStepIsOwned DEF CommandStep, OrderInv
  <2>2. OwnerKnows(w, i) /\ h[w] \in HandlerState /\ broker[i] \in BrokerRow
        /\ Reports(i) /\ (FreshCommand(i) => broker[i].reported = 0)
    BY <2>1 DEF OwnedMove, OrderInv, ReportInv, ClaimInv, TypeOK
  <2>3. Reports(i)' /\ (FreshCommand(i)' => broker'[i].reported = 0) /\ OwnerKnows(w, i)'
    BY <1>21, <2>1, <2>2 DEF OwnedMove, FindCommand, At, Goto, SetCmd, OwnerKnows, FreshCommand, Retryable, Reports,
       RetryableCodes, OrderInv, ClaimInv, TypeOK, Replies, BrokerRow
  <2> QED
    BY <2>1, <2>3, OwnerKeepsOrders DEF OwnedMove
<1>22. ASSUME NEW w \in Workers, CreateCommand(w) PROVE OrderParts'
  <2>1. PICK i \in Intents : OwnedMove(w, i)
    BY <1>22, CommandStepIsOwned DEF CommandStep, OrderInv
  <2>2. OwnerKnows(w, i) /\ h[w] \in HandlerState /\ broker[i] \in BrokerRow
        /\ Reports(i) /\ (FreshCommand(i) => broker[i].reported = 0)
    BY <2>1 DEF OwnedMove, OrderInv, ReportInv, ClaimInv, TypeOK
  <2>3. Reports(i)' /\ (FreshCommand(i)' => broker'[i].reported = 0) /\ OwnerKnows(w, i)'
    BY <1>22, <2>1, <2>2 DEF OwnedMove, CreateCommand, At, Goto, SetCmd, OwnerKnows, FreshCommand, Retryable, Reports,
       RetryableCodes, OrderInv, ClaimInv, TypeOK, Replies, BrokerRow
  <2> QED
    BY <2>1, <2>3, OwnerKeepsOrders DEF OwnedMove
<1>23. ASSUME NEW w \in Workers, ValidateCommand(w) PROVE OrderParts'
  <2>1. PICK i \in Intents : OwnedMove(w, i)
    BY <1>23, CommandStepIsOwned DEF CommandStep, OrderInv
  <2>2. OwnerKnows(w, i) /\ h[w] \in HandlerState /\ broker[i] \in BrokerRow
        /\ Reports(i) /\ (FreshCommand(i) => broker[i].reported = 0)
    BY <2>1 DEF OwnedMove, OrderInv, ReportInv, ClaimInv, TypeOK
  <2>3. Reports(i)' /\ (FreshCommand(i)' => broker'[i].reported = 0) /\ OwnerKnows(w, i)'
    BY <1>23, <2>1, <2>2 DEF OwnedMove, ValidateCommand, At, Goto, SetCmd, OwnerKnows, FreshCommand, Retryable, Reports,
       RetryableCodes, OrderInv, ClaimInv, TypeOK, Replies, BrokerRow
  <2> QED
    BY <2>1, <2>3, OwnerKeepsOrders DEF OwnedMove
<1>24. ASSUME NEW w \in Workers, DispatchCommand(w) PROVE OrderParts'
  <2>1. PICK i \in Intents : OwnedMove(w, i)
    BY <1>24, CommandStepIsOwned DEF CommandStep, OrderInv
  <2>2. OwnerKnows(w, i) /\ h[w] \in HandlerState /\ broker[i] \in BrokerRow
        /\ Reports(i) /\ (FreshCommand(i) => broker[i].reported = 0)
    BY <2>1 DEF OwnedMove, OrderInv, ReportInv, ClaimInv, TypeOK
  <2>3. Reports(i)' /\ (FreshCommand(i)' => broker'[i].reported = 0) /\ OwnerKnows(w, i)'
    BY <1>24, <2>1, <2>2 DEF OwnedMove, DispatchCommand, At, Goto, SetCmd, OwnerKnows, FreshCommand, Retryable, Reports,
       RetryableCodes, OrderInv, ClaimInv, TypeOK, Replies, BrokerRow
  <2> QED
    BY <2>1, <2>3, OwnerKeepsOrders DEF OwnedMove
<1>25. ASSUME NEW w \in Workers, BridgeCall(w) PROVE OrderParts'
  <2>1. PICK i \in Intents : OwnedMove(w, i)
    BY <1>25, CommandStepIsOwned DEF CommandStep, OrderInv
  <2>2. OwnerKnows(w, i) /\ h[w] \in HandlerState /\ broker[i] \in BrokerRow
        /\ Reports(i) /\ (FreshCommand(i) => broker[i].reported = 0)
    BY <2>1 DEF OwnedMove, OrderInv, ReportInv, ClaimInv, TypeOK
  <2>3. Reports(i)' /\ (FreshCommand(i)' => broker'[i].reported = 0) /\ OwnerKnows(w, i)'
    BY <1>25, <2>1, <2>2 DEF OwnedMove, BridgeCall, At, Goto, SetCmd, OwnerKnows, FreshCommand, Retryable, Reports,
       RetryableCodes, OrderInv, ClaimInv, TypeOK, Replies, BrokerRow
  <2> QED
    BY <2>1, <2>3, OwnerKeepsOrders DEF OwnedMove
<1>26. ASSUME NEW w \in Workers, RecordReply(w) PROVE OrderParts'
  <2>1. PICK i \in Intents : OwnedMove(w, i)
    BY <1>26, CommandStepIsOwned DEF CommandStep, OrderInv
  <2>2. OwnerKnows(w, i) /\ h[w] \in HandlerState /\ broker[i] \in BrokerRow
        /\ Reports(i) /\ (FreshCommand(i) => broker[i].reported = 0)
    BY <2>1 DEF OwnedMove, OrderInv, ReportInv, ClaimInv, TypeOK
  <2>3. Reports(i)' /\ (FreshCommand(i)' => broker'[i].reported = 0) /\ OwnerKnows(w, i)'
    BY <1>26, <2>1, <2>2 DEF OwnedMove, RecordReply, At, Goto, SetCmd, OwnerKnows, FreshCommand, Retryable, Reports,
       RetryableCodes, OrderInv, ClaimInv, TypeOK, Replies, BrokerRow
  <2> QED
    BY <2>1, <2>3, OwnerKeepsOrders DEF OwnedMove
<1>27. ASSUME NEW w \in Workers, ConcealReply(w) PROVE OrderParts'
  <2>1. PICK i \in Intents : OwnedMove(w, i)
    BY <1>27, CommandStepIsOwned DEF CommandStep, OrderInv
  <2>2. OwnerKnows(w, i) /\ h[w] \in HandlerState /\ broker[i] \in BrokerRow
        /\ Reports(i) /\ (FreshCommand(i) => broker[i].reported = 0)
    BY <2>1 DEF OwnedMove, OrderInv, ReportInv, ClaimInv, TypeOK
  <2>3. Reports(i)' /\ (FreshCommand(i)' => broker'[i].reported = 0) /\ OwnerKnows(w, i)'
    BY <1>27, <2>1, <2>2 DEF OwnedMove, ConcealReply, At, Goto, SetCmd, OwnerKnows, FreshCommand, Retryable, Reports,
       RetryableCodes, OrderInv, ClaimInv, TypeOK, Replies, BrokerRow
  <2> QED
    BY <2>1, <2>3, OwnerKeepsOrders DEF OwnedMove
<1>28. ASSUME NEW w \in Workers, NEW i \in Intents, StartJob(w, i) PROVE OrderParts'
  BY <1>28, QuietKeepsOrders DEF StartJob, DispatchPoints, OrderInv, ClaimInv, TypeOK
<1>29. ASSUME NEW b \in Bindings, UpdateBinding(b) PROVE OrderParts'
  BY <1>29, QuietKeepsOrders DEF UpdateBinding
<1>30. CASE UNCHANGED vars
  BY <1>30, QuietKeepsOrders DEF vars
<1>31. QED
  BY <1>1, <1>2, <1>3, <1>4, <1>5, <1>6, <1>7, <1>8, <1>9, <1>10, <1>11, <1>12, <1>13, <1>14, <1>15, <1>16, <1>17, <1>18, <1>19, <1>20, <1>21, <1>22, <1>23, <1>24, <1>25, <1>26, <1>27, <1>28, <1>29, <1>30 DEF Next, Capture, Step

LEMMA OrderInit == Init => OrderInv
BY ClaimInit DEF Init, Idle, OrderInv, ReportInv, Reports, FreshCommand, OwnerKnows

(* However often jobs are retried, stalled, crashed or cut short by        *)
(* database errors, no intent ever has two orders at the broker.           *)
THEOREM OneOrderPerIntent ==
  ASSUME "enqueue" \notin Faults, "ambiguous" \notin Faults
  PROVE  Spec => []AtMostOneOrder
<1>1. Init => OrderInv
  BY OrderInit
<1>2. OrderInv /\ [Next]_vars => OrderInv'
  BY OrderStep
<1>3. OrderInv => AtMostOneOrder
  BY DEF OrderInv, ReportInv, Reports, AtMostOneOrder
<1> QED
  BY <1>1, <1>2, <1>3, PTL DEF Spec

(* Only the bridge call places an order, and its owner knows that none was *)
(* reported before.                                                        *)
LEMMA ReportedStep ==
  ASSUME OrderInv, [Next]_vars, NEW i \in Intents, broker[i].reported > 0
  PROVE  broker'[i].orders = broker[i].orders
<1>1. CASE UNCHANGED broker
  BY <1>1
<1>2. ASSUME NEW w \in Workers, BridgeCall(w) PROVE broker'[i].orders = broker[i].orders
  <2>1. PICK k \in Intents : OwnedMove(w, k)
    BY <1>2, CommandStepIsOwned DEF CommandStep, OrderInv
  <2>2. broker[k].reported = 0
    BY <1>2, <2>1 DEF OwnedMove, BridgeCall, At, OrderInv, OwnerKnows
  <2> QED
    BY <2>1, <2>2 DEF OwnedMove
<1>3. ASSUME NEW b \in Bindings, UpdateBinding(b) PROVE broker'[i].orders = broker[i].orders
  BY <1>3 DEF UpdateBinding
<1> QED
  BY <1>1, <1>2, <1>3 DEF Next, vars, Capture, Step, SelectBinding, CreateIntent, Enqueue, MarkEnqueueFailed,
     CaptureAbort, RecoverStalled, Expire, Claim, Load, Guard, RejectIntent, FindCommand, CreateCommand,
     ValidateCommand, DispatchCommand, RecordReply, DeferReconciliation, ConcealReply, LoadResult,
     SettleIntent, RequeueIntent, CatchError, JobReturns, JobThrows, WorkerCrash, DbError, StartJob

(* Under lost answers too, nothing is sent after an order the bridge has   *)
(* reported.                                                               *)
THEOREM ReportedOrderIsLast == ASSUME "enqueue" \notin Faults PROVE Spec => ReportedIsLast
<1>1. Init => OrderInv
  BY OrderInit
<1>2. OrderInv /\ [Next]_vars => OrderInv'
  BY OrderStep
<1>3. OrderInv /\ [Next]_vars =>
        [\A i \in Intents : broker[i].reported > 0 => broker'[i].orders = broker[i].orders]_vars
  BY ReportedStep
<1> QED
  BY <1>1, <1>2, <1>3, PTL DEF Spec, ReportedIsLast
-----------------------------------------------------------------------------
(* What a verdict stands for.                                              *)

VerdictParts ==
  /\ \A i \in Intents : cmd[i].status = "COMPLETED" => broker[i].orders >= 1
  /\ \A i \in Intents : intent[i].status = "EXECUTED" => cmd[i].status = "COMPLETED"
  /\ \A i \in Intents, w \in Workers : h[w].intent = i => Witnessed(w, i)

(* A step that touches no command and reports nothing new.                 *)
LEMMA QuietKeepsVerdicts ==
  ASSUME VerdictInv, UNCHANGED cmd,
         \A i \in Intents : broker'[i].orders = broker[i].orders,
         \A i \in Intents : intent'[i].status = "EXECUTED" => intent[i].status = "EXECUTED",
         \A v \in Workers : h'[v] = h[v] \/ h'[v].pc \notin {"reply", "reject", "settle"}
  PROVE  VerdictParts'
BY DEF VerdictInv, VerdictParts, Witnessed

(* A step of the owner of intent i: only its own facts have to be shown.   *)
LEMMA OwnerKeepsVerdicts ==
  ASSUME VerdictInv, NEW w \in Workers, NEW i \in Intents, h[w].intent = i, h[w].pc \in Owning,
         NEW p, NEW o, Goto(w, p, o),
         \A k \in Intents : k # i => cmd'[k] = cmd[k] /\ broker'[k] = broker[k] /\ intent'[k] = intent[k],
         cmd'[i].status = "COMPLETED" => broker'[i].orders >= 1,
         intent'[i].status = "EXECUTED" => cmd'[i].status = "COMPLETED",
         Witnessed(w, i)'
  PROVE  VerdictParts'
<1>1. \A v \in Workers : v # w => h'[v] = h[v] /\ (h[v].intent = i => h[v].pc \notin Owning)
  BY DEF Goto, VerdictInv, ClaimInv, TypeOK, ClaimExclusive, Owns
<1>2. h'[w].intent = i
  BY DEF Goto, VerdictInv, ClaimInv, TypeOK, HandlerState
<1>3. ASSUME NEW k \in Intents, NEW v \in Workers, h'[v].intent = k PROVE Witnessed(v, k)'
  <2>1. CASE v = w
    BY <1>2, <1>3, <2>1
  <2>2. CASE v # w /\ k = i
    BY <1>1, <1>3, <2>2 DEF Witnessed, Owning
  <2>3. CASE v # w /\ k # i
    BY <1>1, <1>3, <2>3 DEF Witnessed, VerdictInv
  <2> QED
    BY <2>1, <2>2, <2>3
<1> QED
  BY <1>3 DEF VerdictInv, VerdictParts

(* Every step keeps VerdictInv.                                            *)
LEMMA VerdictStep == ASSUME "enqueue" \notin Faults PROVE VerdictInv /\ [Next]_vars => VerdictInv'
<1> SUFFICES ASSUME VerdictInv, [Next]_vars PROVE VerdictParts'
  BY ClaimStep DEF VerdictInv, VerdictParts
<1> USE ConstantsAssumption
<1>1. ASSUME NEW i \in Intents, SelectBinding(i) PROVE VerdictParts'
  BY <1>1, QuietKeepsVerdicts DEF SelectBinding, VerdictInv, ClaimInv, TypeOK
<1>2. ASSUME NEW i \in Intents, CreateIntent(i) PROVE VerdictParts'
  BY <1>2, QuietKeepsVerdicts DEF CreateIntent, VerdictInv, ClaimInv, TypeOK
<1>3. ASSUME NEW i \in Intents, Enqueue(i) PROVE VerdictParts'
  BY <1>3, QuietKeepsVerdicts DEF Enqueue, VerdictInv, ClaimInv, TypeOK
<1>4. ASSUME NEW i \in Intents, MarkEnqueueFailed(i) PROVE VerdictParts'
  BY <1>4, QuietKeepsVerdicts DEF MarkEnqueueFailed, VerdictInv, ClaimInv, TypeOK
<1>5. ASSUME NEW i \in Intents, CaptureAbort(i) PROVE VerdictParts'
  BY <1>5, QuietKeepsVerdicts DEF CaptureAbort, VerdictInv, ClaimInv, TypeOK
<1>6. ASSUME NEW i \in Intents, RecoverStalled(i) PROVE VerdictParts'
  BY <1>6, QuietKeepsVerdicts DEF RecoverStalled, VerdictInv, ClaimInv, TypeOK
<1>7. ASSUME NEW i \in Intents, Expire(i) PROVE VerdictParts'
  BY <1>7, QuietKeepsVerdicts DEF Expire, VerdictInv, ClaimInv, TypeOK
<1>8. ASSUME NEW w \in Workers, Claim(w) PROVE VerdictParts'
  BY <1>8, QuietKeepsVerdicts DEF Claim, At, SetIntent, Goto, VerdictInv, ClaimInv, TypeOK
<1>9. ASSUME NEW w \in Workers, Guard(w) PROVE VerdictParts'
  <2>1. PICK i \in Intents : h[w].intent = i
    BY <1>9 DEF Guard, At
  <2>2. h[w].pc \in Owning /\ UNCHANGED <<cmd, broker, intent>>
    BY <1>9 DEF Guard, At, Owning
  <2>3. PICK p, o : Goto(w, p, o) /\ p # "reply" /\ o # "EXECUTED"
    BY <1>9 DEF Guard
  <2>4. Witnessed(w, i)'
    BY <2>3 DEF Goto, Witnessed, VerdictInv, ClaimInv, TypeOK
  <2> QED
    BY <2>1, <2>2, <2>3, <2>4, OwnerKeepsVerdicts DEF VerdictInv
<1>10. ASSUME NEW w \in Workers, DeferReconciliation(w) PROVE VerdictParts'
  BY <1>10, QuietKeepsVerdicts DEF DeferReconciliation, At, Goto, VerdictInv, ClaimInv, TypeOK
<1>11. ASSUME NEW w \in Workers, RequeueIntent(w) PROVE VerdictParts'
  BY <1>11, QuietKeepsVerdicts DEF RequeueIntent, At, SetIntent, Goto, VerdictInv, ClaimInv, TypeOK
<1>12. ASSUME NEW w \in Workers, CatchError(w) PROVE VerdictParts'
  <2>1. UNCHANGED <<cmd, broker>> /\ (Goto(w, "throw", "none") \/ Goto(w, "return", "none"))
    BY <1>12, Zenon DEF CatchError
  <2>2. \A v \in Workers : h'[v] = h[v] \/ h'[v].pc \notin {"reply", "reject", "settle"}
    BY <2>1 DEF Goto, VerdictInv, ClaimInv, TypeOK
  <2>3. SetIntent(w, "FAILED", TRUE) \/ SetIntent(w, "FAILED", FALSE)
    BY <1>12, Zenon DEF CatchError
  <2>4. \A i \in Intents : intent'[i].status = "EXECUTED" => intent[i].status = "EXECUTED"
    BY <2>3 DEF SetIntent, VerdictInv, ClaimInv, TypeOK
  <2> QED
    BY <2>1, <2>2, <2>4, QuietKeepsVerdicts
<1>13. ASSUME NEW w \in Workers, JobReturns(w) PROVE VerdictParts'
  BY <1>13, QuietKeepsVerdicts DEF JobReturns, Idle, VerdictInv, ClaimInv, TypeOK
<1>14. ASSUME NEW w \in Workers, JobThrows(w) PROVE VerdictParts'
  BY <1>14, QuietKeepsVerdicts DEF JobThrows, Idle, VerdictInv, ClaimInv, TypeOK
<1>15. ASSUME NEW w \in Workers, WorkerCrash(w) PROVE VerdictParts'
  BY <1>15, QuietKeepsVerdicts DEF WorkerCrash, Idle, VerdictInv, ClaimInv, TypeOK
<1>16. ASSUME NEW w \in Workers, DbError(w) PROVE VerdictParts'
  BY <1>16, QuietKeepsVerdicts DEF DbError, At, Goto, VerdictInv, ClaimInv, TypeOK
<1>17. ASSUME NEW w \in Workers, Load(w) PROVE VerdictParts'
  <2>1. PICK i \in Intents : h[w].intent = i
    BY <1>17 DEF Load, At
  <2>2. h[w].pc \in Owning /\ UNCHANGED <<cmd, broker, intent>>
    BY <1>17 DEF Load, At, Owning
  <2>3. PICK p, o : Goto(w, p, o) /\ p # "reply" /\ (o = "EXECUTED" => cmd[i].status = "COMPLETED")
    BY <1>17, <2>1 DEF Load, StatusFor
  <2>4. Witnessed(w, i)'
    BY <2>2, <2>3 DEF Goto, Witnessed, VerdictInv, ClaimInv, TypeOK
  <2> QED
    BY <2>1, <2>2, <2>3, <2>4, OwnerKeepsVerdicts DEF VerdictInv
<1>18. ASSUME NEW w \in Workers, LoadResult(w) PROVE VerdictParts'
  <2>1. PICK i \in Intents : h[w].intent = i
    BY <1>18 DEF LoadResult, At
  <2>2. h[w].pc \in Owning /\ UNCHANGED <<cmd, broker, intent>>
    BY <1>18 DEF LoadResult, At, Owning
  <2>3. PICK p, o : Goto(w, p, o) /\ p # "reply" /\ (o = "EXECUTED" => cmd[i].status = "COMPLETED")
    BY <1>18, <2>1 DEF LoadResult, StatusFor
  <2>4. Witnessed(w, i)'
    BY <2>2, <2>3 DEF Goto, Witnessed, VerdictInv, ClaimInv, TypeOK
  <2> QED
    BY <2>1, <2>2, <2>3, <2>4, OwnerKeepsVerdicts DEF VerdictInv
<1>19. ASSUME NEW w \in Workers, RejectIntent(w) PROVE VerdictParts'
  <2>1. PICK i \in Intents : h[w].intent = i
    BY <1>19 DEF RejectIntent, At
  <2>2. h[w].pc \in Owning /\ UNCHANGED <<cmd, broker>> /\ Goto(w, "return", "none")
    BY <1>19 DEF RejectIntent, At, Owning
  <2>3. h[w].out = "EXECUTED" => cmd[i].status = "COMPLETED"
    BY <1>19, <2>1 DEF RejectIntent, At, VerdictInv, Witnessed
  <2>4. intent'[i].status = h[w].out /\ \A k \in Intents : k # i => intent'[k] = intent[k]
    BY <1>19, <2>1 DEF RejectIntent, SetIntent, VerdictInv, ClaimInv, TypeOK
  <2>5. Witnessed(w, i)'
    BY <2>2 DEF Goto, Witnessed, VerdictInv, ClaimInv, TypeOK
  <2> QED
    BY <2>1, <2>2, <2>3, <2>4, <2>5, OwnerKeepsVerdicts DEF VerdictInv
<1>20. ASSUME NEW w \in Workers, SettleIntent(w) PROVE VerdictParts'
  <2>1. PICK i \in Intents : h[w].intent = i
    BY <1>20 DEF SettleIntent, At
  <2>2. h[w].pc \in Owning /\ UNCHANGED <<cmd, broker>> /\ Goto(w, "return", "none")
    BY <1>20 DEF SettleIntent, At, Owning
  <2>3. h[w].out = "EXECUTED" => cmd[i].status = "COMPLETED"
    BY <1>20, <2>1 DEF SettleIntent, At, VerdictInv, Witnessed
  <2>4. intent'[i].status = h[w].out /\ \A k \in Intents : k # i => intent'[k] = intent[k]
    BY <1>20, <2>1 DEF SettleIntent, SetIntent, VerdictInv, ClaimInv, TypeOK
  <2>5. Witnessed(w, i)'
    BY <2>2 DEF Goto, Witnessed, VerdictInv, ClaimInv, TypeOK
  <2> QED
    BY <2>1, <2>2, <2>3, <2>4, <2>5, OwnerKeepsVerdicts DEF VerdictInv
<1>21. ASSUME NEW w \in Workers, FindCommand(w) PROVE VerdictParts'
  <2>1. PICK i \in Intents : OwnedMove(w, i)
    BY <1>21, CommandStepIsOwned DEF CommandStep, VerdictInv
  <2>2. intent[i].status = "PROCESSING" /\ Witnessed(w, i) /\ h[w] \in HandlerState
        /\ broker[i] \in BrokerRow /\ (cmd[i].status = "COMPLETED" => broker[i].orders >= 1)
    BY <2>1 DEF OwnedMove, VerdictInv, ClaimInv, ClaimExclusive, Owns, TypeOK
  <2>3. (cmd'[i].status = "COMPLETED" => broker'[i].orders >= 1) /\ Witnessed(w, i)'
    BY <1>21, <2>1, <2>2 DEF OwnedMove, FindCommand, At, Goto, SetCmd, Witnessed, VerdictInv, ClaimInv, TypeOK, BrokerRow
  <2> QED
    BY <2>1, <2>2, <2>3, OwnerKeepsVerdicts DEF OwnedMove
<1>22. ASSUME NEW w \in Workers, CreateCommand(w) PROVE VerdictParts'
  <2>1. PICK i \in Intents : OwnedMove(w, i)
    BY <1>22, CommandStepIsOwned DEF CommandStep, VerdictInv
  <2>2. intent[i].status = "PROCESSING" /\ Witnessed(w, i) /\ h[w] \in HandlerState
        /\ broker[i] \in BrokerRow /\ (cmd[i].status = "COMPLETED" => broker[i].orders >= 1)
    BY <2>1 DEF OwnedMove, VerdictInv, ClaimInv, ClaimExclusive, Owns, TypeOK
  <2>3. (cmd'[i].status = "COMPLETED" => broker'[i].orders >= 1) /\ Witnessed(w, i)'
    BY <1>22, <2>1, <2>2 DEF OwnedMove, CreateCommand, At, Goto, SetCmd, Witnessed, VerdictInv, ClaimInv, TypeOK, BrokerRow
  <2> QED
    BY <2>1, <2>2, <2>3, OwnerKeepsVerdicts DEF OwnedMove
<1>23. ASSUME NEW w \in Workers, ValidateCommand(w) PROVE VerdictParts'
  <2>1. PICK i \in Intents : OwnedMove(w, i)
    BY <1>23, CommandStepIsOwned DEF CommandStep, VerdictInv
  <2>2. intent[i].status = "PROCESSING" /\ Witnessed(w, i) /\ h[w] \in HandlerState
        /\ broker[i] \in BrokerRow /\ (cmd[i].status = "COMPLETED" => broker[i].orders >= 1)
    BY <2>1 DEF OwnedMove, VerdictInv, ClaimInv, ClaimExclusive, Owns, TypeOK
  <2>3. (cmd'[i].status = "COMPLETED" => broker'[i].orders >= 1) /\ Witnessed(w, i)'
    BY <1>23, <2>1, <2>2 DEF OwnedMove, ValidateCommand, At, Goto, SetCmd, Witnessed, VerdictInv, ClaimInv, TypeOK, BrokerRow
  <2> QED
    BY <2>1, <2>2, <2>3, OwnerKeepsVerdicts DEF OwnedMove
<1>24. ASSUME NEW w \in Workers, DispatchCommand(w) PROVE VerdictParts'
  <2>1. PICK i \in Intents : OwnedMove(w, i)
    BY <1>24, CommandStepIsOwned DEF CommandStep, VerdictInv
  <2>2. intent[i].status = "PROCESSING" /\ Witnessed(w, i) /\ h[w] \in HandlerState
        /\ broker[i] \in BrokerRow /\ (cmd[i].status = "COMPLETED" => broker[i].orders >= 1)
    BY <2>1 DEF OwnedMove, VerdictInv, ClaimInv, ClaimExclusive, Owns, TypeOK
  <2>3. (cmd'[i].status = "COMPLETED" => broker'[i].orders >= 1) /\ Witnessed(w, i)'
    BY <1>24, <2>1, <2>2 DEF OwnedMove, DispatchCommand, At, Goto, SetCmd, Witnessed, VerdictInv, ClaimInv, TypeOK, BrokerRow
  <2> QED
    BY <2>1, <2>2, <2>3, OwnerKeepsVerdicts DEF OwnedMove
<1>25. ASSUME NEW w \in Workers, BridgeCall(w) PROVE VerdictParts'
  <2>1. PICK i \in Intents : OwnedMove(w, i)
    BY <1>25, CommandStepIsOwned DEF CommandStep, VerdictInv
  <2>2. intent[i].status = "PROCESSING" /\ Witnessed(w, i) /\ h[w] \in HandlerState
        /\ broker[i] \in BrokerRow /\ (cmd[i].status = "COMPLETED" => broker[i].orders >= 1)
    BY <2>1 DEF OwnedMove, VerdictInv, ClaimInv, ClaimExclusive, Owns, TypeOK
  <2>3. (cmd'[i].status = "COMPLETED" => broker'[i].orders >= 1) /\ Witnessed(w, i)'
    BY <1>25, <2>1, <2>2 DEF OwnedMove, BridgeCall, At, Goto, SetCmd, Witnessed, VerdictInv, ClaimInv, TypeOK, BrokerRow
  <2> QED
    BY <2>1, <2>2, <2>3, OwnerKeepsVerdicts DEF OwnedMove
<1>26. ASSUME NEW w \in Workers, RecordReply(w) PROVE VerdictParts'
  <2>1. PICK i \in Intents : OwnedMove(w, i)
    BY <1>26, CommandStepIsOwned DEF CommandStep, VerdictInv
  <2>2. intent[i].status = "PROCESSING" /\ Witnessed(w, i) /\ h[w] \in HandlerState
        /\ broker[i] \in BrokerRow /\ (cmd[i].status = "COMPLETED" => broker[i].orders >= 1)
    BY <2>1 DEF OwnedMove, VerdictInv, ClaimInv, ClaimExclusive, Owns, TypeOK
  <2>3. (cmd'[i].status = "COMPLETED" => broker'[i].orders >= 1) /\ Witnessed(w, i)'
    BY <1>26, <2>1, <2>2 DEF OwnedMove, RecordReply, At, Goto, SetCmd, Witnessed, VerdictInv, ClaimInv, TypeOK, BrokerRow
  <2> QED
    BY <2>1, <2>2, <2>3, OwnerKeepsVerdicts DEF OwnedMove
<1>27. ASSUME NEW w \in Workers, ConcealReply(w) PROVE VerdictParts'
  <2>1. PICK i \in Intents : OwnedMove(w, i)
    BY <1>27, CommandStepIsOwned DEF CommandStep, VerdictInv
  <2>2. intent[i].status = "PROCESSING" /\ Witnessed(w, i) /\ h[w] \in HandlerState
        /\ broker[i] \in BrokerRow /\ (cmd[i].status = "COMPLETED" => broker[i].orders >= 1)
    BY <2>1 DEF OwnedMove, VerdictInv, ClaimInv, ClaimExclusive, Owns, TypeOK
  <2>3. (cmd'[i].status = "COMPLETED" => broker'[i].orders >= 1) /\ Witnessed(w, i)'
    BY <1>27, <2>1, <2>2 DEF OwnedMove, ConcealReply, At, Goto, SetCmd, Witnessed, VerdictInv, ClaimInv, TypeOK, BrokerRow
  <2> QED
    BY <2>1, <2>2, <2>3, OwnerKeepsVerdicts DEF OwnedMove
<1>28. ASSUME NEW w \in Workers, NEW i \in Intents, StartJob(w, i) PROVE VerdictParts'
  BY <1>28, QuietKeepsVerdicts DEF StartJob, VerdictInv, ClaimInv, TypeOK
<1>29. ASSUME NEW b \in Bindings, UpdateBinding(b) PROVE VerdictParts'
  BY <1>29, QuietKeepsVerdicts DEF UpdateBinding
<1>30. CASE UNCHANGED vars
  BY <1>30, QuietKeepsVerdicts DEF vars
<1> QED
  BY <1>1, <1>2, <1>3, <1>4, <1>5, <1>6, <1>7, <1>8, <1>9, <1>10, <1>11, <1>12, <1>13, <1>14, <1>15, <1>16, <1>17, <1>18, <1>19, <1>20, <1>21, <1>22, <1>23, <1>24, <1>25, <1>26, <1>27, <1>28, <1>29, <1>30 DEF Next, Capture, Step

LEMMA VerdictInit == Init => VerdictInv
BY ClaimInit DEF Init, Idle, VerdictInv, Witnessed

(* An intent is reported EXECUTED only if its order is at the broker and   *)
(* its command is still COMPLETED, even when answers are lost.             *)
THEOREM ExecutedHasOrder == ASSUME "enqueue" \notin Faults PROVE Spec => []ExecutedMeansOrder
<1>1. Init => VerdictInv
  BY VerdictInit
<1>2. VerdictInv /\ [Next]_vars => VerdictInv'
  BY VerdictStep
<1>3. VerdictInv => ExecutedMeansOrder
  BY DEF VerdictInv, ExecutedMeansOrder
<1> QED
  BY <1>1, <1>2, <1>3, PTL DEF Spec

(* Until the capture is over the intent has not left QUEUED.               *)
CaptureStatus == \A i \in Intents : cap[i] # "end" => intent[i].status \in {"absent", "QUEUED"}

FinalInv == ClaimInv /\ CaptureStatus

(* What a handler writes, it writes to its own intent.                     *)
LEMMA WritesOwnIntent ==
  ASSUME FinalInv, NEW w \in Workers, NEW s, NEW d \in BOOLEAN, h[w].intent \in Intents,
         SetIntent(w, s, d), UNCHANGED cap
  PROVE  /\ CaptureStatus'
         /\ \A i \in Intents : i # h[w].intent => intent'[i] = intent[i]
<1>1. \A i \in Intents : i # h[w].intent => intent'[i] = intent[i]
  BY DEF SetIntent, FinalInv, ClaimInv, TypeOK
<1>2. cap[h[w].intent] = "end"
  BY DEF FinalInv, ClaimInv, CapturePrivate
<1> QED
  BY <1>1, <1>2 DEF FinalInv, CaptureStatus

(* Who writes the intent row: the capture, the claim, or its owner.        *)
IntentKept == \A i \in Intents : intent[i].status \in {"EXECUTED", "REJECTED"} => intent'[i].status = intent[i].status

LEMMA FinalStep ==
  ASSUME "enqueue" \notin Faults
  PROVE  FinalInv /\ [Next]_vars => FinalInv' /\ IntentKept
<1> SUFFICES ASSUME FinalInv, [Next]_vars PROVE CaptureStatus' /\ IntentKept
  BY ClaimStep DEF FinalInv
<1> USE ConstantsAssumption
<1>1. ASSUME NEW i \in Intents, CreateIntent(i) \/ MarkEnqueueFailed(i) PROVE CaptureStatus' /\ IntentKept
  BY <1>1 DEF CreateIntent, MarkEnqueueFailed, FinalInv, CaptureStatus, IntentKept, ClaimInv, TypeOK
<1>2. ASSUME NEW i \in Intents, SelectBinding(i) \/ Enqueue(i) \/ CaptureAbort(i) PROVE CaptureStatus' /\ IntentKept
  BY <1>2 DEF SelectBinding, Enqueue, CaptureAbort, FinalInv, CaptureStatus, IntentKept, ClaimInv, TypeOK
<1>3. ASSUME NEW w \in Workers, Claim(w) PROVE CaptureStatus' /\ IntentKept
  <2>1. CASE intent[h[w].intent].status \in {"QUEUED", "FAILED"}
    <3>1. intent[h[w].intent].done \in BOOLEAN /\ h[w].intent \in Intents
      BY <1>3 DEF Claim, At, FinalInv, ClaimInv, TypeOK, IntentRow
    <3>2. SetIntent(w, "PROCESSING", intent[h[w].intent].done) /\ UNCHANGED cap
      BY <1>3, <2>1 DEF Claim
    <3>3. CaptureStatus' /\ \A i \in Intents : i # h[w].intent => intent'[i] = intent[i]
      BY <3>1, <3>2, WritesOwnIntent
    <3> QED
      BY <2>1, <3>3 DEF IntentKept
  <2>2. CASE intent[h[w].intent].status \notin {"QUEUED", "FAILED"}
    BY <1>3, <2>2 DEF Claim, FinalInv, CaptureStatus, IntentKept
  <2> QED
    BY <2>1, <2>2
<1>4. ASSUME NEW w \in Workers, RejectIntent(w) \/ SettleIntent(w) \/ RequeueIntent(w) \/ CatchError(w)
      PROVE  CaptureStatus' /\ IntentKept
  <2>1. h[w].intent \in Intents /\ h[w].pc \in Owning /\ UNCHANGED cap
    BY <1>4, Zenon DEF RejectIntent, SettleIntent, RequeueIntent, CatchError, At, Owning
  <2>2. PICK s, d : d \in BOOLEAN /\ SetIntent(w, s, d)
    BY <1>4, Zenon DEF RejectIntent, SettleIntent, RequeueIntent, CatchError
  <2>3. intent[h[w].intent].status = "PROCESSING"
    BY <2>1 DEF FinalInv, ClaimInv, ClaimExclusive, Owns
  <2>4. CaptureStatus' /\ \A i \in Intents : i # h[w].intent => intent'[i] = intent[i]
    BY <2>1, <2>2, WritesOwnIntent
  <2> QED
    BY <2>3, <2>4 DEF IntentKept
<1>5. CASE UNCHANGED <<cap, intent>>
  BY <1>5 DEF FinalInv, CaptureStatus, IntentKept
<1>6. QED
  BY <1>1, <1>2, <1>3, <1>4, <1>5
     DEF Next, Capture, Step, vars, RecoverStalled, Expire, Load, Guard, FindCommand, CreateCommand,
     ValidateCommand, DispatchCommand, BridgeCall, RecordReply, DeferReconciliation, ConcealReply,
     LoadResult, JobReturns, JobThrows, WorkerCrash, DbError, StartJob, UpdateBinding

(* EXECUTED and REJECTED are final: whatever is retried, stalls or crashes,*)
(* no step gives such an intent another status.                            *)
THEOREM VerdictsAreFinal == ASSUME "enqueue" \notin Faults PROVE Spec => VerdictIsFinal
<1>1. Init => FinalInv
  BY ClaimInit, ConstantsAssumption DEF Init, FinalInv, CaptureStatus
<1>2. FinalInv /\ [Next]_vars => FinalInv'
  BY FinalStep
<1>3. FinalInv /\ [Next]_vars => [IntentKept]_vars
  BY FinalStep
<1> QED
  BY <1>1, <1>2, <1>3, PTL DEF Spec, VerdictIsFinal, IntentKept
=============================================================================
