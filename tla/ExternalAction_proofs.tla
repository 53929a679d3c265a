------------------------ MODULE ExternalAction_proofs ------------------------
(***************************************************************************)
(* Proofs about ExternalAction, for any number of events, replays, worker  *)
(* slots and attempts and under every fault, also those whose state space  *)
(* is out of TLC's reach (live handlers that lose their job).  The last    *)
(* section assumes a quiet environment and shows that nothing is forgotten.*)
(*                                                                         *)
(* The delivery rows, the budget of messages and the bound after a pause   *)
(* are counts over worker slots: what has already happened plus what the   *)
(* slots still hold must stay below the bound.                             *)
(***************************************************************************)
EXTENDS ExternalAction, FiniteSetTheorems, TLAPS

(* The slots that work on job j at one of the points P.                    *)
Handlers(j, P) == {w \in Workers : h[w].job = j /\ h[w].pc \in P}

(* The slots whose delivery row says SENT.                                 *)
Claimants(j) == {w \in Workers : h[w].job = j /\ h[w].claimed = 1}

(* The slots that have passed the check of the deployment.                 *)
Passed == {w \in Workers : h[w].pc \in {"attempt", "deliver"}}

(* A handler at one of these points may still send its message.            *)
BeforeDeliver == {"start", "load", "attempt", "deliver"}

(* Every slot about to send has its row, every slot about to record a      *)
(* success has its message, every claim is of a row that is SENT.          *)
RowsHold ==
  \A j \in Jobs :
    /\ telegram[j] + Cardinality(Handlers(j, {"deliver"})) <= rows[j]
    /\ sentRows[j] + Cardinality(Handlers(j, {"sent"})) <= telegram[j]
    /\ Cardinality(Claimants(j)) <= sentRows[j]

RowsInv == TypeOK /\ RowsHold

(* The runs of a job that have begun, of which each may send one message.  *)
Runs(j) == IF job[j].state \in {"completed", "failed"} THEN MaxAttempts + MaxStalled
           ELSE job[j].attempts + job[j].stalls + (IF job[j].state = "active" THEN 1 ELSE 0)

(* The points of a caller that may have added its job.                     *)
Added == {"undo", "unmark", "end"}

(* A job exists once its caller added it, no message precedes it, and the  *)
(* queue counts within its limits.                                         *)
BudgetOf(j) ==
  /\ caller[j].pc \notin Added => job[j].state = "absent"
  /\ job[j].state = "absent" => telegram[j] = 0 /\ \A w \in Workers : h[w].job # j
  /\ job[j].attempts < MaxAttempts /\ job[j].stalls <= MaxStalled
  /\ job[j].holder # NoWorker => job[j].state = "active"
  /\ telegram[j] + Cardinality(Handlers(j, BeforeDeliver)) <= Runs(j)

BudgetHolds == \A j \in Jobs : BudgetOf(j)

BudgetInv == RowsInv /\ BudgetHolds

(* A slot may only pass the check while the deployment is ACTIVE.          *)
PauseHolds ==
  /\ active => late = 0
  /\ ~active => late + Cardinality(Passed) <= Cardinality(Workers)

PauseInv == RowsInv /\ PauseHolds

Delivered(e) == \E j \in Jobs : EventOf[j] = e /\ telegram[j] > 0

(* Whoever reports a delivery, or remembers one, has its message.          *)
WitnessHolds ==
  /\ \A e \in Events : event[e] = "SENT" => Delivered(e)
  /\ \A j \in Jobs : caller[j].prev = "SENT" => Delivered(EventOf[j])
  /\ \A w \in Workers :
       h[w].pc \in {"sent", "markSent", "completeReplay"} => h[w].job \in Jobs /\ telegram[h[w].job] > 0
  /\ \A r \in Replays : replay[r] = "COMPLETED" => telegram[r] > 0

WitnessInv == RowsInv /\ WitnessHolds
-----------------------------------------------------------------------------
(* Counting.                                                               *)

(* Two sets of slots that differ at most in w.                             *)
LEMMA CountMove ==
  ASSUME NEW S \in SUBSET Workers, NEW R \in SUBSET Workers, NEW w \in Workers,
         \A v \in Workers \ {w} : v \in S <=> v \in R
  PROVE  /\ Cardinality(S) \in Nat /\ Cardinality(R) \in Nat
         /\ Cardinality(R) = Cardinality(S) + (IF w \in R THEN 1 ELSE 0) - (IF w \in S THEN 1 ELSE 0)
<1>1. IsFiniteSet(S) /\ IsFiniteSet(R)
  BY FS_Subset, ConstantsAssumption
<1>2. Cardinality(S) \in Nat /\ Cardinality(R) \in Nat
  BY <1>1, FS_CardinalityType
<1>3. ASSUME w \in R, w \notin S PROVE Cardinality(R) = Cardinality(S) + 1
  <2>1. R = S \cup {w}
    BY <1>3
  <2> QED
    BY <1>1, <1>3, <2>1, FS_AddElement
<1>4. ASSUME w \in S, w \notin R PROVE Cardinality(S) = Cardinality(R) + 1
  <2>1. S = R \cup {w}
    BY <1>4
  <2> QED
    BY <1>1, <1>4, <2>1, FS_AddElement
<1>5. ASSUME w \in S <=> w \in R PROVE S = R
  BY <1>5
<1> QED
  BY <1>2, <1>3, <1>4, <1>5

(* What the step of one slot does to the three counts.                     *)
LEMMA SlotMove ==
  ASSUME TypeOK, NEW w \in Workers, NEW p, NEW k, NEW n, NEW c, SetHandler(w, p, k, n, c)
  PROVE  /\ \A v \in Workers \ {w} : h'[v] = h[v]
         /\ h'[w] = [pc |-> p, job |-> k, attempt |-> n, claimed |-> c]
BY DEF SetHandler, TypeOK

LEMMA HandlersMove ==
  ASSUME TypeOK, NEW w \in Workers, NEW p, NEW k, NEW n, NEW c \in 0..1,
         SetHandler(w, p, k, n, c), NEW j \in Jobs, NEW P
  PROVE  /\ Cardinality(Handlers(j, P)) \in Nat
         /\ Cardinality(Handlers(j, P)') = Cardinality(Handlers(j, P))
              + (IF k = j /\ p \in P THEN 1 ELSE 0) - (IF h[w].job = j /\ h[w].pc \in P THEN 1 ELSE 0)
<1> DEFINE S == Handlers(j, P)  R == Handlers(j, P)'
<1>m. (\A v \in Workers \ {w} : h'[v] = h[v])
      /\ h'[w] = [pc |-> p, job |-> k, attempt |-> n, claimed |-> c]
  BY SlotMove
<1>1. /\ S \in SUBSET Workers /\ R \in SUBSET Workers
      /\ \A v \in Workers \ {w} : v \in S <=> v \in R
      /\ w \in S <=> h[w].job = j /\ h[w].pc \in P
      /\ w \in R <=> k = j /\ p \in P
  BY <1>m DEF Handlers
<1> HIDE DEF S, R
<1>2. /\ Cardinality(S) \in Nat
      /\ Cardinality(R) = Cardinality(S) + (IF w \in R THEN 1 ELSE 0) - (IF w \in S THEN 1 ELSE 0)
  BY <1>1, CountMove
<1> QED
  BY <1>1, <1>2 DEF S, R

LEMMA ClaimantsMove ==
  ASSUME TypeOK, NEW w \in Workers, NEW p, NEW k, NEW n, NEW c \in 0..1,
         SetHandler(w, p, k, n, c), NEW j \in Jobs
  PROVE  /\ Cardinality(Claimants(j)) \in Nat
         /\ Cardinality(Claimants(j)') = Cardinality(Claimants(j))
              + (IF k = j /\ c = 1 THEN 1 ELSE 0) - (IF h[w].job = j /\ h[w].claimed = 1 THEN 1 ELSE 0)
<1> DEFINE S == Claimants(j)  R == Claimants(j)'
<1>m. (\A v \in Workers \ {w} : h'[v] = h[v])
      /\ h'[w] = [pc |-> p, job |-> k, attempt |-> n, claimed |-> c]
  BY SlotMove
<1>1. /\ S \in SUBSET Workers /\ R \in SUBSET Workers
      /\ \A v \in Workers \ {w} : v \in S <=> v \in R
      /\ w \in S <=> h[w].job = j /\ h[w].claimed = 1
      /\ w \in R <=> k = j /\ c = 1
  BY <1>m DEF Claimants
<1> HIDE DEF S, R
<1>2. /\ Cardinality(S) \in Nat
      /\ Cardinality(R) = Cardinality(S) + (IF w \in R THEN 1 ELSE 0) - (IF w \in S THEN 1 ELSE 0)
  BY <1>1, CountMove
<1> QED
  BY <1>1, <1>2 DEF S, R

LEMMA PassedMove ==
  ASSUME TypeOK, NEW w \in Workers, NEW p, NEW k, NEW n, NEW c \in 0..1, SetHandler(w, p, k, n, c)
  PROVE  /\ Cardinality(Passed) \in Nat
         /\ Cardinality(Passed') = Cardinality(Passed)
              + (IF p \in {"attempt", "deliver"} THEN 1 ELSE 0)
              - (IF h[w].pc \in {"attempt", "deliver"} THEN 1 ELSE 0)
<1> DEFINE S == Passed  R == Passed'
<1>m. (\A v \in Workers \ {w} : h'[v] = h[v])
      /\ h'[w] = [pc |-> p, job |-> k, attempt |-> n, claimed |-> c]
  BY SlotMove
<1>1. /\ S \in SUBSET Workers /\ R \in SUBSET Workers
      /\ \A v \in Workers \ {w} : v \in S <=> v \in R
      /\ w \in S <=> h[w].pc \in {"attempt", "deliver"}
      /\ w \in R <=> p \in {"attempt", "deliver"}
  BY <1>m DEF Passed
<1> HIDE DEF S, R
<1>2. /\ Cardinality(S) \in Nat
      /\ Cardinality(R) = Cardinality(S) + (IF w \in R THEN 1 ELSE 0) - (IF w \in S THEN 1 ELSE 0)
  BY <1>1, CountMove
<1> QED
  BY <1>1, <1>2 DEF S, R

(* A count that no step of a slot touched.                                 *)
LEMMA CountsNat ==
  ASSUME NEW j, NEW P
  PROVE  /\ Cardinality(Handlers(j, P)) \in Nat /\ Cardinality(Claimants(j)) \in Nat
         /\ Cardinality(Passed) \in Nat /\ Cardinality(Passed) <= Cardinality(Workers)
         /\ Cardinality(Workers) \in Nat
<1>1. Handlers(j, P) \in SUBSET Workers /\ Claimants(j) \in SUBSET Workers /\ Passed \in SUBSET Workers
  BY DEF Handlers, Claimants, Passed
<1> QED
  BY <1>1, FS_Subset, FS_CardinalityType, ConstantsAssumption
-----------------------------------------------------------------------------
(* The kinds of steps.                                                     *)

(* The API process, an operator or the queue: no slot moves.               *)
Outside ==
  \/ EnableDeployment \/ PauseDeployment
  \/ \E e \in Events : Capture(e)
  \/ \E r \in Replays : ReadEvent(r) \/ Replay(r)
  \/ \E j \in Jobs : Caller(j) \/ CallerAborts(j) \/ RecoverStalled(j)

(* A slot goes on without a message or a delivery row.                     *)
Quiet(w) ==
  \/ StartReplay(w) \/ Load(w) \/ CancelEvent(w) \/ GiveUpReplay(w) \/ MarkSent(w)
  \/ CompleteReplay(w) \/ MarkFailed(w) \/ FailReplay(w) \/ DbError(w)

(* A slot becomes idle.                                                    *)
Ends(w) == JobReturns(w) \/ JobThrows(w) \/ WorkerCrash(w)

LEMMA Kinds ==
  ASSUME [Next]_vars
  PROVE  \/ Outside \/ UNCHANGED vars
         \/ \E w \in Workers : \/ Quiet(w) \/ Ends(w) \/ CreateAttempt(w) \/ Deliver(w)
                               \/ RecordSent(w) \/ RecordFailed(w) \/ \E j \in Jobs : StartJob(w, j)
BY DEF Next, Step, Outside, Quiet, Ends

LEMMA OutsideMoves == ASSUME Outside PROVE UNCHANGED <<h, rows, sentRows, telegram>>
BY DEF Outside, EnableDeployment, PauseDeployment, Capture, FindDeployment, CreateEvent, ReadEvent,
  Replay, CreateReplay, MarkReady, MarkReplayFailed, Caller, Enqueue, UndoEnqueue, CallerAborts,
  RecoverStalled, Deliveries

(* Where a quiet step leads.                                               *)
LEMMA QuietMoves ==
  ASSUME NEW w \in Workers, Quiet(w)
  PROVE  /\ UNCHANGED <<active, caller, job, rows, sentRows, telegram, late>>
         /\ \E p \in {"load", "attempt", "cancel", "giveUp", "return", "throw", "completeReplay",
                     "failReplay", "failed"} :
              /\ Goto(w, p)
              /\ p = "load" => h[w].pc = "start"
              /\ p = "attempt" => h[w].pc = "load" /\ active
              /\ p = "completeReplay" => h[w].pc = "markSent"
<1> DEFINE Kept == UNCHANGED <<active, caller, job, rows, sentRows, telegram, late>>
           Moves(p) == /\ Goto(w, p)
                       /\ p = "load" => h[w].pc = "start"
                       /\ p = "attempt" => h[w].pc = "load" /\ active
                       /\ p = "completeReplay" => h[w].pc = "markSent"
           Points == {"load", "attempt", "cancel", "giveUp", "return", "throw", "completeReplay",
                      "failReplay", "failed"}
<1> SUFFICES Kept /\ \E p \in Points : Moves(p)
  OBVIOUS
<1>1. ASSUME StartReplay(w) PROVE Kept /\ Moves("load")
  BY <1>1 DEF StartReplay, Deliveries, At
<1>2. ASSUME Load(w) PROVE Kept /\ (Moves("attempt") \/ Moves("cancel"))
  BY <1>2 DEF Load, Deliveries, At
<1>3. ASSUME CancelEvent(w) PROVE Kept /\ (Moves("giveUp") \/ Moves("return"))
  BY <1>3 DEF CancelEvent, Deliveries
<1>4. ASSUME GiveUpReplay(w) PROVE Kept /\ Moves("return")
  BY <1>4 DEF GiveUpReplay, Deliveries
<1>5. ASSUME MarkSent(w) PROVE Kept /\ (Moves("completeReplay") \/ Moves("return"))
  BY <1>5 DEF MarkSent, Deliveries, At
<1>6. ASSUME CompleteReplay(w) PROVE Kept /\ Moves("return")
  BY <1>6 DEF CompleteReplay, Deliveries
<1>7. ASSUME MarkFailed(w) PROVE Kept /\ (Moves("failReplay") \/ Moves("throw"))
  BY <1>7 DEF MarkFailed, Deliveries
<1>8. ASSUME FailReplay(w) PROVE Kept /\ Moves("throw")
  BY <1>8 DEF FailReplay, Deliveries
<1>9. ASSUME DbError(w) PROVE Kept /\ (Moves("throw") \/ Moves("failed"))
  BY <1>9 DEF DbError, Deliveries
<1> QED
  BY <1>1, <1>2, <1>3, <1>4, <1>5, <1>6, <1>7, <1>8, <1>9 DEF Quiet

LEMMA EndMoves ==
  ASSUME NEW w \in Workers, Ends(w)
  PROVE  /\ SetHandler(w, "idle", NoJob, 0, 0)
         /\ UNCHANGED <<active, event, replay, caller, rows, sentRows, telegram, late>>
BY DEF Ends, JobReturns, JobThrows, WorkerCrash, Deliveries, SetHandler, Idle
-----------------------------------------------------------------------------
(* Type correctness.  It needs RowsHold: a handler that takes back its     *)
(* claim finds a row to take it back from.                                 *)

LEMMA TypeInit == Init => TypeOK
<1> SUFFICES ASSUME Init PROVE TypeOK
  OBVIOUS
<1>1. active \in BOOLEAN /\ late \in Nat
  BY DEF Init
<1>2. event \in [Events -> EventStatus] /\ replay \in [Replays -> ReplayStatus]
  BY DEF Init, EventStatus, ReplayStatus
<1>3. caller \in [Jobs -> CallerRow]
  BY DEF Init, CallerRow, CallerPCs, EventStatus
<1>4. job \in [Jobs -> JobRow]
  BY DEF Init, JobRow, JobState
<1>5. h \in [Workers -> HandlerState]
  BY DEF Init, Idle, HandlerState, PCs
<1>6. rows \in [Jobs -> Nat] /\ sentRows \in [Jobs -> Nat] /\ telegram \in [Jobs -> Nat]
  BY DEF Init
<1> QED
  BY <1>1, <1>2, <1>3, <1>4, <1>5, <1>6 DEF TypeOK

LEMMA HandlerTyped ==
  ASSUME NEW w \in Workers, NEW p \in PCs, NEW k \in Jobs \cup {NoJob}, NEW n \in Nat,
         NEW c \in 0..1, h \in [Workers -> HandlerState], SetHandler(w, p, k, n, c)
  PROVE  h' \in [Workers -> HandlerState]
BY DEF SetHandler, HandlerState

LEMMA JobTyped ==
  ASSUME NEW j \in Jobs, NEW s \in JobState, NEW n \in Nat, NEW w \in Workers \cup {NoWorker},
         NEW k \in Nat, job \in [Jobs -> JobRow], SetJob(j, s, n, w, k)
  PROVE  job' \in [Jobs -> JobRow]
BY DEF SetJob, JobRow

LEMMA CallerTyped ==
  ASSUME NEW j \in Jobs, NEW p \in CallerPCs, NEW s \in EventStatus,
         caller \in [Jobs -> CallerRow], SetCaller(j, p, s)
  PROVE  caller' \in [Jobs -> CallerRow]
BY DEF SetCaller, CallerRow

(* Steps in which no slot moves.                                           *)
LEMMA OutsideTyped == ASSUME TypeOK, Outside PROVE TypeOK'
<1> USE ConstantsAssumption DEF TypeOK
<1>h. h' \in [Workers -> HandlerState] /\ rows' \in [Jobs -> Nat] /\ sentRows' \in [Jobs -> Nat]
      /\ telegram' \in [Jobs -> Nat]
  BY OutsideMoves
<1>1. CASE EnableDeployment \/ PauseDeployment
  <2>1. UNCHANGED <<event, replay, caller, job>>
    BY <1>1 DEF EnableDeployment, PauseDeployment
  <2>2. active' \in BOOLEAN
    BY <1>1 DEF EnableDeployment, PauseDeployment
  <2>3. late' \in Nat
    BY <1>1 DEF EnableDeployment, PauseDeployment, Deliveries
  <2> QED
    BY <2>1, <2>2, <2>3, <1>h
<1>2. ASSUME NEW e \in Events, Capture(e) PROVE TypeOK'
  <2>1. e \in Jobs
    BY DEF Jobs
  <2>2. CASE FindDeployment(e)
    <3>1. caller' \in [Jobs -> CallerRow]
      BY <2>1, <2>2, CallerTyped DEF FindDeployment, CallerPCs, EventStatus
    <3> QED
      BY <2>2, <3>1, <1>h DEF FindDeployment, Deliveries
  <2>3. CASE CreateEvent(e)
    <3>1. caller' \in [Jobs -> CallerRow]
      BY <2>1, <2>3, CallerTyped DEF CreateEvent, CallerPCs, EventStatus
    <3>2. event' \in [Events -> EventStatus]
      BY <2>3 DEF CreateEvent, EventStatus
    <3> QED
      BY <2>3, <3>1, <3>2, <1>h DEF CreateEvent, Deliveries
  <2> QED
    BY <1>2, <2>2, <2>3 DEF Capture
<1>3. ASSUME NEW r \in Replays, ReadEvent(r) \/ Replay(r) PROVE TypeOK'
  <2>1. r \in Jobs /\ EventOf[r] \in Events
    BY DEF Jobs
  <2>2. caller[r].prev \in EventStatus /\ event[EventOf[r]] \in EventStatus
    BY <2>1 DEF CallerRow
  <2>3. caller' \in [Jobs -> CallerRow]
    BY <1>3, <2>1, <2>2, CallerTyped DEF ReadEvent, Replay, CreateReplay, MarkReady,
      MarkReplayFailed, CallerPCs, EventStatus
  <2>4. event' \in [Events -> EventStatus]
    BY <1>3, <2>1 DEF ReadEvent, Replay, CreateReplay, MarkReady, MarkReplayFailed, EventStatus
  <2>5. replay' \in [Replays -> ReplayStatus]
    BY <1>3 DEF ReadEvent, Replay, CreateReplay, MarkReady, MarkReplayFailed, ReplayStatus
  <2>6. UNCHANGED <<active, job, late>>
    BY <1>3 DEF ReadEvent, Replay, CreateReplay, MarkReady, MarkReplayFailed, Deliveries
  <2> QED
    BY <2>3, <2>4, <2>5, <2>6, <1>h
<1>4. ASSUME NEW j \in Jobs, Caller(j) \/ CallerAborts(j) \/ RecoverStalled(j) PROVE TypeOK'
  <2>1. caller[j].prev \in EventStatus /\ job[j] \in JobRow /\ EventOf[j] \in Events
    BY DEF CallerRow
  <2>2. caller' \in [Jobs -> CallerRow]
    BY <1>4, <2>1, CallerTyped DEF Caller, Enqueue, UndoEnqueue, CallerAborts, RecoverStalled,
      CallerPCs, EventStatus
  <2>3. job' \in [Jobs -> JobRow]
    BY <1>4, <2>1, JobTyped DEF Caller, Enqueue, UndoEnqueue, CallerAborts, RecoverStalled,
      AddJob, EndJob, JobState, JobRow
  <2>4. event' \in [Events -> EventStatus]
    BY <1>4, <2>1 DEF Caller, Enqueue, UndoEnqueue, CallerAborts, RecoverStalled
  <2>5. UNCHANGED <<active, replay, late>>
    BY <1>4 DEF Caller, Enqueue, UndoEnqueue, CallerAborts, RecoverStalled, Deliveries
  <2> QED
    BY <2>2, <2>3, <2>4, <2>5, <1>h
<1> QED
  BY <1>1, <1>2, <1>3, <1>4 DEF Outside

(* Steps of a slot.                                                        *)
LEMMA SlotTyped ==
  ASSUME TypeOK, RowsHold, NEW w \in Workers,
         \/ Quiet(w) \/ Ends(w) \/ CreateAttempt(w) \/ Deliver(w) \/ RecordSent(w)
         \/ RecordFailed(w) \/ \E j \in Jobs : StartJob(w, j)
  PROVE  TypeOK'
<1> USE ConstantsAssumption DEF TypeOK
<1>w. h[w] \in HandlerState
  OBVIOUS
<1>1. CASE Quiet(w)
  <2>1. PICK p \in PCs : Goto(w, p)
    BY <1>1, QuietMoves DEF PCs, BeforeTry, InTry, InCatch
  <2>2. h' \in [Workers -> HandlerState]
    BY <1>w, <2>1, HandlerTyped DEF Goto, Claim, HandlerState
  <2>3. event' \in [Events -> EventStatus]
    BY <1>1 DEF Quiet, StartReplay, Load, CancelEvent, GiveUpReplay, MarkSent, CompleteReplay,
      MarkFailed, FailReplay, DbError, SetEvent, EventStatus
  <2>4. replay' \in [Replays -> ReplayStatus]
    BY <1>1 DEF Quiet, StartReplay, Load, CancelEvent, GiveUpReplay, MarkSent, CompleteReplay,
      MarkFailed, FailReplay, DbError, SetReplay, ReplayStatus
  <2> QED
    BY <1>1, <2>2, <2>3, <2>4, QuietMoves
<1>2. CASE Ends(w)
  <2>1. h' \in [Workers -> HandlerState]
    BY <1>2, EndMoves, HandlerTyped DEF PCs
  <2>2. CASE WorkerCrash(w)
    BY <1>2, <2>1, <2>2, EndMoves DEF WorkerCrash
  <2>3. CASE JobReturns(w) \/ JobThrows(w)
    <3>1. h[w].job \in Jobs /\ job[h[w].job] \in JobRow
      BY <2>3 DEF JobReturns, JobThrows, At
    <3>2. job' \in [Jobs -> JobRow]
      BY <2>3, <3>1, JobTyped DEF JobReturns, JobThrows, EndJob, JobState, JobRow
    <3> QED
      BY <1>2, <2>1, <3>2, EndMoves
  <2> QED
    BY <1>2, <2>2, <2>3 DEF Ends
<1>3. CASE CreateAttempt(w)
  <2>1. h' \in [Workers -> HandlerState]
    BY <1>w, <1>3, HandlerTyped DEF CreateAttempt, Goto, Claim, HandlerState, PCs, InTry
  <2> QED
    BY <1>3, <2>1 DEF CreateAttempt, At
<1>4. CASE Deliver(w)
  <2>1. h' \in [Workers -> HandlerState]
    <3>1. PICK p \in {"sent", "failed"} : Goto(w, p)
      BY <1>4 DEF Deliver
    <3>2. p \in PCs
      BY DEF PCs, InTry, InCatch
    <3> QED
      BY <1>w, <3>1, <3>2, HandlerTyped DEF Goto, Claim, HandlerState
  <2>2. telegram' \in [Jobs -> Nat] /\ late' \in Nat
    BY <1>4 DEF Deliver, At, Receive
  <2> QED
    BY <1>4, <2>1, <2>2 DEF Deliver
<1>5. CASE RecordSent(w)
  <2>1. h' \in [Workers -> HandlerState]
    BY <1>w, <1>5, HandlerTyped DEF RecordSent, Claim, HandlerState, PCs, InTry
  <2> QED
    BY <1>5, <2>1 DEF RecordSent, At
<1>6. CASE RecordFailed(w)
  <2>1. h' \in [Workers -> HandlerState]
    BY <1>w, <1>6, HandlerTyped DEF RecordFailed, Claim, HandlerState, PCs, InCatch
  <2>2. h[w].job \in Jobs
    BY <1>6 DEF RecordFailed, At
  <2>3. h[w].claimed = 1 => sentRows[h[w].job] >= 1
    <3>1. Claimants(h[w].job) \in SUBSET Workers
      BY DEF Claimants
    <3>2. h[w].claimed = 1 => Claimants(h[w].job) # {}
      BY DEF Claimants
    <3>3. h[w].claimed = 1 => Cardinality(Claimants(h[w].job)) \in Nat \ {0}
      BY <3>1, <3>2, FS_Subset, FS_EmptySet, FS_CardinalityType
    <3> QED
      BY <2>2, <3>3 DEF RowsHold
  <2>4. sentRows' \in [Jobs -> Nat]
    <3>1. h[w].claimed \in 0..1 /\ sentRows[h[w].job] \in Nat
      BY <1>w, <2>2 DEF HandlerState
    <3>2. sentRows[h[w].job] - h[w].claimed \in Nat
      BY <2>3, <3>1
    <3> QED
      BY <1>6, <3>2 DEF RecordFailed
  <2> QED
    BY <1>6, <2>1, <2>4 DEF RecordFailed
<1>7. ASSUME NEW j \in Jobs, StartJob(w, j) PROVE TypeOK'
  <2>1. job[j] \in JobRow
    OBVIOUS
  <2>2. h' \in [Workers -> HandlerState]
    <3>1. PICK p \in {"start", "load"} : SetHandler(w, p, j, job[j].attempts + 1, 0)
      BY <1>7 DEF StartJob
    <3>2. p \in PCs /\ job[j].attempts + 1 \in Nat
      BY <2>1 DEF PCs, BeforeTry, JobRow
    <3> QED
      BY <3>1, <3>2, HandlerTyped
  <2>3. job' \in [Jobs -> JobRow]
    BY <1>7, <2>1, JobTyped DEF StartJob, JobState, JobRow
  <2> QED
    BY <1>7, <2>2, <2>3 DEF StartJob, Deliveries
<1> QED
  BY <1>1, <1>2, <1>3, <1>4, <1>5, <1>6, <1>7

LEMMA TypeStep == ASSUME TypeOK, RowsHold, [Next]_vars PROVE TypeOK'
<1>1. CASE UNCHANGED vars
  BY <1>1 DEF TypeOK, vars
<1> QED
  BY <1>1, Kinds, OutsideTyped, SlotTyped
-----------------------------------------------------------------------------
(* The delivery rows.                                                      *)

(* A slot that neither reaches a send nor makes a claim only lets counts   *)
(* fall.                                                                   *)
LEMMA QuietKeepsRows ==
  ASSUME RowsInv, NEW w \in Workers, NEW p, NEW k, NEW n, NEW c \in 0..1,
         SetHandler(w, p, k, n, c), p \notin {"deliver", "sent"},
         c = 1 => h[w].claimed = 1 /\ k = h[w].job, UNCHANGED <<rows, sentRows, telegram>>
  PROVE  RowsHold'
<1> SUFFICES ASSUME NEW j \in Jobs
             PROVE  /\ telegram[j] + Cardinality(Handlers(j, {"deliver"})') <= rows[j]
                    /\ sentRows[j] + Cardinality(Handlers(j, {"sent"})') <= telegram[j]
                    /\ Cardinality(Claimants(j)') <= sentRows[j]
  BY DEF RowsHold
<1>t. TypeOK
  BY DEF RowsInv
<1>1. rows[j] \in Nat /\ sentRows[j] \in Nat /\ telegram[j] \in Nat
  BY <1>t DEF TypeOK
<1>2. /\ telegram[j] + Cardinality(Handlers(j, {"deliver"})) <= rows[j]
      /\ sentRows[j] + Cardinality(Handlers(j, {"sent"})) <= telegram[j]
      /\ Cardinality(Claimants(j)) <= sentRows[j]
  BY DEF RowsInv, RowsHold
<1>3. /\ Cardinality(Handlers(j, {"deliver"})) \in Nat
      /\ Cardinality(Handlers(j, {"deliver"})') = Cardinality(Handlers(j, {"deliver"}))
           + (IF k = j /\ p \in {"deliver"} THEN 1 ELSE 0)
           - (IF h[w].job = j /\ h[w].pc \in {"deliver"} THEN 1 ELSE 0)
  BY <1>t, HandlersMove
<1>4. /\ Cardinality(Handlers(j, {"sent"})) \in Nat
      /\ Cardinality(Handlers(j, {"sent"})') = Cardinality(Handlers(j, {"sent"}))
           + (IF k = j /\ p \in {"sent"} THEN 1 ELSE 0)
           - (IF h[w].job = j /\ h[w].pc \in {"sent"} THEN 1 ELSE 0)
  BY <1>t, HandlersMove
<1>5. /\ Cardinality(Claimants(j)) \in Nat
      /\ Cardinality(Claimants(j)') = Cardinality(Claimants(j))
           + (IF k = j /\ c = 1 THEN 1 ELSE 0) - (IF h[w].job = j /\ h[w].claimed = 1 THEN 1 ELSE 0)
  BY <1>t, ClaimantsMove
<1>6. Cardinality(Handlers(j, {"deliver"})') <= Cardinality(Handlers(j, {"deliver"}))
  BY <1>3
<1>7. Cardinality(Handlers(j, {"sent"})') <= Cardinality(Handlers(j, {"sent"}))
  BY <1>4
<1>8. Cardinality(Claimants(j)') <= Cardinality(Claimants(j))
  BY <1>5
<1>9. /\ Cardinality(Handlers(j, {"deliver"})') \in Int
      /\ Cardinality(Handlers(j, {"sent"})') \in Int /\ Cardinality(Claimants(j)') \in Int
  BY <1>3, <1>4, <1>5
<1> QED
  BY <1>1, <1>2, <1>3, <1>4, <1>5, <1>6, <1>7, <1>8, <1>9

(* The counts of one job over a step of a slot, for the steps that change  *)
(* them.                                                                   *)
LEMMA RowsOf ==
  ASSUME RowsInv, NEW w \in Workers, NEW p, NEW c \in 0..1, Claim(w, p, c), NEW j \in Jobs
  PROVE  /\ rows[j] \in Nat /\ sentRows[j] \in Nat /\ telegram[j] \in Nat
         /\ telegram[j] + Cardinality(Handlers(j, {"deliver"})) <= rows[j]
         /\ sentRows[j] + Cardinality(Handlers(j, {"sent"})) <= telegram[j]
         /\ Cardinality(Claimants(j)) <= sentRows[j]
         /\ Cardinality(Handlers(j, {"deliver"})) \in Nat
         /\ Cardinality(Handlers(j, {"deliver"})') = Cardinality(Handlers(j, {"deliver"}))
              + (IF h[w].job = j /\ p = "deliver" THEN 1 ELSE 0)
              - (IF h[w].job = j /\ h[w].pc = "deliver" THEN 1 ELSE 0)
         /\ Cardinality(Handlers(j, {"sent"})) \in Nat
         /\ Cardinality(Handlers(j, {"sent"})') = Cardinality(Handlers(j, {"sent"}))
              + (IF h[w].job = j /\ p = "sent" THEN 1 ELSE 0)
              - (IF h[w].job = j /\ h[w].pc = "sent" THEN 1 ELSE 0)
         /\ Cardinality(Claimants(j)) \in Nat
         /\ Cardinality(Claimants(j)') = Cardinality(Claimants(j))
              + (IF h[w].job = j /\ c = 1 THEN 1 ELSE 0) - (IF h[w].job = j /\ h[w].claimed = 1 THEN 1 ELSE 0)
<1>t. TypeOK
  BY DEF RowsInv
<1>c. SetHandler(w, p, h[w].job, h[w].attempt, c)
  BY DEF Claim
<1>1. rows[j] \in Nat /\ sentRows[j] \in Nat /\ telegram[j] \in Nat
  BY <1>t DEF TypeOK
<1>2. /\ telegram[j] + Cardinality(Handlers(j, {"deliver"})) <= rows[j]
      /\ sentRows[j] + Cardinality(Handlers(j, {"sent"})) <= telegram[j]
      /\ Cardinality(Claimants(j)) <= sentRows[j]
  BY DEF RowsInv, RowsHold
<1>3. /\ Cardinality(Handlers(j, {"deliver"})) \in Nat
      /\ Cardinality(Handlers(j, {"deliver"})') = Cardinality(Handlers(j, {"deliver"}))
           + (IF h[w].job = j /\ p \in {"deliver"} THEN 1 ELSE 0)
           - (IF h[w].job = j /\ h[w].pc \in {"deliver"} THEN 1 ELSE 0)
  BY <1>t, <1>c, HandlersMove
<1>4. /\ Cardinality(Handlers(j, {"sent"})) \in Nat
      /\ Cardinality(Handlers(j, {"sent"})') = Cardinality(Handlers(j, {"sent"}))
           + (IF h[w].job = j /\ p \in {"sent"} THEN 1 ELSE 0)
           - (IF h[w].job = j /\ h[w].pc \in {"sent"} THEN 1 ELSE 0)
  BY <1>t, <1>c, HandlersMove
<1>5. /\ Cardinality(Claimants(j)) \in Nat
      /\ Cardinality(Claimants(j)') = Cardinality(Claimants(j))
           + (IF h[w].job = j /\ c = 1 THEN 1 ELSE 0) - (IF h[w].job = j /\ h[w].claimed = 1 THEN 1 ELSE 0)
  BY <1>t, <1>c, ClaimantsMove
<1> QED
  BY <1>1, <1>2, <1>3, <1>4, <1>5

(* Every step keeps the accounts.                                          *)
LEMMA RowsStep == RowsInv /\ [Next]_vars => RowsInv'
<1> SUFFICES ASSUME RowsInv, [Next]_vars PROVE RowsHold'
  BY TypeStep DEF RowsInv
<1>t. TypeOK
  BY DEF RowsInv
<1>0. CASE UNCHANGED <<h, rows, sentRows, telegram>>
  <2>1. \A j, P : Handlers(j, P)' = Handlers(j, P)
    BY <1>0 DEF Handlers
  <2>2. \A j : Claimants(j)' = Claimants(j)
    BY <1>0 DEF Claimants
  <2> QED
    BY <1>0, <2>1, <2>2 DEF RowsInv, RowsHold
<1>1. ASSUME NEW w \in Workers, Quiet(w) PROVE RowsHold'
  <2>1. PICK p : Goto(w, p) /\ p \notin {"deliver", "sent"}
    BY <1>1, QuietMoves
  <2>2. h[w].claimed \in 0..1
    BY <1>t DEF TypeOK, HandlerState
  <2> QED
    BY <1>1, <2>1, <2>2, QuietMoves, QuietKeepsRows DEF Goto, Claim
<1>2. ASSUME NEW w \in Workers, Ends(w) PROVE RowsHold'
  <2>1. SetHandler(w, "idle", NoJob, 0, 0) /\ UNCHANGED <<rows, sentRows, telegram>>
    BY <1>2, EndMoves
  <2> QED
    BY <2>1, QuietKeepsRows
<1>3. ASSUME NEW w \in Workers, NEW j \in Jobs, StartJob(w, j) PROVE RowsHold'
  <2>1. PICK p : SetHandler(w, p, j, job[j].attempts + 1, 0) /\ p \in {"start", "load"}
    BY <1>3 DEF StartJob
  <2>2. UNCHANGED <<rows, sentRows, telegram>>
    BY <1>3 DEF StartJob, Deliveries
  <2> QED
    BY <2>1, <2>2, QuietKeepsRows
<1>4. ASSUME NEW w \in Workers, CreateAttempt(w) PROVE RowsHold'
  <2>1. /\ Claim(w, "deliver", h[w].claimed) /\ h[w].claimed \in 0..1
        /\ h[w].pc = "attempt" /\ h[w].job \in Jobs /\ UNCHANGED <<sentRows, telegram>>
    BY <1>4, <1>t DEF CreateAttempt, Goto, At, TypeOK, HandlerState
  <2>2. ASSUME NEW j \in Jobs PROVE rows'[j] = rows[j] + (IF h[w].job = j THEN 1 ELSE 0)
    BY <1>4, <1>t DEF CreateAttempt, At, TypeOK
  <2> QED
    BY <2>1, <2>2, RowsOf DEF RowsHold
<1>5. ASSUME NEW w \in Workers, Deliver(w) PROVE RowsHold'
  <2>1. PICK p \in {"sent", "failed"}, n \in 0..1 :
       /\ Claim(w, p, h[w].claimed)
       /\ p = "sent" => n = 1
       /\ Receive(w, n)
    BY <1>5 DEF Deliver, Goto
  <2>2. /\ h[w].claimed \in 0..1 /\ h[w].pc = "deliver" /\ h[w].job \in Jobs
        /\ UNCHANGED <<rows, sentRows>>
    BY <1>5, <1>t DEF Deliver, At, TypeOK, HandlerState
  <2>3. ASSUME NEW j \in Jobs PROVE telegram'[j] = telegram[j] + (IF h[w].job = j THEN n ELSE 0)
    BY <2>1, <2>2, <1>t DEF Receive, TypeOK
  <2> QED
    BY <2>1, <2>2, <2>3, RowsOf DEF RowsHold
<1>6. ASSUME NEW w \in Workers, RecordSent(w) PROVE RowsHold'
  <2>1. /\ Claim(w, "markSent", 1) /\ h[w].claimed \in 0..1
        /\ h[w].pc = "sent" /\ h[w].job \in Jobs /\ UNCHANGED <<rows, telegram>>
    BY <1>6, <1>t DEF RecordSent, At, TypeOK, HandlerState
  <2>2. ASSUME NEW j \in Jobs PROVE sentRows'[j] = sentRows[j] + (IF h[w].job = j THEN 1 ELSE 0)
    BY <1>6, <1>t DEF RecordSent, At, TypeOK
  <2>3. ASSUME NEW j \in Jobs
        PROVE Cardinality(Claimants(j)') <= Cardinality(Claimants(j)) + (IF h[w].job = j THEN 1 ELSE 0)
    BY <2>1, RowsOf
  <2> QED
    BY <2>1, <2>2, <2>3, RowsOf DEF RowsHold
<1>7. ASSUME NEW w \in Workers, RecordFailed(w) PROVE RowsHold'
  <2>1. PICK p : Claim(w, p, 0) /\ p \in {"markFailed", "throw"}
    BY <1>7 DEF RecordFailed
  <2>2. /\ h[w].claimed \in 0..1 /\ h[w].pc = "failed" /\ h[w].job \in Jobs
        /\ UNCHANGED <<rows, telegram>>
    BY <1>7, <1>t DEF RecordFailed, At, TypeOK, HandlerState
  <2>3. ASSUME NEW j \in Jobs
        PROVE sentRows'[j] = sentRows[j] - (IF h[w].job = j /\ h[w].claimed = 1 THEN 1 ELSE 0)
    BY <1>7, <1>t, <2>2 DEF RecordFailed, TypeOK
  <2> QED
    BY <2>1, <2>2, <2>3, RowsOf DEF RowsHold
<1> QED
  BY <1>0, <1>1, <1>2, <1>3, <1>4, <1>5, <1>6, <1>7, Kinds, OutsideMoves DEF vars

LEMMA RowsInit == Init => RowsInv
<1> SUFFICES ASSUME Init PROVE RowsHold
  BY TypeInit DEF RowsInv
<1>1. ASSUME NEW j \in Jobs
      PROVE  Handlers(j, {"deliver"}) = {} /\ Handlers(j, {"sent"}) = {} /\ Claimants(j) = {}
  BY ConstantsAssumption DEF Init, Idle, Handlers, Claimants
<1>2. Cardinality({}) = 0
  BY FS_EmptySet
<1>3. ASSUME NEW j \in Jobs PROVE rows[j] = 0 /\ sentRows[j] = 0 /\ telegram[j] = 0
  BY DEF Init
<1> QED
  BY <1>1, <1>2, <1>3 DEF RowsHold

(* Every reachable state is well typed.                                    *)
THEOREM TypeCorrect == Spec => []TypeOK
<1>1. RowsInv => TypeOK
  BY DEF RowsInv
<1> QED
  BY <1>1, RowsInit, RowsStep, PTL DEF Spec

(* The delivery rows of a job account for its messages, whatever crashes,  *)
(* stalls or fails to be written.                                          *)
THEOREM RowsAccount == Spec => []RowsAccountForMessages
<1>1. RowsInv => RowsAccountForMessages
  <2> SUFFICES ASSUME RowsInv, NEW j \in Jobs PROVE sentRows[j] <= telegram[j] /\ telegram[j] <= rows[j]
    BY DEF RowsAccountForMessages
  <2>1. rows[j] \in Nat /\ sentRows[j] \in Nat /\ telegram[j] \in Nat
    BY DEF RowsInv, TypeOK
  <2> QED
    BY <2>1, CountsNat DEF RowsInv, RowsHold
<1> QED
  BY <1>1, RowsInit, RowsStep, PTL DEF Spec
-----------------------------------------------------------------------------
(* What is reported was delivered.                                         *)

(* Messages are never taken back.                                          *)
LEMMA MessagesStay ==
  ASSUME RowsInv, [Next]_vars, NEW j \in Jobs
  PROVE  telegram[j] \in Nat /\ telegram'[j] \in Nat /\ telegram'[j] >= telegram[j]
<1>1. telegram \in [Jobs -> Nat]
  BY DEF RowsInv, TypeOK
<1>2. CASE UNCHANGED telegram
  BY <1>1, <1>2
<1>3. ASSUME NEW w \in Workers, Deliver(w)
      PROVE  telegram'[j] \in Nat /\ telegram'[j] >= telegram[j]
  <2>1. PICK n \in 0..1 : Receive(w, n)
    BY <1>3 DEF Deliver
  <2> QED
    BY <1>1, <2>1 DEF Receive
<1>4. ASSUME NEW w \in Workers, CreateAttempt(w) \/ RecordSent(w) \/ RecordFailed(w)
      PROVE  UNCHANGED telegram
  BY <1>4 DEF CreateAttempt, RecordSent, RecordFailed
<1>5. ASSUME NEW w \in Workers, NEW k \in Jobs, StartJob(w, k) PROVE UNCHANGED telegram
  BY <1>5 DEF StartJob, Deliveries
<1> QED
  BY <1>1, <1>2, <1>3, <1>4, <1>5, Kinds, OutsideMoves, QuietMoves, EndMoves DEF vars

LEMMA DeliveredStays ==
  ASSUME RowsInv, [Next]_vars, NEW e, Delivered(e) PROVE Delivered(e)'
BY MessagesStay DEF Delivered

(* A step of a slot that reports at most what the slot knows.              *)
LEMMA SlotKeepsWitness ==
  ASSUME WitnessInv, [Next]_vars, NEW w \in Workers, NEW p, NEW k, NEW n, NEW c, SetHandler(w, p, k, n, c),
         p \in {"sent", "markSent", "completeReplay"} => k \in Jobs /\ telegram'[k] > 0,
         \A e \in Events : event'[e] = "SENT" => event[e] = "SENT" \/ Delivered(e)',
         \A r \in Replays : replay'[r] = "COMPLETED" => replay[r] = "COMPLETED" \/ telegram'[r] > 0,
         UNCHANGED caller
  PROVE  WitnessHolds'
<1>1. RowsInv /\ TypeOK /\ \A r \in Replays : r \in Jobs
  BY DEF WitnessInv, RowsInv, Jobs
<1>2. \A e \in Events : event'[e] = "SENT" => Delivered(e)'
  BY <1>1, DeliveredStays DEF WitnessInv, WitnessHolds
<1>3. \A j \in Jobs : caller'[j].prev = "SENT" => Delivered(EventOf[j])'
  BY <1>1, DeliveredStays DEF WitnessInv, WitnessHolds
<1>4. \A r \in Replays : replay'[r] = "COMPLETED" => telegram'[r] > 0
  BY <1>1, MessagesStay DEF WitnessInv, WitnessHolds
<1>5. ASSUME NEW v \in Workers, h'[v].pc \in {"sent", "markSent", "completeReplay"}
      PROVE  h'[v].job \in Jobs /\ telegram'[h'[v].job] > 0
  <2>1. CASE v = w
    <3>1. h'[v] = [pc |-> p, job |-> k, attempt |-> n, claimed |-> c]
      BY <1>1, <2>1, SlotMove
    <3>2. h'[v].pc = p /\ h'[v].job = k
      BY <3>1
    <3> QED
      BY <1>5, <3>2
  <2>2. CASE v # w
    <3>1. h'[v] = h[v]
      BY <1>1, <2>2, SlotMove
    <3>2. h[v].job \in Jobs /\ telegram[h[v].job] > 0
      BY <1>5, <3>1 DEF WitnessInv, WitnessHolds
    <3>3. /\ telegram[h[v].job] \in Nat /\ telegram'[h[v].job] \in Nat
          /\ telegram'[h[v].job] >= telegram[h[v].job]
      BY <1>1, <3>2, MessagesStay
    <3> QED
      BY <3>1, <3>2, <3>3
  <2> QED
    BY <2>1, <2>2
<1> QED
  BY <1>2, <1>3, <1>4, <1>5 DEF WitnessHolds

(* What the API process, an operator or the queue can report or remember.  *)
LEMMA OutsideReports ==
  ASSUME TypeOK, Outside
  PROVE  /\ \A e \in Events :
              event'[e] = "SENT" => event[e] = "SENT" \/ \E j \in Jobs : EventOf[j] = e /\ caller[j].prev = "SENT"
         /\ \A j \in Jobs :
              caller'[j].prev = "SENT" => caller[j].prev = "SENT" \/ event[EventOf[j]] = "SENT"
         /\ \A r \in Replays : replay'[r] = "COMPLETED" => replay[r] = "COMPLETED"
<1> USE DEF TypeOK
<1> DEFINE
      E == \A e \in Events :
             event'[e] = "SENT" => event[e] = "SENT" \/ \E j \in Jobs : EventOf[j] = e /\ caller[j].prev = "SENT"
      C == \A j \in Jobs : caller'[j].prev = "SENT" => caller[j].prev = "SENT" \/ event[EventOf[j]] = "SENT"
      R == \A r \in Replays : replay'[r] = "COMPLETED" => replay[r] = "COMPLETED"
<1> SUFFICES E /\ C /\ R
  OBVIOUS
<1>1. CASE EnableDeployment \/ PauseDeployment
  BY <1>1 DEF EnableDeployment, PauseDeployment
<1>2. ASSUME NEW e \in Events, Capture(e) PROVE E /\ C /\ R
  <2>1. e \in Jobs
    BY DEF Jobs
  <2>2. E
    BY <1>2 DEF Capture, FindDeployment, CreateEvent
  <2>3. C
    BY <1>2, <2>1 DEF Capture, FindDeployment, CreateEvent, SetCaller
  <2> QED
    BY <1>2, <2>2, <2>3 DEF Capture, FindDeployment, CreateEvent
<1>3. ASSUME NEW r \in Replays, ReadEvent(r) \/ Replay(r) PROVE E /\ C /\ R
  <2>1. r \in Jobs
    BY DEF Jobs
  <2>2. E
    BY <1>3 DEF ReadEvent, Replay, CreateReplay, MarkReady, MarkReplayFailed
  <2>3. C
    BY <1>3, <2>1 DEF ReadEvent, Replay, CreateReplay, MarkReady, MarkReplayFailed, SetCaller
  <2>4. R
    BY <1>3 DEF ReadEvent, Replay, CreateReplay, MarkReady, MarkReplayFailed
  <2> QED
    BY <2>2, <2>3, <2>4
<1>4. ASSUME NEW j \in Jobs, Caller(j) \/ CallerAborts(j) \/ RecoverStalled(j) PROVE E /\ C /\ R
  <2>1. E
    BY <1>4 DEF Caller, Enqueue, UndoEnqueue, CallerAborts, RecoverStalled
  <2>2. C
    BY <1>4 DEF Caller, Enqueue, UndoEnqueue, CallerAborts, RecoverStalled, SetCaller
  <2>3. R
    BY <1>4 DEF Caller, Enqueue, UndoEnqueue, CallerAborts, RecoverStalled
  <2> QED
    BY <2>1, <2>2, <2>3
<1> HIDE DEF E, C, R
<1> QED
  BY <1>1, <1>2, <1>3, <1>4 DEF Outside

(* What a quiet step of a slot can report.                                 *)
LEMMA QuietReports ==
  ASSUME TypeOK, NEW w \in Workers, Quiet(w)
  PROVE  /\ \A e \in Events :
              event'[e] = "SENT" => event[e] = "SENT" \/ (h[w].pc = "markSent" /\ EventOf[h[w].job] = e)
         /\ \A r \in Replays :
              replay'[r] = "COMPLETED" => replay[r] = "COMPLETED" \/ (h[w].pc = "completeReplay" /\ h[w].job = r)
<1>t. event \in [Events -> EventStatus] /\ replay \in [Replays -> ReplayStatus]
  BY DEF TypeOK
<1>1. ASSUME NEW e \in Events, event'[e] = "SENT"
      PROVE  event[e] = "SENT" \/ (h[w].pc = "markSent" /\ EventOf[h[w].job] = e)
  <2>1. CASE UNCHANGED event
    BY <1>1, <2>1
  <2>2. ASSUME NEW s \in {"CANCELED", "FAILED"}, SetEvent(w, s) PROVE event[e] = "SENT"
    BY <1>t, <1>1, <2>2 DEF SetEvent
  <2>3. CASE MarkSent(w)
    BY <1>t, <1>1, <2>3 DEF MarkSent, SetEvent, At
  <2> QED
    BY <1>1, <2>1, <2>2, <2>3 DEF Quiet, StartReplay, Load, CancelEvent, GiveUpReplay, CompleteReplay,
      MarkFailed, FailReplay, DbError
<1>2. ASSUME NEW r \in Replays, replay'[r] = "COMPLETED"
      PROVE  replay[r] = "COMPLETED" \/ (h[w].pc = "completeReplay" /\ h[w].job = r)
  <2>1. CASE UNCHANGED replay
    BY <1>2, <2>1
  <2>2. ASSUME NEW s \in {"PROCESSING", "FAILED"}, SetReplay(w, s) PROVE replay[r] = "COMPLETED"
    BY <1>t, <1>2, <2>2 DEF SetReplay
  <2>3. CASE CompleteReplay(w)
    BY <1>t, <1>2, <2>3 DEF CompleteReplay, SetReplay, At
  <2> QED
    BY <1>2, <2>1, <2>2, <2>3 DEF Quiet, StartReplay, Load, CancelEvent, GiveUpReplay, MarkSent,
      MarkFailed, FailReplay, DbError
<1> QED
  BY <1>1, <1>2

LEMMA WitnessStep == WitnessInv /\ [Next]_vars => WitnessInv'
<1> SUFFICES ASSUME WitnessInv, [Next]_vars PROVE WitnessHolds'
  BY RowsStep DEF WitnessInv
<1>t. RowsInv /\ TypeOK
  BY DEF WitnessInv, RowsInv
<1>0. CASE UNCHANGED vars
  <2>1. \A e : Delivered(e)' = Delivered(e)
    BY <1>0 DEF Delivered, vars
  <2> QED
    BY <1>0, <2>1 DEF WitnessInv, WitnessHolds, vars
<1>1. CASE Outside
  <2>1. UNCHANGED <<h, telegram>>
    BY <1>1, OutsideMoves
  <2>2. \A e : Delivered(e)' = Delivered(e)
    BY <2>1 DEF Delivered
  <2>3. \A e \in Events : event'[e] = "SENT" => Delivered(e)'
    BY <1>t, <1>1, <2>2, OutsideReports DEF WitnessInv, WitnessHolds
  <2>4. \A j \in Jobs : caller'[j].prev = "SENT" => Delivered(EventOf[j])'
    BY <1>t, <1>1, <2>2, OutsideReports, ConstantsAssumption DEF WitnessInv, WitnessHolds
  <2>5. \A r \in Replays : replay'[r] = "COMPLETED" => telegram'[r] > 0
    BY <1>t, <1>1, <2>1, OutsideReports DEF WitnessInv, WitnessHolds
  <2> QED
    BY <2>1, <2>3, <2>4, <2>5 DEF WitnessInv, WitnessHolds
<1>2. ASSUME NEW w \in Workers, Quiet(w) PROVE WitnessHolds'
  <2>1. PICK p : Goto(w, p) /\ p \notin {"sent", "markSent"} /\ (p = "completeReplay" => h[w].pc = "markSent")
    BY <1>2, QuietMoves
  <2>2. UNCHANGED <<caller, telegram>>
    BY <1>2, QuietMoves
  <2>3. h[w].pc \in {"markSent", "completeReplay"} => h[w].job \in Jobs /\ telegram'[h[w].job] > 0
    BY <2>2 DEF WitnessInv, WitnessHolds
  <2>4. \A e \in Events : event'[e] = "SENT" => event[e] = "SENT" \/ Delivered(e)'
    BY <1>t, <1>2, <2>3, QuietReports DEF Delivered
  <2>5. \A r \in Replays : replay'[r] = "COMPLETED" => replay[r] = "COMPLETED" \/ telegram'[r] > 0
    BY <1>t, <1>2, <2>3, QuietReports
  <2> QED
    BY <2>1, <2>2, <2>3, <2>4, <2>5, SlotKeepsWitness DEF Goto, Claim
<1>3. ASSUME NEW w \in Workers, Ends(w) PROVE WitnessHolds'
  BY <1>3, EndMoves, SlotKeepsWitness
<1>4. ASSUME NEW w \in Workers, NEW j \in Jobs, StartJob(w, j) PROVE WitnessHolds'
  <2>1. PICK p : SetHandler(w, p, j, job[j].attempts + 1, 0) /\ p \in {"start", "load"}
    BY <1>4 DEF StartJob
  <2>2. UNCHANGED <<event, replay, caller>>
    BY <1>4 DEF StartJob
  <2> QED
    BY <2>1, <2>2, SlotKeepsWitness
<1>5. ASSUME NEW w \in Workers, CreateAttempt(w) \/ RecordFailed(w) PROVE WitnessHolds'
  <2>1. PICK p, c : Claim(w, p, c) /\ p \in {"deliver", "markFailed", "throw"}
    BY <1>5 DEF CreateAttempt, RecordFailed, Goto
  <2>2. UNCHANGED <<event, replay, caller>>
    BY <1>5 DEF CreateAttempt, RecordFailed
  <2> QED
    BY <2>1, <2>2, SlotKeepsWitness DEF Claim
<1>6. ASSUME NEW w \in Workers, Deliver(w) PROVE WitnessHolds'
  <2>1. PICK p \in {"sent", "failed"}, n \in 0..1 :
       /\ Claim(w, p, h[w].claimed)
       /\ p = "sent" => n = 1
       /\ Receive(w, n)
    BY <1>6 DEF Deliver, Goto
  <2>2. h[w].job \in Jobs /\ UNCHANGED <<event, replay, caller>>
    BY <1>6 DEF Deliver, At
  <2>3. telegram[h[w].job] \in Nat /\ telegram'[h[w].job] = telegram[h[w].job] + n
    BY <1>t, <2>1, <2>2 DEF Receive, TypeOK
  <2>4. p = "sent" => telegram'[h[w].job] > 0
    BY <2>1, <2>3
  <2> QED
    BY <2>1, <2>2, <2>4, SlotKeepsWitness DEF Claim
<1>7. ASSUME NEW w \in Workers, RecordSent(w) PROVE WitnessHolds'
  <2>1. Claim(w, "markSent", 1) /\ h[w].pc = "sent" /\ UNCHANGED <<event, replay, caller, telegram>>
    BY <1>7 DEF RecordSent, At
  <2>2. h[w].job \in Jobs /\ telegram'[h[w].job] > 0
    BY <2>1 DEF WitnessInv, WitnessHolds
  <2> QED
    BY <2>1, <2>2, SlotKeepsWitness DEF Claim
<1> QED
  BY <1>0, <1>1, <1>2, <1>3, <1>4, <1>5, <1>6, <1>7, Kinds

LEMMA WitnessInit == Init => WitnessInv
<1> SUFFICES ASSUME Init PROVE WitnessHolds
  BY RowsInit DEF WitnessInv
<1> QED
  BY DEF Init, Idle, WitnessHolds

(* An event reported SENT has a message that went out.                     *)
THEOREM SentWasDelivered == Spec => []SentMeansDelivered
<1>1. WitnessInv => SentMeansDelivered
  BY DEF WitnessInv, WitnessHolds, SentMeansDelivered, Delivered, JobsOf
<1> QED
  BY <1>1, WitnessInit, WitnessStep, PTL DEF Spec

(* A replay reported COMPLETED sent a message of its own.                  *)
THEOREM ReplayWasResent == Spec => []ReplayMeansResent
<1>1. WitnessInv => ReplayMeansResent
  BY DEF WitnessInv, WitnessHolds, ReplayMeansResent
<1> QED
  BY <1>1, WitnessInit, WitnessStep, PTL DEF Spec

(* What is reported of events and of replays is true.                      *)
THEOREM ReportsWereTrue == Spec => []ReportsAreTrue
<1>1. SentMeansDelivered /\ ReplayMeansResent => ReportsAreTrue
  BY DEF ReportsAreTrue
<1> QED
  BY <1>1, SentWasDelivered, ReplayWasResent, PTL
-----------------------------------------------------------------------------
(* What is sent after a pause.                                             *)

(* A slot may only come to a send from the check of the deployment.        *)
LEMMA SlotKeepsPause ==
  ASSUME PauseInv, NEW w \in Workers, NEW p, NEW k, NEW n, NEW c \in 0..1, SetHandler(w, p, k, n, c),
         UNCHANGED <<active, late>>,
         p \in {"attempt", "deliver"} => active \/ h[w].pc \in {"attempt", "deliver"}
  PROVE  PauseHolds'
<1>t. TypeOK /\ PauseHolds
  BY DEF PauseInv, RowsInv
<1>1. late \in Nat
  BY <1>t DEF TypeOK
<1>2. /\ Cardinality(Passed) \in Nat
      /\ Cardinality(Passed') = Cardinality(Passed)
           + (IF p \in {"attempt", "deliver"} THEN 1 ELSE 0)
           - (IF h[w].pc \in {"attempt", "deliver"} THEN 1 ELSE 0)
  BY <1>t, PassedMove
<1>3. Cardinality(Workers) \in Nat
  BY CountsNat
<1>4. ~active => Cardinality(Passed') \in Int /\ Cardinality(Passed') <= Cardinality(Passed)
  BY <1>2
<1>5. ~active => late + Cardinality(Passed') <= Cardinality(Workers)
  BY <1>t, <1>1, <1>2, <1>3, <1>4 DEF PauseHolds
<1> QED
  BY <1>t, <1>5 DEF PauseHolds

LEMMA PauseStep == PauseInv /\ [Next]_vars => PauseInv'
<1> SUFFICES ASSUME PauseInv, [Next]_vars PROVE PauseHolds'
  BY RowsStep DEF PauseInv
<1>t. TypeOK /\ PauseHolds
  BY DEF PauseInv, RowsInv
<1>n. /\ late \in Nat /\ Cardinality(Workers) \in Nat
      /\ Cardinality(Passed) \in Nat /\ Cardinality(Passed) <= Cardinality(Workers)
  BY <1>t, CountsNat DEF TypeOK
<1>0. CASE Outside \/ UNCHANGED vars
  <2>1. UNCHANGED h
    BY <1>0, OutsideMoves DEF vars
  <2>2. Passed' = Passed
    BY <2>1 DEF Passed
  <2>3. CASE EnableDeployment
    BY <2>3 DEF EnableDeployment, PauseHolds
  <2>4. CASE PauseDeployment
    <3>1. ~active' /\ late' = late
      BY <2>4 DEF PauseDeployment, Deliveries
    <3>2. late + Cardinality(Passed) <= Cardinality(Workers)
      BY <1>t, <1>n DEF PauseHolds
    <3> QED
      BY <2>2, <3>1, <3>2 DEF PauseHolds
  <2>5. CASE UNCHANGED <<active, late>>
    BY <1>t, <2>2, <2>5 DEF PauseHolds
  <2> QED
    BY <1>0, <2>3, <2>4, <2>5 DEF vars, Outside, Capture, FindDeployment, CreateEvent, ReadEvent, Replay,
      CreateReplay, MarkReady, MarkReplayFailed, Caller, Enqueue, UndoEnqueue, CallerAborts,
      RecoverStalled, Deliveries
<1>1. ASSUME NEW w \in Workers, Quiet(w) PROVE PauseHolds'
  <2>1. PICK p : Goto(w, p) /\ p # "deliver" /\ (p = "attempt" => active)
    BY <1>1, QuietMoves
  <2>2. UNCHANGED <<active, late>> /\ h[w].claimed \in 0..1
    BY <1>1, <1>t, QuietMoves DEF TypeOK, HandlerState
  <2> QED
    BY <2>1, <2>2, SlotKeepsPause DEF Goto, Claim
<1>2. ASSUME NEW w \in Workers, Ends(w) PROVE PauseHolds'
  BY <1>2, EndMoves, SlotKeepsPause
<1>3. ASSUME NEW w \in Workers, NEW j \in Jobs, StartJob(w, j) PROVE PauseHolds'
  <2>1. PICK p : SetHandler(w, p, j, job[j].attempts + 1, 0) /\ p \in {"start", "load"}
    BY <1>3 DEF StartJob
  <2>2. UNCHANGED <<active, late>>
    BY <1>3 DEF StartJob, Deliveries
  <2> QED
    BY <2>1, <2>2, SlotKeepsPause
<1>4. ASSUME NEW w \in Workers, CreateAttempt(w) \/ RecordSent(w) \/ RecordFailed(w) PROVE PauseHolds'
  <2>1. PICK p, c : /\ Claim(w, p, c) /\ c \in 0..1
                    /\ p \in {"attempt", "deliver"} => h[w].pc = "attempt"
    BY <1>4, <1>t DEF CreateAttempt, RecordSent, RecordFailed, Goto, At, TypeOK, HandlerState
  <2>2. UNCHANGED <<active, late>>
    BY <1>4 DEF CreateAttempt, RecordSent, RecordFailed
  <2> QED
    BY <2>1, <2>2, SlotKeepsPause DEF Claim
<1>5. ASSUME NEW w \in Workers, Deliver(w) PROVE PauseHolds'
  <2>1. PICK p \in {"sent", "failed"}, n \in 0..1 : Claim(w, p, h[w].claimed) /\ Receive(w, n)
    BY <1>5 DEF Deliver, Goto
  <2>2. h[w].claimed \in 0..1 /\ h[w].pc = "deliver" /\ UNCHANGED active
    BY <1>5, <1>t DEF Deliver, At, TypeOK, HandlerState
  <2>3. SetHandler(w, p, h[w].job, h[w].attempt, h[w].claimed)
    BY <2>1 DEF Claim
  <2>4. /\ Cardinality(Passed') = Cardinality(Passed)
             + (IF p \in {"attempt", "deliver"} THEN 1 ELSE 0)
             - (IF h[w].pc \in {"attempt", "deliver"} THEN 1 ELSE 0)
    BY <1>t, <2>2, <2>3, PassedMove
  <2>5. Cardinality(Passed') = Cardinality(Passed) - 1
    BY <1>n, <2>2, <2>4
  <2>6. late' = IF active THEN late ELSE late + n
    BY <2>1 DEF Receive
  <2> QED
    BY <1>t, <1>n, <2>2, <2>5, <2>6 DEF PauseHolds
<1> QED
  BY <1>0, <1>1, <1>2, <1>3, <1>4, <1>5, Kinds

LEMMA PauseInit == Init => PauseInv
<1> SUFFICES ASSUME Init PROVE PauseHolds
  BY RowsInit DEF PauseInv
<1>1. active = FALSE /\ late = 0
  BY DEF Init
<1> QED
  BY <1>1, CountsNat DEF PauseHolds

(* After a pause at most one message per slot still goes out.              *)
THEOREM PauseIsBounded == Spec => []PauseBound
<1>1. PauseInv => PauseBound
  <2> SUFFICES ASSUME PauseInv PROVE late <= Cardinality(Workers)
    BY DEF PauseBound
  <2>1. late \in Nat /\ Cardinality(Workers) \in Nat /\ Cardinality(Passed) \in Nat
    BY CountsNat DEF PauseInv, RowsInv, TypeOK
  <2> QED
    BY <2>1 DEF PauseInv, PauseHolds
<1> QED
  BY <1>1, PauseInit, PauseStep, PTL DEF Spec
-----------------------------------------------------------------------------
(* How many messages a job sends.                                          *)

(* The step of a slot that sends m messages, for one job.                  *)
LEMMA SlotSpends ==
  ASSUME BudgetInv, NEW w \in Workers, NEW p, NEW k, NEW n, NEW c \in 0..1, SetHandler(w, p, k, n, c),
         k \in {h[w].job, NoJob}, NEW m \in 0..1, NEW j \in Jobs,
         telegram'[j] = telegram[j] + (IF h[w].job = j THEN m ELSE 0),
         m = 1 => h[w].pc = "deliver" /\ p \notin BeforeDeliver,
         p \in BeforeDeliver => h[w].pc \in BeforeDeliver
  PROVE  /\ job[j].state = "absent" => telegram'[j] = 0 /\ \A v \in Workers : h'[v].job # j
         /\ telegram'[j] \in Nat /\ Cardinality(Handlers(j, BeforeDeliver)') \in Int
         /\ telegram'[j] + Cardinality(Handlers(j, BeforeDeliver)')
              <= telegram[j] + Cardinality(Handlers(j, BeforeDeliver))
<1>t. TypeOK /\ BudgetOf(j)
  BY DEF BudgetInv, BudgetHolds, RowsInv
<1>1. telegram[j] \in Nat
  BY <1>t DEF TypeOK
<1>2. /\ Cardinality(Handlers(j, BeforeDeliver)) \in Nat
      /\ Cardinality(Handlers(j, BeforeDeliver)') = Cardinality(Handlers(j, BeforeDeliver))
           + (IF k = j /\ p \in BeforeDeliver THEN 1 ELSE 0)
           - (IF h[w].job = j /\ h[w].pc \in BeforeDeliver THEN 1 ELSE 0)
  BY <1>t, HandlersMove
<1>3. NoJob # j /\ (k = j => h[w].job = j)
  BY ConstantsAssumption
<1>4. m = 1 => h[w].pc \in BeforeDeliver
  BY DEF BeforeDeliver
<1>5. ASSUME job[j].state = "absent" PROVE telegram'[j] = 0 /\ \A v \in Workers : h'[v].job # j
  <2>1. telegram[j] = 0 /\ \A v \in Workers : h[v].job # j
    BY <1>t, <1>5 DEF BudgetOf
  <2>2. ASSUME NEW v \in Workers PROVE h'[v].job # j
    <3>1. CASE v # w
      BY <1>t, <2>1, <3>1, SlotMove
    <3>2. CASE v = w
      <4>1. h'[w] = [pc |-> p, job |-> k, attempt |-> n, claimed |-> c]
        BY <1>t, SlotMove
      <4> QED
        BY <1>3, <2>1, <3>2, <4>1
    <3> QED
      BY <3>1, <3>2
  <2> QED
    BY <2>1, <2>2
<1>6. telegram'[j] \in Nat /\ Cardinality(Handlers(j, BeforeDeliver)') \in Int
  BY <1>1, <1>2
<1>7. telegram'[j] + Cardinality(Handlers(j, BeforeDeliver)')
        <= telegram[j] + Cardinality(Handlers(j, BeforeDeliver))
  <2> DEFINE a == Cardinality(Handlers(j, BeforeDeliver))
             b == Cardinality(Handlers(j, BeforeDeliver)')
  <2>1. CASE h[w].job # j
    <3>1. b = a /\ telegram'[j] = telegram[j]
      BY <1>1, <1>2, <1>3, <2>1
    <3> QED
      BY <3>1, <1>1, <1>2
  <2>2. CASE h[w].job = j /\ m = 1
    <3>1. b = a - 1 /\ telegram'[j] = telegram[j] + 1
      BY <1>1, <1>2, <1>4, <2>2
    <3> QED
      BY <3>1, <1>1, <1>2
  <2>3. CASE h[w].job = j /\ m = 0
    <3>1. b \in Int /\ b <= a /\ telegram'[j] = telegram[j]
      BY <1>1, <1>2, <2>3
    <3> QED
      BY <3>1, <1>1, <1>2
  <2> QED
    BY <2>1, <2>2, <2>3
<1> QED
  BY <1>5, <1>6, <1>7

(* Such a step keeps the budget of a job that the queue does not touch.    *)
LEMMA BudgetKept ==
  ASSUME BudgetInv, NEW j \in Jobs, caller'[j].pc \notin Added => caller[j].pc \notin Added,
         job'[j] = job[j],
         job[j].state = "absent" => telegram'[j] = 0 /\ \A v \in Workers : h'[v].job # j,
         telegram'[j] \in Nat, Cardinality(Handlers(j, BeforeDeliver)') \in Int,
         telegram'[j] + Cardinality(Handlers(j, BeforeDeliver)')
              <= telegram[j] + Cardinality(Handlers(j, BeforeDeliver))
  PROVE  BudgetOf(j)'
<1>t. TypeOK /\ BudgetOf(j)
  BY DEF BudgetInv, BudgetHolds, RowsInv
<1>1. telegram[j] \in Nat /\ Cardinality(Handlers(j, BeforeDeliver)) \in Nat
  BY <1>t, CountsNat DEF TypeOK
<1>2. job[j] \in JobRow
  BY <1>t DEF TypeOK
<1>3. Runs(j) \in Nat /\ Runs(j)' = Runs(j)
  BY <1>2, ConstantsAssumption DEF Runs, JobRow
<1>4. telegram[j] + Cardinality(Handlers(j, BeforeDeliver)) <= Runs(j)
  BY <1>t DEF BudgetOf
<1>5. telegram'[j] + Cardinality(Handlers(j, BeforeDeliver)') <= Runs(j)'
  BY <1>1, <1>3, <1>4
<1> QED
  BY <1>t, <1>5 DEF BudgetOf

(* A step of the queue that ends or repeats the active run of a job.       *)
LEMMA BudgetPassedOn ==
  ASSUME BudgetInv, NEW j \in Jobs, caller'[j].pc \notin Added => caller[j].pc \notin Added,
         job[j].state = "active",
         \/ job'[j] \in JobRow /\ job'[j].state \in {"completed", "failed"}
              /\ job'[j].attempts = 0 /\ job'[j].stalls = 0 /\ job'[j].holder = NoWorker
         \/ job'[j] \in JobRow /\ job'[j].state = "waiting" /\ job'[j].holder = NoWorker
              /\ job'[j].attempts + job'[j].stalls = job[j].attempts + job[j].stalls + 1
              /\ job'[j].attempts < MaxAttempts /\ job'[j].stalls <= MaxStalled,
         telegram'[j] \in Nat, Cardinality(Handlers(j, BeforeDeliver)') \in Int,
         telegram'[j] + Cardinality(Handlers(j, BeforeDeliver)')
              <= telegram[j] + Cardinality(Handlers(j, BeforeDeliver))
  PROVE  BudgetOf(j)'
<1>t. TypeOK /\ BudgetOf(j)
  BY DEF BudgetInv, BudgetHolds, RowsInv
<1>1. telegram[j] \in Nat /\ Cardinality(Handlers(j, BeforeDeliver)) \in Nat
  BY <1>t, CountsNat DEF TypeOK
<1>2. /\ job[j].attempts \in Nat /\ job[j].stalls \in Nat
      /\ job[j].attempts < MaxAttempts /\ job[j].stalls <= MaxStalled
      /\ MaxAttempts \in Nat /\ MaxStalled \in Nat
  BY <1>t, ConstantsAssumption DEF TypeOK, JobRow, BudgetOf
<1>3. telegram[j] + Cardinality(Handlers(j, BeforeDeliver)) <= job[j].attempts + job[j].stalls + 1
  BY <1>t DEF BudgetOf, Runs
<1>4. job'[j].attempts \in Nat /\ job'[j].stalls \in Nat
  BY DEF JobRow
<1>5. Runs(j)' \in Nat /\ job[j].attempts + job[j].stalls + 1 <= Runs(j)'
  BY <1>2, <1>4 DEF Runs
<1>6. telegram'[j] + Cardinality(Handlers(j, BeforeDeliver)') <= Runs(j)'
  BY <1>1, <1>2, <1>3, <1>5
<1>7. job'[j].attempts < MaxAttempts /\ job'[j].stalls <= MaxStalled
  BY <1>2, ConstantsAssumption
<1>8. caller'[j].pc \in Added
  BY <1>t DEF BudgetOf
<1> QED
  BY <1>6, <1>7, <1>8 DEF BudgetOf

(* No caller returns to a point before its job was added.                  *)
LEMMA AddedStays ==
  ASSUME TypeOK, Outside, NEW j \in Jobs, caller'[j].pc \notin Added PROVE caller[j].pc \notin Added
<1>1. ASSUME NEW k \in Jobs, NEW p, NEW s, SetCaller(k, p, s), p \in Added \/ caller[k].pc \notin Added
      PROVE  caller[j].pc \notin Added
  BY <1>1 DEF TypeOK, SetCaller
<1>2. CASE UNCHANGED caller
  BY <1>2
<1>3. ASSUME NEW e \in Events, Capture(e) PROVE caller[j].pc \notin Added
  BY <1>1, <1>3 DEF Capture, FindDeployment, CreateEvent, Jobs, Added
<1>4. ASSUME NEW r \in Replays, ReadEvent(r) \/ Replay(r) PROVE caller[j].pc \notin Added
  <2>1. r \in Jobs
    BY DEF Jobs
  <2> QED
    BY <1>1, <1>4, <2>1 DEF ReadEvent, Replay, CreateReplay, MarkReady, MarkReplayFailed, Added
<1>5. ASSUME NEW k \in Jobs, Caller(k) \/ CallerAborts(k) PROVE caller[j].pc \notin Added
  BY <1>1, <1>5 DEF Caller, Enqueue, UndoEnqueue, CallerAborts, Added
<1> QED
  BY <1>2, <1>3, <1>4, <1>5 DEF Outside, EnableDeployment, PauseDeployment, RecoverStalled

(* What else than Enqueue and RecoverStalled leaves the queue alone.       *)
LEMMA QueueAlone ==
  ASSUME Outside
  PROVE  UNCHANGED job \/ \E j \in Jobs : Enqueue(j) \/ RecoverStalled(j)
BY DEF Outside, EnableDeployment, PauseDeployment, Capture, FindDeployment, CreateEvent, ReadEvent, Replay,
  CreateReplay, MarkReady, MarkReplayFailed, Caller, UndoEnqueue, CallerAborts

LEMMA OutsideKeepsBudget == ASSUME BudgetInv, Outside PROVE BudgetHolds'
<1> SUFFICES ASSUME NEW j \in Jobs PROVE BudgetOf(j)'
  BY DEF BudgetHolds
<1>t. TypeOK /\ BudgetOf(j)
  BY DEF BudgetInv, BudgetHolds, RowsInv
<1>1. UNCHANGED <<h, telegram>>
  BY OutsideMoves
<1>2. /\ telegram[j] \in Nat /\ Cardinality(Handlers(j, BeforeDeliver)) \in Nat
  BY <1>t, CountsNat DEF TypeOK
<1>3. Cardinality(Handlers(j, BeforeDeliver)') = Cardinality(Handlers(j, BeforeDeliver))
  BY <1>1 DEF Handlers
<1>4. job[j].state = "absent" => telegram'[j] = 0 /\ \A v \in Workers : h'[v].job # j
  BY <1>t, <1>1 DEF BudgetOf
<1>5. caller'[j].pc \notin Added => caller[j].pc \notin Added
  BY <1>t, AddedStays
<1>6. ASSUME job'[j] = job[j] PROVE BudgetOf(j)'
  BY <1>1, <1>2, <1>3, <1>4, <1>5, <1>6, BudgetKept
<1>7. ASSUME NEW k \in Jobs, k # j, NEW s, NEW n, NEW w, NEW m, SetJob(k, s, n, w, m) PROVE BudgetOf(j)'
  BY <1>t, <1>6, <1>7 DEF TypeOK, SetJob
<1>8. ASSUME Enqueue(j), AddJob(j) PROVE BudgetOf(j)'
  <2>1. job'[j] = [state |-> "waiting", attempts |-> 0, holder |-> NoWorker, stalls |-> 0]
    BY <1>t, <1>8 DEF AddJob, SetJob, TypeOK
  <2>2. caller'[j].pc \in Added
    BY <1>t, <1>8 DEF Enqueue, SetCaller, TypeOK, Added
  <2>3. telegram[j] = 0 /\ \A w \in Workers : h[w].job # j
    BY <1>t, <1>8 DEF Enqueue, BudgetOf, Added
  <2>4. Handlers(j, BeforeDeliver)' = {}
    BY <1>1, <2>3 DEF Handlers
  <2>5. telegram'[j] = 0 /\ Cardinality(Handlers(j, BeforeDeliver)') = 0
    BY <1>1, <2>3, <2>4, FS_EmptySet
  <2>6. Runs(j)' = 0
    BY <2>1 DEF Runs
  <2> QED
    BY <2>1, <2>2, <2>5, <2>6, ConstantsAssumption DEF BudgetOf
<1>9. ASSUME RecoverStalled(j) PROVE BudgetOf(j)'
  <2>1. job[j] \in JobRow
    BY <1>t DEF TypeOK
  <2>2. CASE job[j].stalls < MaxStalled /\ SetJob(j, "waiting", job[j].attempts, NoWorker, job[j].stalls + 1)
    <3>1. job'[j] = [state |-> "waiting", attempts |-> job[j].attempts, holder |-> NoWorker,
                     stalls |-> job[j].stalls + 1]
      BY <1>t, <2>2 DEF SetJob, TypeOK
    <3>2. /\ job'[j] \in JobRow /\ job'[j].state = "waiting" /\ job'[j].holder = NoWorker
          /\ job'[j].attempts + job'[j].stalls = job[j].attempts + job[j].stalls + 1
          /\ job'[j].attempts < MaxAttempts /\ job'[j].stalls <= MaxStalled
      BY <1>t, <2>1, <2>2, <3>1, ConstantsAssumption DEF JobRow, JobState, BudgetOf
    <3> QED
      BY <1>1, <1>2, <1>3, <1>5, <1>9, <3>2, BudgetPassedOn DEF RecoverStalled
  <2>3. CASE EndJob(j, "failed")
    <3>1. job'[j] = [state |-> "failed", attempts |-> 0, holder |-> NoWorker, stalls |-> 0]
      BY <1>t, <2>3 DEF EndJob, SetJob, TypeOK
    <3>2. job'[j] \in JobRow
      BY <3>1 DEF JobRow, JobState
    <3> QED
      BY <1>1, <1>2, <1>3, <1>5, <1>9, <3>1, <3>2, BudgetPassedOn DEF RecoverStalled
  <2> QED
    BY <1>9, <2>2, <2>3 DEF RecoverStalled
<1> QED
  BY <1>6, <1>7, <1>8, <1>9, QueueAlone DEF Enqueue, RecoverStalled, AddJob, EndJob

(* A slot goes on without the queue.                                       *)
LEMMA SlotKeepsBudget ==
  ASSUME BudgetInv, NEW w \in Workers, NEW p, NEW k, NEW n, NEW c \in 0..1, SetHandler(w, p, k, n, c),
         k \in {h[w].job, NoJob}, NEW m \in 0..1,
         \A j \in Jobs : telegram'[j] = telegram[j] + (IF h[w].job = j THEN m ELSE 0),
         m = 1 => h[w].pc = "deliver" /\ p \notin BeforeDeliver,
         p \in BeforeDeliver => h[w].pc \in BeforeDeliver,
         UNCHANGED <<caller, job>>
  PROVE  BudgetHolds'
<1> SUFFICES ASSUME NEW j \in Jobs PROVE BudgetOf(j)'
  BY DEF BudgetHolds
<1>1. /\ job[j].state = "absent" => telegram'[j] = 0 /\ \A v \in Workers : h'[v].job # j
      /\ telegram'[j] \in Nat /\ Cardinality(Handlers(j, BeforeDeliver)') \in Int
      /\ telegram'[j] + Cardinality(Handlers(j, BeforeDeliver)')
           <= telegram[j] + Cardinality(Handlers(j, BeforeDeliver))
  BY SlotSpends
<1> QED
  BY <1>1, BudgetKept

LEMMA BudgetStep == BudgetInv /\ [Next]_vars => BudgetInv'
<1> SUFFICES ASSUME BudgetInv, [Next]_vars PROVE BudgetHolds'
  BY RowsStep DEF BudgetInv
<1>t. TypeOK /\ \A j \in Jobs : telegram[j] \in Nat
  BY DEF BudgetInv, RowsInv, TypeOK
<1>0. CASE UNCHANGED vars
  <2>1. \A j, P : Handlers(j, P)' = Handlers(j, P)
    BY <1>0 DEF Handlers, vars
  <2>2. \A j : Runs(j)' = Runs(j)
    BY <1>0 DEF Runs, vars
  <2> QED
    BY <1>0, <2>1, <2>2 DEF BudgetInv, BudgetHolds, BudgetOf, vars
<1>1. ASSUME NEW w \in Workers, Quiet(w) PROVE BudgetHolds'
  <2>1. PICK p : /\ Goto(w, p)
                 /\ p \in BeforeDeliver => h[w].pc \in BeforeDeliver
    BY <1>1, QuietMoves DEF BeforeDeliver
  <2>2. UNCHANGED <<caller, job, telegram>> /\ h[w].claimed \in 0..1
    BY <1>1, <1>t, QuietMoves DEF TypeOK, HandlerState
  <2>3. \A j \in Jobs : telegram'[j] = telegram[j] + (IF h[w].job = j THEN 0 ELSE 0)
    BY <1>t, <2>2
  <2> QED
    BY <2>1, <2>2, <2>3, SlotKeepsBudget DEF Goto, Claim
<1>2. ASSUME NEW w \in Workers, CreateAttempt(w) \/ RecordSent(w) \/ RecordFailed(w) PROVE BudgetHolds'
  <2>1. PICK p, c : /\ Claim(w, p, c) /\ c \in 0..1
                    /\ p \in BeforeDeliver => h[w].pc \in BeforeDeliver
    BY <1>2, <1>t DEF CreateAttempt, RecordSent, RecordFailed, Goto, At, TypeOK, HandlerState, BeforeDeliver
  <2>2. UNCHANGED <<caller, job, telegram>>
    BY <1>2 DEF CreateAttempt, RecordSent, RecordFailed
  <2>3. \A j \in Jobs : telegram'[j] = telegram[j] + (IF h[w].job = j THEN 0 ELSE 0)
    BY <1>t, <2>2
  <2> QED
    BY <2>1, <2>2, <2>3, SlotKeepsBudget DEF Claim
<1>3. ASSUME NEW w \in Workers, Deliver(w) PROVE BudgetHolds'
  <2>1. PICK p \in {"sent", "failed"}, n \in 0..1 : Claim(w, p, h[w].claimed) /\ Receive(w, n)
    BY <1>3 DEF Deliver, Goto
  <2>2. h[w].claimed \in 0..1 /\ h[w].pc = "deliver" /\ UNCHANGED <<caller, job>>
    BY <1>3, <1>t DEF Deliver, At, TypeOK, HandlerState
  <2>3. \A j \in Jobs : telegram'[j] = telegram[j] + (IF h[w].job = j THEN n ELSE 0)
    BY <1>t, <2>1 DEF Receive, TypeOK
  <2>4. p \notin BeforeDeliver
    BY DEF BeforeDeliver
  <2> QED
    BY <2>1, <2>2, <2>3, <2>4, SlotKeepsBudget DEF Claim
<1>4. ASSUME NEW w \in Workers, Ends(w) PROVE BudgetHolds'
  <2>1. SetHandler(w, "idle", NoJob, 0, 0) /\ UNCHANGED <<caller, telegram>>
    BY <1>4, EndMoves
  <2>2. \A j \in Jobs : telegram'[j] = telegram[j] + (IF h[w].job = j THEN 0 ELSE 0)
    BY <1>t, <2>1
  <2>3. "idle" \notin BeforeDeliver
    BY DEF BeforeDeliver
  <2> SUFFICES ASSUME NEW j \in Jobs PROVE BudgetOf(j)'
    BY DEF BudgetHolds
  <2>4. /\ job[j].state = "absent" => telegram'[j] = 0 /\ \A v \in Workers : h'[v].job # j
        /\ telegram'[j] \in Nat /\ Cardinality(Handlers(j, BeforeDeliver)') \in Int
        /\ telegram'[j] + Cardinality(Handlers(j, BeforeDeliver)')
             <= telegram[j] + Cardinality(Handlers(j, BeforeDeliver))
    BY <2>1, <2>2, <2>3, SlotSpends
  <2>5. CASE job'[j] = job[j]
    BY <2>1, <2>4, <2>5, BudgetKept
  <2>6. ASSUME job[j].holder = w, EndJob(j, "completed") \/ EndJob(j, "failed") PROVE BudgetOf(j)'
    <3>1. PICK s \in {"completed", "failed"} :
            job'[j] = [state |-> s, attempts |-> 0, holder |-> NoWorker, stalls |-> 0]
      BY <1>t, <2>6 DEF EndJob, SetJob, TypeOK
    <3>2. job'[j] \in JobRow
      BY <3>1 DEF JobRow, JobState
    <3>3. job[j].state = "active"
      BY <2>6, ConstantsAssumption DEF BudgetInv, BudgetHolds, BudgetOf
    <3> QED
      BY <2>1, <2>4, <3>1, <3>2, <3>3, BudgetPassedOn
  <2>7. ASSUME job[j].holder = w, job[j].attempts + 1 < MaxAttempts,
               SetJob(j, "waiting", job[j].attempts + 1, NoWorker, job[j].stalls)
        PROVE  BudgetOf(j)'
    <3>1. job'[j] = [state |-> "waiting", attempts |-> job[j].attempts + 1, holder |-> NoWorker,
                     stalls |-> job[j].stalls]
      BY <1>t, <2>7 DEF SetJob, TypeOK
    <3>2. job[j] \in JobRow /\ job[j].state = "active" /\ job[j].stalls <= MaxStalled
      BY <1>t, <2>7, ConstantsAssumption DEF BudgetInv, BudgetHolds, BudgetOf, TypeOK
    <3>3. /\ job'[j] \in JobRow /\ job'[j].state = "waiting" /\ job'[j].holder = NoWorker
          /\ job'[j].attempts + job'[j].stalls = job[j].attempts + job[j].stalls + 1
          /\ job'[j].attempts < MaxAttempts /\ job'[j].stalls <= MaxStalled
      BY <2>7, <3>1, <3>2 DEF JobRow, JobState
    <3> QED
      BY <2>1, <2>4, <3>2, <3>3, BudgetPassedOn
  <2>8. \/ job'[j] = job[j]
        \/ job[j].holder = w /\ (EndJob(j, "completed") \/ EndJob(j, "failed"))
        \/ /\ job[j].holder = w /\ job[j].attempts + 1 < MaxAttempts
           /\ SetJob(j, "waiting", job[j].attempts + 1, NoWorker, job[j].stalls)
    <3>1. CASE WorkerCrash(w)
      BY <3>1 DEF WorkerCrash
    <3>2. CASE JobReturns(w)
      BY <1>t, <3>2 DEF JobReturns, EndJob, SetJob, TypeOK
    <3>3. CASE JobThrows(w)
      BY <1>t, <3>3 DEF JobThrows, EndJob, SetJob, TypeOK
    <3> QED
      BY <1>4, <3>1, <3>2, <3>3 DEF Ends
  <2> QED
    BY <2>5, <2>6, <2>7, <2>8
<1>5. ASSUME NEW w \in Workers, NEW k \in Jobs, StartJob(w, k) PROVE BudgetHolds'
  <2>1. PICK p : SetHandler(w, p, k, job[k].attempts + 1, 0) /\ p \in {"start", "load"}
    BY <1>5 DEF StartJob
  <2>2. UNCHANGED <<caller, telegram>> /\ h[w].job = NoJob /\ h[w].pc = "idle"
    BY <1>5 DEF StartJob, Deliveries, Idle
  <2>3. job'[k] = [state |-> "active", attempts |-> job[k].attempts, holder |-> w, stalls |-> job[k].stalls]
        /\ \A j \in Jobs \ {k} : job'[j] = job[j]
    BY <1>5, <1>t DEF StartJob, SetJob, TypeOK
  <2> SUFFICES ASSUME NEW j \in Jobs PROVE BudgetOf(j)'
    BY DEF BudgetHolds
  <2>4. /\ Cardinality(Handlers(j, BeforeDeliver)) \in Nat
        /\ Cardinality(Handlers(j, BeforeDeliver)') = Cardinality(Handlers(j, BeforeDeliver))
             + (IF k = j /\ p \in BeforeDeliver THEN 1 ELSE 0)
             - (IF h[w].job = j /\ h[w].pc \in BeforeDeliver THEN 1 ELSE 0)
    BY <1>t, <2>1, HandlersMove
  <2>5. h[w].job # j
    BY <2>2, ConstantsAssumption
  <2>6. CASE j # k
    <3>1. job'[j] = job[j]
      BY <2>3, <2>6
    <3>2. Cardinality(Handlers(j, BeforeDeliver)') = Cardinality(Handlers(j, BeforeDeliver))
      BY <2>4, <2>5, <2>6
    <3>3. job[j].state = "absent" => telegram'[j] = 0 /\ \A v \in Workers : h'[v].job # j
      <4>1. job[j].state = "absent" => telegram[j] = 0 /\ \A v \in Workers : h[v].job # j
        BY DEF BudgetInv, BudgetHolds, BudgetOf
      <4>2. /\ h'[w] = [pc |-> p, job |-> k, attempt |-> job[k].attempts + 1, claimed |-> 0]
            /\ \A v \in Workers \ {w} : h'[v] = h[v]
        BY <1>t, <2>1, SlotMove
      <4>3. h'[w].job = k
        BY <4>2
      <4> QED
        BY <2>2, <2>6, <4>1, <4>2, <4>3
    <3> QED
      BY <1>t, <2>2, <2>4, <3>1, <3>2, <3>3, BudgetKept
  <2>7. CASE j = k
    <3>1. BudgetOf(j) /\ job[j].state = "waiting"
      BY <1>5, <2>7 DEF StartJob, BudgetInv, BudgetHolds
    <3>2. job[j].attempts \in Nat /\ job[j].stalls \in Nat
      BY <1>t DEF TypeOK, JobRow
    <3>3. Cardinality(Handlers(j, BeforeDeliver)') = Cardinality(Handlers(j, BeforeDeliver)) + 1
      BY <2>1, <2>4, <2>5, <2>7 DEF BeforeDeliver
    <3>4. telegram[j] + Cardinality(Handlers(j, BeforeDeliver)) <= job[j].attempts + job[j].stalls
      BY <3>1, <3>2 DEF BudgetOf, Runs
    <3>5. Runs(j)' = job[j].attempts + job[j].stalls + 1
      BY <2>3, <2>7 DEF Runs
    <3>6. telegram'[j] + Cardinality(Handlers(j, BeforeDeliver)') <= Runs(j)'
      BY <1>t, <2>2, <2>4, <3>2, <3>3, <3>4, <3>5
    <3> QED
      BY <2>2, <2>3, <2>7, <3>1, <3>6 DEF BudgetOf
  <2> QED
    BY <2>6, <2>7
<1>6. CASE Outside
  BY <1>6, OutsideKeepsBudget
<1> QED
  BY <1>0, <1>1, <1>2, <1>3, <1>4, <1>5, <1>6, Kinds

LEMMA BudgetInit == Init => BudgetInv
<1> SUFFICES ASSUME Init, NEW j \in Jobs PROVE BudgetOf(j)
  BY RowsInit DEF BudgetInv, BudgetHolds
<1>1. Handlers(j, BeforeDeliver) = {}
  BY ConstantsAssumption DEF Init, Idle, Handlers
<1>2. telegram[j] = 0 /\ Cardinality(Handlers(j, BeforeDeliver)) = 0
  BY <1>1, FS_EmptySet DEF Init
<1>3. job[j] = [state |-> "absent", attempts |-> 0, holder |-> NoWorker, stalls |-> 0]
  BY DEF Init
<1>4. Runs(j) = 0
  BY <1>3 DEF Runs
<1>5. \A w \in Workers : h[w].job # j
  BY ConstantsAssumption DEF Init, Idle
<1> QED
  BY <1>2, <1>3, <1>4, <1>5, ConstantsAssumption DEF BudgetOf

(* The duplicates of a message are bounded by the attempts and stalls that *)
(* the queue grants its job.                                               *)
THEOREM DuplicatesAreBounded == Spec => []DuplicatesBounded
<1>1. BudgetInv => DuplicatesBounded
  <2> SUFFICES ASSUME BudgetInv, NEW j \in Jobs PROVE telegram[j] <= MaxAttempts + MaxStalled
    BY DEF DuplicatesBounded
  <2>1. TypeOK /\ BudgetOf(j)
    BY DEF BudgetInv, RowsInv, BudgetHolds
  <2>2. telegram[j] \in Nat /\ Cardinality(Handlers(j, BeforeDeliver)) \in Nat
    BY <2>1, CountsNat DEF TypeOK
  <2>3. job[j].attempts \in Nat /\ job[j].stalls \in Nat
    BY <2>1 DEF TypeOK, JobRow
  <2>4. Runs(j) \in Nat /\ Runs(j) <= MaxAttempts + MaxStalled
    BY <2>1, <2>3, ConstantsAssumption DEF Runs, BudgetOf
  <2> QED
    BY <2>1, <2>2, <2>4, ConstantsAssumption DEF BudgetOf
<1> QED
  BY <1>1, BudgetInit, BudgetStep, PTL DEF Spec
-----------------------------------------------------------------------------
(* No delivery is forgotten.                                               *)

(* Processes do not die, statements do not fail, live handlers keep their  *)
(* locks.                                                                  *)
Undisturbed == {"crash", "db", "stall"} \cap Faults = {}

(* Slot w runs job j and holds its lock.                                   *)
HeldBy(w, j) == job[j].state = "active" /\ job[j].holder = w /\ h[w].job = j

(* Job j waits in the queue, is at one of the points P, or is about to     *)
(* throw and be repeated.                                                  *)
InHand(j, P) ==
  \/ job[j].state = "waiting"
  \/ \E w \in Workers :
       HeldBy(w, j) /\ (h[w].pc \in P \/ (h[w].pc = "throw" /\ h[w].attempt < MaxAttempts))

(* Where a handler may still answer its replay, and decide on its event.   *)
Unanswered == PCs \ {"idle", "return", "throw"}
Undecided == Unanswered \ {"giveUp", "completeReplay", "failReplay"}

(* A replay without an answer is with its caller or its job is in hand.    *)
ReplaysAreHeld ==
  \A r \in Replays : replay[r] \in {"QUEUED", "PROCESSING"} =>
    caller[r].pc \in {"created", "enqueue", "undo", "unmark"} \/ InHand(r, Unanswered)

(* An event that is READY has a job in hand, or one about to be added.     *)
EventsAreHeld ==
  \A e \in Events : event[e] = "READY" =>
    \E j \in JobsOf(e) : caller[j].pc = "enqueue" \/ InHand(j, Undecided)

(* A slot at a job holds its lock and counts the queue's attempt; an       *)
(* active job has its slot.                                                *)
SlotHolds(w) ==
  h[w].job \in Jobs =>
    /\ HeldBy(w, h[w].job)
    /\ h[w].attempt = job[h[w].job].attempts + 1
    /\ h[w].pc # "idle"
LockHolds(j) == job[j].state = "active" => \E w \in Workers : HeldBy(w, j)

HeldParts == (\A w \in Workers : SlotHolds(w)) /\ (\A j \in Jobs : LockHolds(j))
HeldInv == BudgetInv /\ HeldParts

(* Where a slot is, is where its job is.                                   *)
LEMMA InHandIs ==
  ASSUME HeldInv, NEW w \in Workers, h[w].job \in Jobs, NEW P
  PROVE  InHand(h[w].job, P) <=> h[w].pc \in P \/ (h[w].pc = "throw" /\ h[w].attempt < MaxAttempts)
<1>1. HeldBy(w, h[w].job)
  BY DEF HeldInv, HeldParts, SlotHolds
<1>2. \A v \in Workers : HeldBy(v, h[w].job) => v = w
  BY <1>1 DEF HeldBy
<1> QED
  BY <1>1, <1>2 DEF InHand, HeldBy

(* A slot goes on with its job.                                            *)
LEMMA SlotGoesOn ==
  ASSUME HeldInv, UNCHANGED job, NEW w \in Workers, h[w].job \in Jobs, NEW p, p # "idle", NEW c, Claim(w, p, c)
  PROVE  /\ HeldParts'
         /\ \A j, P : j # h[w].job /\ InHand(j, P) => InHand(j, P)'
         /\ \A j, P : j = h[w].job /\ (p \in P \/ (p = "throw" /\ h[w].attempt < MaxAttempts))
                      => InHand(j, P)'
<1>1. /\ h'[w].pc = p /\ h'[w].job = h[w].job /\ h'[w].attempt = h[w].attempt
      /\ \A v \in Workers : v # w => h'[v] = h[v]
  <2>1. TypeOK /\ SetHandler(w, p, h[w].job, h[w].attempt, c)
    BY DEF HeldInv, BudgetInv, RowsInv, Claim
  <2>2. /\ \A v \in Workers \ {w} : h'[v] = h[v]
        /\ h'[w] = [pc |-> p, job |-> h[w].job, attempt |-> h[w].attempt, claimed |-> c]
    BY <2>1, SlotMove
  <2> QED
    BY <2>2
<1>2. HeldBy(w, h[w].job)
  BY DEF HeldInv, HeldParts, SlotHolds
<1>3. \A v \in Workers : \A j : HeldBy(v, j)' <=> HeldBy(v, j)
  BY <1>1 DEF HeldBy
<1>4. ASSUME NEW v \in Workers PROVE SlotHolds(v)'
  BY <1>1, <1>3 DEF HeldInv, HeldParts, SlotHolds
<1>5. ASSUME NEW j \in Jobs PROVE LockHolds(j)'
  BY <1>3 DEF HeldInv, HeldParts, LockHolds
<1>6. ASSUME NEW j, NEW P, j # h[w].job, InHand(j, P) PROVE InHand(j, P)'
  <2>1. \A v \in Workers : HeldBy(v, j) => h'[v] = h[v]
    BY <1>1, <1>6 DEF HeldBy
  <2> QED
    BY <1>3, <1>6, <2>1 DEF InHand
<1>7. ASSUME NEW j, NEW P, j = h[w].job, p \in P \/ (p = "throw" /\ h[w].attempt < MaxAttempts)
      PROVE  InHand(j, P)'
  <2>1. HeldBy(w, j)'
    BY <1>2, <1>3, <1>7
  <2> QED
    BY <1>1, <1>7, <2>1 DEF InHand
<1> QED
  BY <1>4, <1>5, <1>6, <1>7 DEF HeldParts

(* The queue hands out a job, or takes back what became of it.             *)
LEMMA QueueGoesOn ==
  ASSUME HeldInv, NEW w \in Workers,
         (\E j \in Jobs : StartJob(w, j)) \/ JobReturns(w) \/ JobThrows(w),
         NEW P, {"start", "load"} \subseteq P, P \cap {"idle", "return", "throw"} = {}
  PROVE  HeldParts' /\ \A j \in Jobs : InHand(j, P) => InHand(j, P)'
<1> USE ConstantsAssumption
<1>t. TypeOK /\ BudgetHolds
  BY DEF HeldInv, BudgetInv, RowsInv
<1>h. (\A v \in Workers : SlotHolds(v)) /\ (\A j \in Jobs : LockHolds(j))
  BY DEF HeldInv, HeldParts
<1>1. ASSUME NEW k \in Jobs, StartJob(w, k) PROVE HeldParts' /\ \A j \in Jobs : InHand(j, P) => InHand(j, P)'
  <2>1. PICK p \in {"start", "load"} :
          /\ h[w] = Idle /\ job[k].state = "waiting"
          /\ job'[k] = [state |-> "active", attempts |-> job[k].attempts, holder |-> w, stalls |-> job[k].stalls]
          /\ h'[w] = [pc |-> p, job |-> k, attempt |-> job[k].attempts + 1, claimed |-> 0]
          /\ \A v \in Workers \ {w} : h'[v] = h[v]
          /\ \A j \in Jobs \ {k} : job'[j] = job[j]
    BY <1>1, <1>t DEF StartJob, SetJob, SetHandler, TypeOK
  <2>2. /\ job'[k].state = "active" /\ job'[k].holder = w /\ job'[k].attempts = job[k].attempts
        /\ h'[w].pc = p /\ h'[w].job = k /\ h'[w].attempt = job[k].attempts + 1
        /\ h[w].job = NoJob
    BY <2>1 DEF Idle
  <2>3. \A v \in Workers : h[v].job # k
    BY <1>h, <2>1 DEF SlotHolds, HeldBy
  <2>4. ASSUME NEW v \in Workers PROVE SlotHolds(v)'
    <3>1. CASE v = w
      BY <2>2, <3>1 DEF SlotHolds, HeldBy
    <3>2. CASE v # w
      BY <1>h, <2>1, <2>3, <3>2 DEF SlotHolds, HeldBy
    <3> QED
      BY <3>1, <3>2
  <2>5. ASSUME NEW j \in Jobs PROVE LockHolds(j)' /\ (InHand(j, P) => InHand(j, P)')
    <3>1. CASE j = k
      BY <2>2, <3>1 DEF LockHolds, InHand, HeldBy
    <3>2. CASE j # k
      <4>1. job'[j] = job[j] /\ \A v \in Workers : h[v].job = j => h'[v] = h[v]
        BY <2>1, <2>2, <3>2
      <4> QED
        BY <1>h, <4>1 DEF LockHolds, InHand, HeldBy
    <3> QED
      BY <3>1, <3>2
  <2> QED
    BY <2>4, <2>5 DEF HeldParts
<1>2. ASSUME JobReturns(w) \/ JobThrows(w) PROVE HeldParts' /\ \A j \in Jobs : InHand(j, P) => InHand(j, P)'
  <2>1. PICK k \in Jobs : h[w].job = k /\ h[w].pc \in {"return", "throw"}
    BY <1>2 DEF JobReturns, JobThrows, At
  <2>2. /\ HeldBy(w, k) /\ h[w].attempt = job[k].attempts + 1
        /\ \A v \in Workers : h[v].job = k => v = w
    BY <1>h, <2>1 DEF SlotHolds, HeldBy
  <2>3. h'[w].job = NoJob /\ \A v \in Workers \ {w} : h'[v] = h[v]
    BY <1>2, <1>t DEF JobReturns, JobThrows, TypeOK, Idle
  <2>4. /\ \A j \in Jobs \ {k} : job'[j] = job[j]
        /\ \/ h[w].pc = "throw" /\ job'[k].state = "waiting"
           \/ /\ job'[k].state \in {"completed", "failed"}
              /\ h[w].pc = "throw" => ~(h[w].attempt < MaxAttempts)
    <3>1. CASE JobReturns(w)
      <4>1. h[w].pc = "return" /\ SetJob(k, "completed", 0, NoWorker, 0)
        BY <2>1, <2>2, <3>1 DEF JobReturns, At, HeldBy, EndJob
      <4> QED
        BY <4>1, <1>t DEF SetJob, TypeOK
    <3>2. CASE JobThrows(w)
      <4>1. /\ h[w].pc = "throw" /\ job[k].attempts \in Nat
            /\ \/ h[w].attempt < MaxAttempts /\ SetJob(k, "waiting", job[k].attempts + 1, NoWorker, job[k].stalls)
               \/ h[w].attempt >= MaxAttempts /\ SetJob(k, "failed", 0, NoWorker, 0)
        BY <1>t, <2>1, <2>2, <3>2 DEF JobThrows, At, HeldBy, EndJob, TypeOK, JobRow
      <4> QED
        BY <2>2, <4>1, <1>t DEF SetJob, TypeOK
    <3> QED
      BY <1>2, <3>1, <3>2
  <2>5. ASSUME NEW v \in Workers PROVE SlotHolds(v)'
    <3>1. CASE v = w
      BY <2>3, <3>1 DEF SlotHolds
    <3>2. CASE v # w
      BY <1>h, <2>2, <2>3, <2>4, <3>2 DEF SlotHolds, HeldBy
    <3> QED
      BY <3>1, <3>2
  <2>6. ASSUME NEW j \in Jobs PROVE LockHolds(j)' /\ (InHand(j, P) => InHand(j, P)')
    <3>1. CASE j = k
      <4>1. InHand(k, P) <=> h[w].pc \in P \/ (h[w].pc = "throw" /\ h[w].attempt < MaxAttempts)
        BY <2>1, InHandIs
      <4>2. h[w].pc \notin P
        BY <2>1
      <4> QED
        BY <2>4, <3>1, <4>1, <4>2 DEF LockHolds, InHand
    <3>2. CASE j # k
      <4>1. job'[j] = job[j] /\ \A v \in Workers : h[v].job = j => h'[v] = h[v]
        BY <2>1, <2>3, <2>4, <3>2
      <4> QED
        BY <1>h, <4>1 DEF LockHolds, InHand, HeldBy
    <3> QED
      BY <3>1, <3>2
  <2> QED
    BY <2>5, <2>6 DEF HeldParts
<1> QED
  BY <1>1, <1>2

(* Nothing moves in the queue and the slots.                               *)
LEMMA HandsStay ==
  ASSUME HeldInv, UNCHANGED job, UNCHANGED h
  PROVE  HeldParts' /\ \A j, P : InHand(j, P) => InHand(j, P)'
<1>1. \A w, j : HeldBy(w, j)' <=> HeldBy(w, j)
  BY DEF HeldBy
<1>2. ASSUME NEW w \in Workers PROVE SlotHolds(w)'
  BY <1>1 DEF HeldInv, HeldParts, SlotHolds
<1>3. ASSUME NEW j \in Jobs PROVE LockHolds(j)'
  BY <1>1 DEF HeldInv, HeldParts, LockHolds
<1>4. ASSUME NEW j, NEW P, InHand(j, P) PROVE InHand(j, P)'
  BY <1>1, <1>4 DEF InHand
<1> QED
  BY <1>2, <1>3, <1>4 DEF HeldParts

(* A caller adds its job, or fails to.                                     *)
LEMMA CallerAdds ==
  ASSUME HeldInv, NEW k \in Jobs, Enqueue(k)
  PROVE  /\ HeldParts' /\ (\A j \in Jobs : \A P : InHand(j, P) => InHand(j, P)')
         /\ \A j \in Jobs \ {k} : caller'[j] = caller[j]
         /\ \/ caller'[k].pc = "undo" /\ "enqueue" \in Faults
            \/ caller'[k].pc = "end" /\ \A P : InHand(k, P)'
<1>t. TypeOK /\ BudgetOf(k)
  BY DEF HeldInv, BudgetInv, RowsInv, BudgetHolds
<1>1. job[k].state = "absent" /\ (\A w \in Workers : h[w].job # k) /\ UNCHANGED h
  BY <1>t DEF Enqueue, BudgetOf, Added
<1>2. /\ \A j \in Jobs \ {k} : caller'[j] = caller[j]
      /\ \/ caller'[k].pc = "undo" /\ "enqueue" \in Faults /\ (AddJob(k) \/ UNCHANGED job)
         \/ caller'[k].pc = "end" /\ AddJob(k)
  BY <1>t DEF Enqueue, SetCaller, TypeOK
<1>3. CASE UNCHANGED job
  <2>1. ~AddJob(k)
    BY <1>t, <1>1, <1>3 DEF AddJob, SetJob, TypeOK
  <2> QED
    BY <1>1, <1>2, <1>3, <2>1, HandsStay
<1>4. CASE AddJob(k)
  <2>1. job'[k].state = "waiting" /\ \A j \in Jobs \ {k} : job'[j] = job[j]
    BY <1>t, <1>4 DEF AddJob, SetJob, TypeOK
  <2>2. ASSUME NEW w \in Workers PROVE SlotHolds(w)'
    BY <1>1, <2>1 DEF HeldInv, HeldParts, SlotHolds, HeldBy
  <2>3. ASSUME NEW j \in Jobs PROVE LockHolds(j)' /\ \A P : InHand(j, P) => InHand(j, P)'
    BY <1>1, <2>1 DEF HeldInv, HeldParts, LockHolds, InHand, HeldBy
  <2>4. \A P : InHand(k, P)'
    BY <2>1 DEF InHand
  <2> QED
    BY <1>2, <2>2, <2>3, <2>4 DEF HeldParts
<1> QED
  BY <1>2, <1>3, <1>4

(* A slot works on its job.                                                *)
Works(w) == Quiet(w) \/ CreateAttempt(w) \/ Deliver(w) \/ RecordSent(w) \/ RecordFailed(w)

(* A handler that leaves its points has answered its replay and decided on *)
(* its event, or is repeated.                                              *)
LEMMA WorkLeads ==
  ASSUME Undisturbed, TypeOK, NEW w \in Workers, Works(w)
  PROVE  LET j == h[w].job
             Again(p) == p = "throw" /\ h[w].attempt < MaxAttempts
         IN /\ j \in Jobs /\ UNCHANGED <<caller, job>>
            /\ \A r \in Replays \ {j} : replay'[r] = replay[r]
            /\ \A e \in Events \ {EventOf[j]} : event'[e] = event[e]
            /\ \E p, c :
                 /\ Claim(w, p, c) /\ p # "idle"
                 /\ j \in Replays =>
                      p \in Unanswered \/ Again(p) \/ replay'[j] \in {"COMPLETED", "FAILED"}
                 /\ \/ event'[EventOf[j]] \in {"SENT", "FAILED", "CANCELED"}
                    \/ UNCHANGED event /\ (h[w].pc \in Undecided => p \in Undecided \/ Again(p))
<1> DEFINE j == h[w].job
           Again(p) == p = "throw" /\ h[w].attempt < MaxAttempts
           Replied(p) == j \in Replays =>
                           p \in Unanswered \/ Again(p) \/ replay'[j] \in {"COMPLETED", "FAILED"}
           Decided(p) == \/ event'[EventOf[j]] \in {"SENT", "FAILED", "CANCELED"}
                         \/ UNCHANGED event /\ (h[w].pc \in Undecided => p \in Undecided \/ Again(p))
           Others == /\ \A r \in Replays \ {j} : replay'[r] = replay[r]
                     /\ \A e \in Events \ {EventOf[j]} : event'[e] = event[e]
           Leads == \E p, c : Claim(w, p, c) /\ p # "idle" /\ Replied(p) /\ Decided(p)
<1> USE DEF Unanswered, Undecided, PCs, BeforeTry, InTry, InCatch
<1>0. j \in Jobs /\ UNCHANGED <<caller, job>>
  BY DEF Works, Quiet, StartReplay, Load, CancelEvent, GiveUpReplay, MarkSent, CompleteReplay, MarkFailed,
     FailReplay, DbError, CreateAttempt, Deliver, RecordSent, RecordFailed, At, Undisturbed
<1>t. /\ replay \in [Replays -> ReplayStatus] /\ event \in [Events -> EventStatus]
      /\ EventOf[j] \in Events /\ ~DbError(w)
  BY <1>0, ConstantsAssumption DEF TypeOK, DbError, Undisturbed
<1>r. ASSUME NEW s, SetReplay(w, s)
      PROVE  /\ \A r \in Replays \ {j} : replay'[r] = replay[r]
             /\ j \in Replays => replay'[j] = s
  BY <1>t, <1>r DEF SetReplay
<1>e. ASSUME NEW s, SetEvent(w, s)
      PROVE  event'[EventOf[j]] = s /\ \A e \in Events \ {EventOf[j]} : event'[e] = event[e]
  BY <1>t, <1>e DEF SetEvent
<1>1. ASSUME StartReplay(w) PROVE Others /\ Leads
  <2>1. Claim(w, "load", h[w].claimed) /\ SetReplay(w, "PROCESSING") /\ UNCHANGED event
    BY <1>1 DEF StartReplay, Goto
  <2> QED
    BY <1>r, <2>1
<1>2. ASSUME Load(w) PROVE Others /\ Leads
  <2>1. /\ Claim(w, "attempt", h[w].claimed) \/ Claim(w, "cancel", h[w].claimed)
        /\ UNCHANGED replay /\ UNCHANGED event
    BY <1>2 DEF Load, Goto
  <2> QED
    BY <2>1
<1>3. ASSUME CancelEvent(w) PROVE Others /\ Leads
  <2>1. /\ \/ j \in Replays /\ Claim(w, "giveUp", h[w].claimed)
           \/ j \notin Replays /\ Claim(w, "return", h[w].claimed)
        /\ SetEvent(w, "CANCELED") /\ UNCHANGED replay
    BY <1>3 DEF CancelEvent, Goto, IsReplay
  <2> QED
    BY <1>e, <2>1
<1>4. ASSUME GiveUpReplay(w) PROVE Others /\ Leads
  <2>1. /\ Claim(w, "return", h[w].claimed) /\ h[w].pc = "giveUp"
        /\ SetReplay(w, "FAILED") /\ UNCHANGED event
    BY <1>4 DEF GiveUpReplay, Goto, At
  <2> QED
    BY <1>r, <2>1
<1>5. ASSUME MarkSent(w) PROVE Others /\ Leads
  <2>1. /\ \/ j \in Replays /\ Claim(w, "completeReplay", h[w].claimed)
           \/ j \notin Replays /\ Claim(w, "return", h[w].claimed)
        /\ SetEvent(w, "SENT") /\ UNCHANGED replay
    BY <1>5 DEF MarkSent, Goto, IsReplay
  <2> QED
    BY <1>e, <2>1
<1>6. ASSUME CompleteReplay(w) PROVE Others /\ Leads
  <2>1. /\ Claim(w, "return", h[w].claimed) /\ h[w].pc = "completeReplay"
        /\ SetReplay(w, "COMPLETED") /\ UNCHANGED event
    BY <1>6 DEF CompleteReplay, Goto, At
  <2> QED
    BY <1>r, <2>1
<1>7. ASSUME MarkFailed(w) PROVE Others /\ Leads
  <2>1. /\ \/ j \in Replays /\ Claim(w, "failReplay", h[w].claimed)
           \/ j \notin Replays /\ Claim(w, "throw", h[w].claimed)
        /\ SetEvent(w, "FAILED") /\ UNCHANGED replay
    BY <1>7 DEF MarkFailed, Goto, IsReplay
  <2> QED
    BY <1>e, <2>1
<1>8. ASSUME FailReplay(w) PROVE Others /\ Leads
  <2>1. /\ Claim(w, "throw", h[w].claimed) /\ h[w].pc = "failReplay"
        /\ SetReplay(w, "FAILED") /\ UNCHANGED event
    BY <1>8 DEF FailReplay, Goto, At
  <2> QED
    BY <1>r, <2>1
<1>9. ASSUME CreateAttempt(w) \/ Deliver(w) \/ RecordSent(w) PROVE Others /\ Leads
  <2>1. /\ \E p \in {"deliver", "sent", "failed", "markSent"} : \E c : Claim(w, p, c)
        /\ UNCHANGED replay /\ UNCHANGED event
    BY <1>9 DEF CreateAttempt, Deliver, RecordSent, Goto
  <2> QED
    BY <2>1
<1>10. ASSUME RecordFailed(w) PROVE Others /\ Leads
  <2>1. /\ h[w].attempt \in Nat
        /\ Claim(w, IF h[w].attempt >= MaxAttempts THEN "markFailed" ELSE "throw", 0)
        /\ UNCHANGED replay /\ UNCHANGED event
    BY <1>10 DEF RecordFailed, TypeOK, HandlerState
  <2>2. \/ Claim(w, "markFailed", 0)
        \/ h[w].attempt < MaxAttempts /\ Claim(w, "throw", 0)
    BY <2>1, ConstantsAssumption
  <2> QED
    BY <2>1, <2>2
<1> QED
  <2>1. Others /\ Leads
    BY <1>t, <1>1, <1>2, <1>3, <1>4, <1>5, <1>6, <1>7, <1>8, <1>9, <1>10 DEF Works, Quiet
  <2> QED
    BY <1>0, <2>1 DEF j

(* The steps of the callers that add no job leave queue and slots alone.   *)
LEMMA OthersStay ==
  ASSUME Outside, \A j \in Jobs : ~Enqueue(j) /\ ~RecoverStalled(j) PROVE UNCHANGED job /\ UNCHANGED h
BY OutsideMoves, QueueAlone

(* While nothing disturbs them no job is recovered and no slot dies.       *)
LEMMA NothingDies ==
  ASSUME Undisturbed, HeldInv
  PROVE  /\ \A j \in Jobs : ~RecoverStalled(j) /\ ~CallerAborts(j)
         /\ \A w \in Workers : ~WorkerCrash(w)
<1>1. ASSUME NEW j \in Jobs, RecoverStalled(j) PROVE FALSE
  <2>1. job[j].state = "active" /\ Abandoned(j)
    BY <1>1 DEF RecoverStalled, Undisturbed
  <2>2. PICK w \in Workers : HeldBy(w, j)
    BY <2>1 DEF HeldInv, HeldParts, LockHolds
  <2> QED
    BY <2>1, <2>2 DEF Abandoned, HeldBy
<1> QED
  BY <1>1 DEF CallerAborts, WorkerCrash, Undisturbed

(* What a step of the system is while nothing disturbs it.                 *)
LEMMA HeldKinds ==
  ASSUME Undisturbed, HeldInv, [Next]_vars
  PROVE  \/ Outside /\ UNCHANGED job /\ UNCHANGED h
         \/ UNCHANGED vars
         \/ \E j \in Jobs : Enqueue(j)
         \/ \E w \in Workers : \/ Works(w)
                               \/ (\E j \in Jobs : StartJob(w, j)) \/ JobReturns(w) \/ JobThrows(w)
BY NothingDies, OthersStay, Kinds DEF Works, Ends

(* Every step keeps what slots and locks know of each other.               *)
LEMMA HeldStep == ASSUME Undisturbed PROVE HeldInv /\ [Next]_vars => HeldInv'
<1> SUFFICES ASSUME HeldInv, [Next]_vars PROVE HeldParts'
  BY BudgetStep DEF HeldInv
<1>t. TypeOK
  BY DEF HeldInv, BudgetInv, RowsInv
<1>1. ASSUME UNCHANGED job, UNCHANGED h PROVE HeldParts'
  BY <1>1, HandsStay
<1>2. ASSUME NEW j \in Jobs, Enqueue(j) PROVE HeldParts'
  BY <1>2, CallerAdds
<1>3. ASSUME NEW w \in Workers, Works(w) PROVE HeldParts'
  <2>1. /\ h[w].job \in Jobs /\ UNCHANGED job
        /\ \E p, c : Claim(w, p, c) /\ p # "idle"
    BY <1>t, <1>3, WorkLeads
  <2> QED
    BY <2>1, SlotGoesOn
<1>4. ASSUME NEW w \in Workers, (\E j \in Jobs : StartJob(w, j)) \/ JobReturns(w) \/ JobThrows(w)
      PROVE  HeldParts'
  <2>1. {"start", "load"} \subseteq Unanswered /\ Unanswered \cap {"idle", "return", "throw"} = {}
    BY DEF Unanswered, PCs, BeforeTry
  <2> QED
    BY <1>4, <2>1, QueueGoesOn
<1> QED
  BY <1>1, <1>2, <1>3, <1>4, HeldKinds DEF vars

(* No slot has a job at first.                                             *)
LEMMA HeldInit == Init => HeldInv
<1> SUFFICES ASSUME Init PROVE HeldParts
  BY BudgetInit DEF HeldInv
<1>1. (\A w \in Workers : h[w].job \notin Jobs) /\ \A j \in Jobs : job[j].state = "absent"
  BY ConstantsAssumption DEF Init, Idle
<1> QED
  BY <1>1 DEF HeldParts, SlotHolds, LockHolds

(* Every step keeps an unanswered replay in somebody's hands.              *)
LEMMA ReplaysStep == ASSUME Undisturbed PROVE HeldInv /\ ReplaysAreHeld /\ [Next]_vars => ReplaysAreHeld'
<1> SUFFICES ASSUME HeldInv, ReplaysAreHeld, [Next]_vars,
                    NEW r \in Replays, replay'[r] \in {"QUEUED", "PROCESSING"}
             PROVE  (caller[r].pc \in {"created", "enqueue", "undo", "unmark"})' \/ InHand(r, Unanswered)'
  BY DEF ReplaysAreHeld
<1> DEFINE C == {"created", "enqueue", "undo", "unmark"}
           Goal == caller'[r].pc \in C \/ InHand(r, Unanswered)'
<1> SUFFICES Goal
  OBVIOUS
<1> HIDE DEF Goal
<1>t. TypeOK /\ r \in Jobs
  BY DEF HeldInv, BudgetInv, RowsInv, Jobs
<1>h. ASSUME replay'[r] = replay[r] PROVE caller[r].pc \in C \/ InHand(r, Unanswered)
  BY <1>h DEF ReplaysAreHeld
<1>1. CASE UNCHANGED vars
  <2>1. InHand(r, Unanswered) => InHand(r, Unanswered)'
    BY <1>1, HandsStay DEF vars
  <2> QED
    BY <1>1, <1>h, <2>1 DEF vars, Goal
<1>2. CASE Outside /\ UNCHANGED job /\ UNCHANGED h
  <2>1. InHand(r, Unanswered) => InHand(r, Unanswered)'
    BY <1>2, HandsStay
  <2>2. ASSUME replay'[r] = replay[r], caller'[r] = caller[r] PROVE Goal
    BY <1>h, <2>1, <2>2 DEF Goal
  <2>3. ASSUME NEW j \in Jobs, NEW p, NEW s, SetCaller(j, p, s), replay'[r] = replay[r],
               j # r \/ p \in C \/ caller[r].pc \notin C
        PROVE  Goal
    <3>1. caller'[j].pc = p /\ \A k \in Jobs \ {j} : caller'[k] = caller[k]
      BY <1>t, <2>3 DEF SetCaller, TypeOK
    <3> QED
      BY <1>h, <1>t, <2>1, <2>3, <3>1 DEF Goal
  <2>4. ASSUME NEW e \in Events, Capture(e) PROVE Goal
    <3>1. e \in Jobs /\ e # r /\ UNCHANGED replay
      BY <2>4, ConstantsAssumption DEF Capture, FindDeployment, CreateEvent, Jobs
    <3> QED
      BY <2>3, <2>4, <3>1 DEF Capture, FindDeployment, CreateEvent
  <2>5. ASSUME NEW k \in Replays, ReadEvent(k) PROVE Goal
    BY <2>3, <2>5 DEF ReadEvent, Jobs
  <2>6. ASSUME NEW k \in Replays, Replay(k) PROVE Goal
    <3>1. k \in Jobs /\ replay \in [Replays -> ReplayStatus]
      BY <1>t DEF Jobs, TypeOK
    <3>2. CASE CreateReplay(k)
      <4>1. k = r \/ replay'[r] = replay[r]
        BY <3>1, <3>2 DEF CreateReplay
      <4>2. k = r => caller'[r].pc = "created"
        BY <1>t, <3>2 DEF CreateReplay, SetCaller, TypeOK
      <4> QED
        BY <2>3, <3>1, <3>2, <4>1, <4>2 DEF CreateReplay, Goal
    <3>3. CASE MarkReady(k)
      BY <2>3, <3>1, <3>3 DEF MarkReady
    <3>4. CASE MarkReplayFailed(k)
      <4>1. replay'[k] = "FAILED" /\ (k # r => replay'[r] = replay[r])
        BY <3>1, <3>4 DEF MarkReplayFailed
      <4> QED
        BY <2>3, <3>1, <3>4, <4>1 DEF MarkReplayFailed
    <3> QED
      BY <2>6, <3>2, <3>3, <3>4 DEF Replay
  <2>7. ASSUME NEW j \in Jobs, UndoEnqueue(j) PROVE Goal
    BY <2>3, <2>7 DEF UndoEnqueue
  <2>8. ASSUME NEW j \in Jobs, Enqueue(j) PROVE Goal
    <3>1. UNCHANGED replay /\ r \in Jobs
      BY <1>t, <2>8 DEF Enqueue
    <3> QED
      BY <1>h, <2>1, <2>8, <3>1, CallerAdds DEF Goal
  <2> QED
    BY <1>2, <2>2, <2>4, <2>5, <2>6, <2>7, <2>8, NothingDies
       DEF Outside, EnableDeployment, PauseDeployment, Caller, RecoverStalled
<1>3. ASSUME NEW j \in Jobs, Enqueue(j) PROVE Goal
  <2>1. UNCHANGED replay /\ (InHand(r, Unanswered) => InHand(r, Unanswered)')
    BY <1>3, <1>t, CallerAdds DEF Enqueue
  <2>2. CASE j = r
    BY <1>3, <2>2, CallerAdds DEF Goal
  <2>3. CASE j # r
    <3>1. caller'[r] = caller[r]
      BY <1>3, <1>t, <2>3, CallerAdds
    <3> QED
      BY <1>h, <2>1, <3>1 DEF Goal
  <2> QED
    BY <2>2, <2>3
<1>4. ASSUME NEW w \in Workers, Works(w) PROVE Goal
  <2>1. PICK p, c :
          /\ h[w].job \in Jobs /\ UNCHANGED <<caller, job>>
          /\ \A k \in Replays \ {h[w].job} : replay'[k] = replay[k]
          /\ Claim(w, p, c) /\ p # "idle"
          /\ h[w].job \in Replays => \/ p \in Unanswered \/ (p = "throw" /\ h[w].attempt < MaxAttempts)
                                     \/ replay'[h[w].job] \in {"COMPLETED", "FAILED"}
    BY <1>t, <1>4, WorkLeads
  <2>2. CASE r = h[w].job
    <3>1. p \in Unanswered \/ (p = "throw" /\ h[w].attempt < MaxAttempts)
      BY <2>1, <2>2
    <3>2. InHand(r, Unanswered)'
      BY <2>1, <2>2, <3>1, SlotGoesOn
    <3> QED
      BY <3>2 DEF Goal
  <2>3. CASE r # h[w].job
    <3>1. InHand(r, Unanswered) => InHand(r, Unanswered)'
      BY <2>1, <2>3, SlotGoesOn
    <3> QED
      BY <1>h, <2>1, <2>3, <3>1 DEF Goal
  <2> QED
    BY <2>2, <2>3
<1>5. ASSUME NEW w \in Workers, (\E j \in Jobs : StartJob(w, j)) \/ JobReturns(w) \/ JobThrows(w)
      PROVE  Goal
  <2>1. {"start", "load"} \subseteq Unanswered /\ Unanswered \cap {"idle", "return", "throw"} = {}
    BY DEF Unanswered, PCs, BeforeTry
  <2>2. UNCHANGED <<replay, caller>>
    BY <1>5 DEF StartJob, JobReturns, JobThrows
  <2>3. InHand(r, Unanswered) => InHand(r, Unanswered)'
    BY <1>5, <1>t, <2>1, QueueGoesOn
  <2> QED
    BY <1>h, <2>2, <2>3 DEF Goal
<1> QED
  BY <1>1, <1>2, <1>3, <1>4, <1>5, HeldKinds

(* While processes live and statements succeed, every replay an operator   *)
(* asked for and that has no answer yet is with the service that adds its  *)
(* job, or that job waits, or a handler is on its way to the answer,       *)
(* whatever becomes of the enqueue and of the calls to Telegram.           *)
THEOREM NoReplayIsForgotten == ASSUME Undisturbed PROVE Spec => []ReplaysAreHeld
<1>1. Init => ReplaysAreHeld
  BY DEF Init, ReplaysAreHeld
<1> QED
  BY <1>1, HeldInit, HeldStep, ReplaysStep, PTL DEF Spec

(* Without a failing enqueue nothing is undone.                            *)
NobodyUndoes == \A j \in Jobs : caller[j].pc # "undo"

(* Every step keeps a READY event in somebody's hands.                     *)
LEMMA EventsStep ==
  ASSUME Undisturbed, "enqueue" \notin Faults
  PROVE  HeldInv /\ NobodyUndoes /\ EventsAreHeld /\ [Next]_vars => NobodyUndoes' /\ EventsAreHeld'
<1> SUFFICES ASSUME HeldInv, NobodyUndoes, EventsAreHeld, [Next]_vars PROVE NobodyUndoes' /\ EventsAreHeld'
  OBVIOUS
<1>t. TypeOK
  BY DEF HeldInv, BudgetInv, RowsInv
<1>n. ASSUME NEW j \in Jobs, NEW p, NEW s, SetCaller(j, p, s)
      PROVE  caller'[j].pc = p /\ \A k \in Jobs \ {j} : caller'[k] = caller[k]
  BY <1>t, <1>n DEF SetCaller, TypeOK
<1>u. NobodyUndoes'
  <2>1. ASSUME NEW j \in Jobs, NEW p, NEW s, SetCaller(j, p, s), p # "undo" PROVE NobodyUndoes'
    BY <1>n, <2>1 DEF NobodyUndoes
  <2>2. ASSUME NEW j \in Jobs, Caller(j) \/ CallerAborts(j) PROVE NobodyUndoes'
    BY <2>1, <2>2 DEF NobodyUndoes, Caller, Enqueue, UndoEnqueue, CallerAborts
  <2>3. ASSUME NEW e \in Events, Capture(e) PROVE NobodyUndoes'
    BY <2>1, <2>3 DEF Capture, FindDeployment, CreateEvent, Jobs
  <2>4. ASSUME NEW r \in Replays, ReadEvent(r) \/ Replay(r) PROVE NobodyUndoes'
    BY <2>1, <2>4 DEF ReadEvent, Replay, CreateReplay, MarkReady, MarkReplayFailed, Jobs
  <2>5. CASE UNCHANGED caller
    BY <2>5 DEF NobodyUndoes
  <2>6. ASSUME NEW w \in Workers, Works(w) PROVE NobodyUndoes'
    BY <1>t, <2>5, <2>6, WorkLeads
  <2>7. CASE Outside
    BY <2>2, <2>3, <2>4, <2>5, <2>7 DEF Outside, EnableDeployment, PauseDeployment, RecoverStalled
  <2>8. ASSUME NEW w \in Workers, (\E j \in Jobs : StartJob(w, j)) \/ JobReturns(w) \/ JobThrows(w)
        PROVE  NobodyUndoes'
    BY <2>5, <2>8 DEF StartJob, JobReturns, JobThrows
  <2>9. ASSUME NEW j \in Jobs, Enqueue(j) PROVE NobodyUndoes'
    BY <2>2, <2>9 DEF Caller
  <2>10. CASE UNCHANGED vars
    BY <2>5, <2>10 DEF vars
  <2> QED
    BY <2>6, <2>7, <2>8, <2>9, <2>10, HeldKinds
<1> SUFFICES ASSUME NEW e \in Events, event'[e] = "READY"
             PROVE  \E j \in JobsOf(e) : (caller[j].pc = "enqueue" \/ InHand(j, Undecided))'
  BY <1>u DEF EventsAreHeld, JobsOf
<1> DEFINE Has(j) == caller[j].pc = "enqueue" \/ InHand(j, Undecided)
           Goal == \E j \in JobsOf(e) : caller'[j].pc = "enqueue" \/ InHand(j, Undecided)'
<1> SUFFICES Goal
  OBVIOUS
<1>j. \A j \in JobsOf(e) : j \in Jobs /\ EventOf[j] = e
  BY DEF JobsOf
<1> HIDE DEF Goal
<1>h. ASSUME event'[e] = event[e] PROVE \E j \in JobsOf(e) : Has(j)
  BY <1>h DEF EventsAreHeld
<1>p. {"start", "load"} \subseteq Undecided /\ Undecided \cap {"idle", "return", "throw"} = {}
  BY DEF Undecided, Unanswered, PCs, BeforeTry
<1>1. CASE UNCHANGED vars
  <2>1. \A j : InHand(j, Undecided) => InHand(j, Undecided)'
    BY <1>1, HandsStay DEF vars
  <2> QED
    BY <1>1, <1>h, <2>1 DEF vars, Goal
<1>3. ASSUME NEW k \in Jobs, Enqueue(k) PROVE Goal
  <2>1. PICK j \in JobsOf(e) : Has(j)
    BY <1>3, <1>h DEF Enqueue
  <2>2. CASE j = k
    BY <1>3, <2>2, CallerAdds DEF Goal
  <2>3. CASE j # k
    <3>1. caller'[j] = caller[j] /\ (InHand(j, Undecided) => InHand(j, Undecided)')
      BY <1>3, <1>j, <2>3, CallerAdds
    <3> QED
      BY <2>1, <3>1 DEF Goal
  <2> QED
    BY <2>2, <2>3
<1>2. CASE Outside /\ UNCHANGED job /\ UNCHANGED h
  <2>1. \A j : InHand(j, Undecided) => InHand(j, Undecided)'
    BY <1>2, HandsStay
  <2>2. ASSUME NEW k \in Jobs, NEW p, NEW s, SetCaller(k, p, s), caller[k].pc # "enqueue",
               event'[e] = event[e]
        PROVE  Goal
    <3>1. PICK j \in JobsOf(e) : Has(j)
      BY <1>h, <2>2
    <3>2. caller[j].pc = "enqueue" => caller'[j].pc = "enqueue"
      BY <1>j, <1>n, <2>2
    <3> QED
      BY <2>1, <3>1, <3>2 DEF Goal
  <2>3. ASSUME UNCHANGED caller, UNCHANGED event PROVE Goal
    BY <1>h, <2>1, <2>3 DEF Goal
  <2>4. ASSUME NEW f \in Events, Capture(f) PROVE Goal
    <3>1. f \in Jobs /\ EventOf[f] = f
      BY ConstantsAssumption DEF Jobs
    <3>2. CASE FindDeployment(f)
      BY <2>2, <3>1, <3>2 DEF FindDeployment
    <3>3. CASE CreateEvent(f)
      <4>1. caller'[f].pc = "enqueue" /\ (f # e => event'[e] = event[e])
        BY <1>n, <1>t, <3>1, <3>3 DEF CreateEvent, TypeOK
      <4>2. f = e => f \in JobsOf(e)
        BY <3>1 DEF JobsOf
      <4> QED
        BY <2>2, <3>1, <3>3, <4>1, <4>2 DEF CreateEvent, Goal
    <3> QED
      BY <2>4, <3>2, <3>3 DEF Capture
  <2>5. ASSUME NEW r \in Replays, ReadEvent(r) \/ Replay(r) PROVE Goal
    <3>1. r \in Jobs
      BY DEF Jobs
    <3>2. CASE ReadEvent(r) \/ CreateReplay(r) \/ MarkReplayFailed(r)
      BY <2>2, <3>1, <3>2 DEF ReadEvent, CreateReplay, MarkReplayFailed
    <3>3. CASE MarkReady(r)
      <4>1. caller'[r].pc = "enqueue" /\ (EventOf[r] # e => event'[e] = event[e])
        BY <1>n, <1>t, <3>1, <3>3 DEF MarkReady, TypeOK
      <4>2. EventOf[r] = e => r \in JobsOf(e)
        BY <3>1 DEF JobsOf
      <4> QED
        BY <2>2, <3>1, <3>3, <4>1, <4>2 DEF MarkReady, Goal
    <3> QED
      BY <2>5, <3>2, <3>3 DEF Replay
  <2>6. ASSUME NEW j \in Jobs, UndoEnqueue(j) PROVE FALSE
    BY <2>6 DEF UndoEnqueue, NobodyUndoes
  <2>7. ASSUME NEW j \in Jobs, Enqueue(j) PROVE Goal
    BY <1>3, <2>7
  <2> QED
    BY <1>2, <2>3, <2>4, <2>5, <2>6, <2>7, NothingDies
       DEF Outside, EnableDeployment, PauseDeployment, Caller, Deliveries
<1>4. ASSUME NEW w \in Workers, Works(w) PROVE Goal
  <2>1. PICK p, c :
          /\ h[w].job \in Jobs /\ UNCHANGED <<caller, job>>
          /\ \A f \in Events \ {EventOf[h[w].job]} : event'[f] = event[f]
          /\ Claim(w, p, c) /\ p # "idle"
          /\ \/ event'[EventOf[h[w].job]] \in {"SENT", "FAILED", "CANCELED"}
             \/ /\ UNCHANGED event
                /\ h[w].pc \in Undecided =>
                     p \in Undecided \/ (p = "throw" /\ h[w].attempt < MaxAttempts)
    BY <1>t, <1>4, WorkLeads
  <2>2. event'[e] = event[e]
    BY <2>1
  <2>3. PICK j \in JobsOf(e) : Has(j)
    BY <1>h, <2>2
  <2>4. CASE j # h[w].job
    <3>1. InHand(j, Undecided) => InHand(j, Undecided)'
      BY <2>1, <2>4, SlotGoesOn
    <3> QED
      BY <2>1, <2>3, <3>1 DEF Goal
  <2>5. CASE j = h[w].job
    <3>1. caller[j].pc = "enqueue" => FALSE
      BY <1>j, <2>5 DEF HeldInv, BudgetInv, BudgetHolds, BudgetOf, Added
    <3>2. h[w].pc \in Undecided \/ (h[w].pc = "throw" /\ h[w].attempt < MaxAttempts)
      BY <2>1, <2>3, <2>5, <3>1, InHandIs
    <3>3. h[w].pc # "throw"
      BY <1>4 DEF Works, Quiet, StartReplay, Load, CancelEvent, GiveUpReplay, MarkSent, CompleteReplay,
         MarkFailed, FailReplay, DbError, CreateAttempt, Deliver, RecordSent, RecordFailed, At, Undisturbed
    <3>4. p \in Undecided \/ (p = "throw" /\ h[w].attempt < MaxAttempts)
      BY <1>j, <2>1, <2>5, <3>2, <3>3
    <3>5. InHand(j, Undecided)'
      BY <2>1, <2>5, <3>4, SlotGoesOn
    <3> QED
      BY <3>5 DEF Goal
  <2> QED
    BY <2>4, <2>5
<1>5. ASSUME NEW w \in Workers, (\E j \in Jobs : StartJob(w, j)) \/ JobReturns(w) \/ JobThrows(w)
      PROVE  Goal
  <2>1. UNCHANGED <<event, caller>>
    BY <1>5 DEF StartJob, JobReturns, JobThrows
  <2>2. \A j \in Jobs : InHand(j, Undecided) => InHand(j, Undecided)'
    BY <1>5, <1>p, QueueGoesOn
  <2> QED
    BY <1>h, <1>j, <2>1, <2>2 DEF Goal
<1> QED
  BY <1>1, <1>2, <1>3, <1>4, <1>5, HeldKinds

(* If the queue takes every job as well, an event that is READY is never   *)
(* without a job in hand, however captures, replays and deliveries of it   *)
(* overlap.  A failing enqueue breaks this: a replay then writes back the  *)
(* READY it read, though the job that stood behind it is gone by now.      *)
THEOREM NoEventIsForgotten ==
  ASSUME Undisturbed, "enqueue" \notin Faults PROVE Spec => []EventsAreHeld
<1>1. Init => NobodyUndoes /\ EventsAreHeld
  BY DEF Init, NobodyUndoes, EventsAreHeld
<1> QED
  BY <1>1, HeldInit, HeldStep, EventsStep, PTL DEF Spec
=============================================================================
