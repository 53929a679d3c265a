------------------------- MODULE IntentPromise_proofs -------------------------
(***************************************************************************)
(* Proofs about IntentExecution, continued: how much a kill switch lets    *)
(* through, how often the bridge is called, that the lane keeps the        *)
(* promise of TradePromise, and that no intent is forgotten.               *)
(***************************************************************************)
EXTENDS IntentExecution_proofs, FiniteSetTheorems

(* The points between the reading of the kill switch and the bridge.       *)
BeforeBridge == {"guard", "find", "create", "execute", "dispatch", "bridge"}

(* Whoever has still to call the bridge read the switch when it was off,   *)
(* and nobody else of its intent has ordered since.                        *)
KillOf(i) ==
  /\ ~binding[BindingOf[i]].killed => broker[i].late = 0
  /\ broker[i].late <= 1
  /\ \A w \in Workers : h[w].intent = i /\ h[w].pc \in BeforeBridge => broker[i].late = 0

KillHolds == \A i \in Intents : KillOf(i)

KillInv == ClaimInv /\ KillHolds

(* A handler at one of these points may still call the bridge, once.       *)
BeforeCall == {"claim", "load"} \cup BeforeBridge
Callers(i) == {w \in Workers : h[w].intent = i /\ h[w].pc \in BeforeCall}

(* The runs of a job that the queue has begun.                             *)
Runs(i) ==
  IF job[i].state \in {"completed", "failed"} THEN MaxAttempts + MaxStalled
  ELSE job[i].attempts + job[i].stalls + (IF job[i].state = "active" THEN 1 ELSE 0)

(* A job exists once it was added, nobody knows of it before, and it only  *)
(* goes on while the queue counts within its limits.                       *)
QueueOf(i) ==
  /\ cap[i] \in {"idle", "selected", "created"} => job[i].state = "absent"
  /\ job[i].state = "absent" =>
       /\ job[i].attempts = 0 /\ job[i].stalls = 0
       /\ broker[i].calls = 0 /\ \A w \in Workers : h[w].intent # i
  /\ job[i].state \in {"waiting", "active"} =>
       job[i].attempts < MaxAttempts /\ job[i].stalls <= MaxStalled
  /\ job[i].holder # NoWorker => job[i].state = "active"

(* The calls made and those to come are at most the runs.                  *)
CallsOf(i) ==
  IsFiniteSet(Callers(i)) /\ broker[i].calls + Cardinality(Callers(i)) <= Runs(i)

CallInv == TypeOK /\ (\A i \in Intents : QueueOf(i)) /\ (\A i \in Intents : CallsOf(i))

(* Until the capture is over nobody else has touched the row.              *)
CaptureRow ==
  \A i \in Intents :
    /\ cap[i] \in {"idle", "selected"} => intent[i].status = "absent"
    /\ cap[i] \in {"created", "enqueueFailed"} => intent[i].status = "QUEUED"

(* Where the owner of an intent that has its order may be.                 *)
Told(w, i) ==
  \/ h[w].pc = "reply" /\ h[w].out = "accepted"
  \/ h[w].pc \in {"defer", "result"} /\ cmd[i].status = "COMPLETED"
  \/ h[w].pc = "settle" /\ h[w].out = "EXECUTED"

(* An intent with an order is EXECUTED, or on its way there, or left       *)
(* PROCESSING by a handler that died.                                      *)
OrderTold(i) ==
  broker[i].orders >= 1 =>
    /\ intent[i].status \in {"PROCESSING", "EXECUTED"}
    /\ \A w \in Workers : Owns(w, i) => Told(w, i)

(* While the database works no handler is in a catch, and the insert of a  *)
(* command meets none.                                                     *)
NoCatch(w) ==
  /\ h[w].pc \notin {"conceal", "error"}
  /\ \A i \in Intents : h[w].intent = i /\ h[w].pc = "create" => cmd[i].status = "absent"

ToldHolds == (\A i \in Intents : OrderTold(i)) /\ (\A w \in Workers : NoCatch(w))

ToldInv == OrderInv /\ CaptureRow /\ ToldHolds
-----------------------------------------------------------------------------
(* The kill switch.                                                        *)

(* The steps of a handler that leave the binding and the broker alone.     *)
InnerStep(w) ==
  \/ Claim(w) \/ RejectIntent(w) \/ FindCommand(w) \/ CreateCommand(w) \/ ValidateCommand(w)
  \/ DispatchCommand(w) \/ RecordReply(w) \/ DeferReconciliation(w) \/ ConcealReply(w)
  \/ LoadResult(w) \/ SettleIntent(w) \/ RequeueIntent(w) \/ CatchError(w) \/ DbError(w)

(* None of them takes a handler back to a point before the bridge call.    *)
Onward(w) ==
  /\ UNCHANGED <<cap, job, binding, broker>>
  /\ \E p, o : /\ Goto(w, p, o)
               /\ p \in BeforeBridge => h[w].pc \in BeforeBridge
               /\ p \in BeforeCall => h[w].pc \in BeforeCall

LEMMA InnerStepsGoOnward == ASSUME NEW w \in Workers, InnerStep(w) PROVE Onward(w)
<1>1. CASE Claim(w)
  BY <1>1 DEF Claim, At, BeforeBridge, BeforeCall, Onward
<1>2. CASE RejectIntent(w)
  BY <1>2 DEF RejectIntent, At, BeforeBridge, BeforeCall, Onward
<1>3. CASE FindCommand(w)
  BY <1>3 DEF FindCommand, At, BeforeBridge, BeforeCall, Onward
<1>4. CASE CreateCommand(w)
  BY <1>4 DEF CreateCommand, At, BeforeBridge, BeforeCall, Onward
<1>5. CASE ValidateCommand(w)
  BY <1>5 DEF ValidateCommand, At, BeforeBridge, BeforeCall, Onward
<1>6. CASE DispatchCommand(w)
  BY <1>6 DEF DispatchCommand, At, BeforeBridge, BeforeCall, Onward
<1>7. CASE RecordReply(w)
  BY <1>7 DEF RecordReply, At, BeforeBridge, BeforeCall, Onward
<1>8. CASE DeferReconciliation(w)
  BY <1>8 DEF DeferReconciliation, At, BeforeBridge, BeforeCall, Onward
<1>9. CASE ConcealReply(w)
  BY <1>9 DEF ConcealReply, At, BeforeBridge, BeforeCall, Onward
<1>10. CASE LoadResult(w)
  BY <1>10 DEF LoadResult, At, BeforeBridge, BeforeCall, Onward
<1>11. CASE SettleIntent(w)
  BY <1>11 DEF SettleIntent, At, BeforeBridge, BeforeCall, Onward
<1>12. CASE RequeueIntent(w)
  BY <1>12 DEF RequeueIntent, At, BeforeBridge, BeforeCall, Onward
<1>13. CASE CatchError(w)
  <2>1. UNCHANGED <<cap, job, binding, broker>> /\ (Goto(w, "throw", "none") \/ Goto(w, "return", "none"))
    BY <1>13, Zenon DEF CatchError
  <2> QED
    BY <2>1 DEF BeforeBridge, BeforeCall, Onward
<1>14. CASE DbError(w)
  BY <1>14 DEF DbError, At, Owning, BeforeBridge, BeforeCall, Onward
<1> QED
  BY <1>1, <1>2, <1>3, <1>4, <1>5, <1>6, <1>7, <1>8, <1>9, <1>10, <1>11, <1>12, <1>13, <1>14 DEF InnerStep

(* A step that neither writes the binding nor calls the bridge, by a       *)
(* handler that was past the check before, or is not now.                  *)
LEMMA QuietKeepsKill ==
  ASSUME KillInv, UNCHANGED <<binding, broker>>,
         \A v \in Workers : \/ h'[v] = h[v]
                            \/ h'[v].pc \notin BeforeBridge
                            \/ h[v].pc \in BeforeBridge /\ h'[v].intent = h[v].intent
  PROVE  KillHolds'
BY DEF KillInv, KillHolds, KillOf

(* The same of a step of one slot, which goes on at p.                     *)
LEMMA GotoKeepsKill ==
  ASSUME KillInv, UNCHANGED <<binding, broker>>, NEW w \in Workers, NEW p, NEW o, Goto(w, p, o),
         p \in BeforeBridge => h[w].pc \in BeforeBridge
  PROVE  KillHolds'
<1>1. h'[w].pc = p /\ h'[w].intent = h[w].intent /\ \A v \in Workers : v # w => h'[v] = h[v]
  BY DEF Goto, KillInv, ClaimInv, TypeOK, HandlerState
<1> QED
  BY <1>1, QuietKeepsKill

(* Every step keeps KillInv.                                               *)
LEMMA KillStep == ASSUME "enqueue" \notin Faults PROVE KillInv /\ [Next]_vars => KillInv'
<1> SUFFICES ASSUME KillInv, [Next]_vars PROVE KillHolds'
  BY ClaimStep DEF KillInv
<1> USE ConstantsAssumption
<1>t. TypeOK
  BY DEF KillInv, ClaimInv
<1>1. ASSUME NEW i \in Intents, Capture(i) \/ CaptureAbort(i) \/ RecoverStalled(i) \/ Expire(i)
      PROVE  KillHolds'
  <2>1. UNCHANGED <<h, binding, broker>>
    BY <1>1 DEF Capture, SelectBinding, CreateIntent, Enqueue, MarkEnqueueFailed, CaptureAbort,
       RecoverStalled, Expire
  <2> QED
    BY <2>1, QuietKeepsKill
<1>2. ASSUME NEW w \in Workers, InnerStep(w) PROVE KillHolds'
  BY <1>2, InnerStepsGoOnward, GotoKeepsKill DEF Onward
<1>3. ASSUME NEW w \in Workers, JobReturns(w) \/ JobThrows(w) \/ WorkerCrash(w) PROVE KillHolds'
  <2>1. h' = [h EXCEPT ![w] = Idle] /\ UNCHANGED <<binding, broker>>
    BY <1>3 DEF JobReturns, JobThrows, WorkerCrash
  <2>2. \A v \in Workers : h'[v] = h[v] \/ h'[v].pc \notin BeforeBridge
    BY <1>t, <2>1 DEF Idle, BeforeBridge, TypeOK
  <2> QED
    BY <2>1, <2>2, QuietKeepsKill
<1>4. ASSUME NEW w \in Workers, NEW i \in Intents, StartJob(w, i) PROVE KillHolds'
  <2>1. \A v \in Workers : h'[v] = h[v] \/ h'[v].pc \notin BeforeBridge
    BY <1>4, <1>t DEF StartJob, BeforeBridge, TypeOK
  <2> QED
    BY <1>4, <2>1, QuietKeepsKill DEF StartJob
<1>5. ASSUME NEW w \in Workers, Load(w) PROVE KillHolds'
  <2>1. UNCHANGED <<binding, broker>> /\ h[w].intent \in Intents
    BY <1>5 DEF Load, At
  <2>2. CASE \E o : Goto(w, "reject", o)
    BY <2>1, <2>2, GotoKeepsKill DEF BeforeBridge
  <2>3. CASE Admissible(h[w].intent) /\ Goto(w, "guard", "none")
    <3>1. /\ h'[w].intent = h[w].intent
          /\ \A v \in Workers : v # w => h'[v] = h[v]
      BY <1>t, <2>3 DEF Goto, TypeOK, HandlerState
    <3>2. broker[h[w].intent].late = 0
      BY <2>1, <2>3 DEF Admissible, KillInv, KillHolds, KillOf
    <3> QED
      BY <2>1, <3>1, <3>2 DEF KillInv, KillHolds, KillOf
  <2> QED
    BY <1>5, <2>2, <2>3 DEF Load
<1>6. ASSUME NEW w \in Workers, Guard(w) PROVE KillHolds'
  <2>1. /\ UNCHANGED broker /\ h[w].pc \in BeforeBridge
        /\ \A b \in Bindings : ~binding'[b].killed => ~binding[b].killed
    <3> DEFINE b == BindingOf[h[w].intent]
    <3>1. b \in Bindings
      BY <1>6 DEF Guard, At
    <3>2. binding' = binding
          \/ binding' = [binding EXCEPT ![b] = [active |-> binding[b].active, killed |-> TRUE]]
      BY <1>6 DEF Guard
    <3> HIDE DEF b
    <3> QED
      BY <1>6, <1>t, <3>1, <3>2 DEF Guard, At, BeforeBridge, TypeOK
  <2>2. \A v \in Workers : h'[v] = h[v] \/ (h[v].pc \in BeforeBridge /\ h'[v].intent = h[v].intent)
    BY <1>6, <1>t, <2>1 DEF Guard, Goto, TypeOK, HandlerState
  <2> QED
    BY <2>1, <2>2 DEF KillInv, KillHolds, KillOf
<1>7. ASSUME NEW w \in Workers, BridgeCall(w) PROVE KillHolds'
  <2>1. PICK i \in Intents : h[w].intent = i
    BY <1>7 DEF BridgeCall, At
  <2>2. Owns(w, i) /\ h[w].pc \in BeforeBridge /\ UNCHANGED binding
    BY <1>7, <2>1 DEF BridgeCall, At, Owns, Owning, BeforeBridge
  <2>3. broker[i].late = 0 /\ broker[i].orders \in Nat /\ broker[i].calls \in Nat
    BY <1>t, <2>1, <2>2 DEF KillInv, KillHolds, KillOf, TypeOK, BrokerRow
  <2>4. h'[w].pc = "reply" /\ \A v \in Workers : v # w => h'[v] = h[v]
    BY <1>7, <1>t DEF BridgeCall, Goto, TypeOK
  <2>5. /\ \A k \in Intents : k # i => broker'[k] = broker[k]
        /\ broker'[i].late <= 1
        /\ ~binding[BindingOf[i]].killed => broker'[i].late = 0
    BY <1>7, <1>t, <2>1, <2>3 DEF BridgeCall, TypeOK
  <2>6. \A v \in Workers : Owns(v, i) => v = w
    BY <2>2 DEF KillInv, ClaimInv, ClaimExclusive
  <2>7. \A v \in Workers : ~(h'[v].intent = i /\ h'[v].pc \in BeforeBridge)
    BY <2>4, <2>6 DEF Owns, Owning, BeforeBridge
  <2>8. ASSUME NEW k \in Intents, k # i PROVE KillOf(k)'
    BY <2>2, <2>4, <2>5, <2>8 DEF KillInv, KillHolds, KillOf, BeforeBridge
  <2>9. KillOf(i)'
    BY <2>2, <2>5, <2>7 DEF KillOf
  <2> QED
    BY <2>8, <2>9 DEF KillHolds
<1>8. ASSUME NEW b \in Bindings, UpdateBinding(b) PROVE KillHolds'
  <2>1. PICK v \in BindingRow :
          /\ binding' = [binding EXCEPT ![b] = v]
          /\ broker' = [i \in Intents |->
               [orders |-> broker[i].orders, reported |-> broker[i].reported, calls |-> broker[i].calls,
                late |-> IF BindingOf[i] = b /\ ~v.killed THEN 0 ELSE broker[i].late]]
    BY <1>8 DEF UpdateBinding
  <2>2. ASSUME NEW i \in Intents PROVE KillOf(i)'
    <3>1. broker'[i].late = IF BindingOf[i] = b /\ ~v.killed THEN 0 ELSE broker[i].late
      BY <2>1
    <3>2. binding'[BindingOf[i]] = IF BindingOf[i] = b THEN v ELSE binding[BindingOf[i]]
      BY <1>t, <2>1 DEF TypeOK
    <3>3. UNCHANGED h
      BY <1>8 DEF UpdateBinding
    <3> QED
      BY <3>1, <3>2, <3>3 DEF KillInv, KillHolds, KillOf
  <2> QED
    BY <2>2 DEF KillHolds
<1>9. CASE UNCHANGED vars
  BY <1>9, QuietKeepsKill DEF vars
<1> QED
  BY <1>1, <1>2, <1>3, <1>4, <1>5, <1>6, <1>7, <1>8, <1>9 DEF Next, Step, InnerStep

(* After the kill switch is activated, an intent places at most one more   *)
(* order before it is released, although process() read the switch several *)
(* awaits earlier and even if every answer is lost.                        *)
THEOREM KillSwitchBounds == ASSUME "enqueue" \notin Faults PROVE Spec => []KillSwitchBound
<1>1. Init => KillInv
  BY ClaimInit, ConstantsAssumption DEF Init, Idle, KillInv, KillHolds, KillOf, BeforeBridge
<1>2. KillInv /\ [Next]_vars => KillInv'
  BY KillStep
<1>3. KillInv => KillSwitchBound
  BY DEF KillInv, KillHolds, KillOf, KillSwitchBound
<1> QED
  BY <1>1, <1>2, <1>3, PTL DEF Spec
-----------------------------------------------------------------------------
(* The budget of bridge calls.                                             *)

(* A set of slots that gains one slot at most, or loses one.               *)
LEMMA OneMore ==
  ASSUME NEW S, IsFiniteSet(S), NEW w, NEW R \in SUBSET (S \cup {w})
  PROVE  /\ IsFiniteSet(R) /\ Cardinality(S) \in Nat /\ Cardinality(R) \in Nat
         /\ Cardinality(R) <= Cardinality(S) + 1
<1>1. /\ IsFiniteSet(S \cup {w}) /\ Cardinality(S) \in Nat
      /\ Cardinality(S \cup {w}) = IF w \in S THEN Cardinality(S) ELSE Cardinality(S) + 1
  BY FS_AddElement, FS_CardinalityType
<1>2. IsFiniteSet(R) /\ Cardinality(R) <= Cardinality(S \cup {w}) /\ Cardinality(R) \in Nat
  BY <1>1, FS_Subset, FS_CardinalityType
<1> QED
  BY <1>1, <1>2

(* One that only loses slots.                                              *)
LEMMA NoMore ==
  ASSUME NEW S, IsFiniteSet(S), NEW R \in SUBSET S
  PROVE  /\ IsFiniteSet(R) /\ Cardinality(S) \in Nat /\ Cardinality(R) \in Nat
         /\ Cardinality(R) <= Cardinality(S)
         /\ R # S => Cardinality(R) < Cardinality(S)
BY FS_Subset, FS_CardinalityType

(* A step that calls nobody and begins no run of the job.                  *)
LEMMA QuietKeepsCalls ==
  ASSUME CallInv, NEW i \in Intents, TypeOK', broker'[i].calls = broker[i].calls,
         \A v \in Workers : v \in Callers(i)' => v \in Callers(i),
         Runs(i) <= Runs(i)'
  PROVE  CallsOf(i)'
<1> DEFINE S == Callers(i)  R == Callers(i)'
<1>1. IsFiniteSet(S) /\ R \in SUBSET S /\ broker[i].calls + Cardinality(S) <= Runs(i)
  BY DEF CallInv, CallsOf, Callers
<1>2. /\ broker[i].calls \in Nat
      /\ Runs(i) \in Nat /\ Runs(i)' \in Nat
  BY ConstantsAssumption DEF CallInv, TypeOK, BrokerRow, JobRow, Runs
<1> HIDE DEF S, R
<1>3. /\ IsFiniteSet(R) /\ Cardinality(S) \in Nat /\ Cardinality(R) \in Nat
      /\ Cardinality(R) <= Cardinality(S)
  BY <1>1, NoMore
<1>4. broker'[i].calls + Cardinality(R) <= Runs(i)'
  BY <1>1, <1>2, <1>3
<1> QED
  BY <1>3, <1>4 DEF CallsOf, R

(* Nor does it forget a job or make an unknown one known.                  *)
LEMMA QuietKeepsQueue ==
  ASSUME CallInv, NEW i \in Intents, job'[i] = job[i],
         cap'[i] \in {"idle", "selected", "created"} => cap[i] \in {"idle", "selected", "created"},
         job[i].state = "absent" => broker'[i].calls = broker[i].calls,
         \A v \in Workers : h'[v].intent = i => h[v].intent = i
  PROVE  QueueOf(i)'
BY DEF CallInv, QueueOf

(* What a handler that goes on does to the callers.                        *)
LEMMA GotoMovesCaller ==
  ASSUME TypeOK, NEW w \in Workers, NEW p, NEW o, Goto(w, p, o)
  PROVE  /\ \A v \in Workers : h'[v].intent = h[v].intent
         /\ \A i \in Intents, v \in Workers : v # w => (v \in Callers(i)' <=> v \in Callers(i))
         /\ \A i \in Intents : w \in Callers(i)' <=> h[w].intent = i /\ p \in BeforeCall
<1>1. /\ h'[w].pc = p /\ h'[w].intent = h[w].intent
      /\ \A v \in Workers : v # w => h'[v] = h[v]
  BY DEF Goto, TypeOK, HandlerState
<1> QED
  BY <1>1 DEF Callers

CallHolds == \A i \in Intents : QueueOf(i) /\ CallsOf(i)

(* Every step keeps CallInv, whatever the faults.                          *)
LEMMA CallStep == CallInv /\ [Next]_vars => CallInv'
<1> SUFFICES ASSUME CallInv, [Next]_vars PROVE CallHolds'
  BY TypeStep DEF CallInv, CallHolds
<1> USE ConstantsAssumption
<1>t. TypeOK /\ TypeOK'
  BY TypeStep DEF CallInv
<1>q. ASSUME NEW i \in Intents PROVE QueueOf(i) /\ CallsOf(i)
  BY <1>q DEF CallInv
<1>1. ASSUME NEW i \in Intents,
             SelectBinding(i) \/ CreateIntent(i) \/ MarkEnqueueFailed(i) \/ CaptureAbort(i) \/ Expire(i)
      PROVE  CallHolds'
  <2>1. /\ UNCHANGED <<job, h, broker>>
        /\ \A k \in Intents : cap'[k] \in {"idle", "selected", "created"} =>
             cap[k] \in {"idle", "selected", "created"}
    BY <1>1, <1>t DEF SelectBinding, CreateIntent, MarkEnqueueFailed, CaptureAbort, Expire, TypeOK
  <2>2. ASSUME NEW k \in Intents PROVE QueueOf(k)' /\ CallsOf(k)'
    <3>1. QueueOf(k)'
      BY <2>1, QuietKeepsQueue
    <3>2. Runs(k)' = Runs(k) /\ Callers(k)' = Callers(k)
      BY <2>1 DEF Runs, Callers
    <3> QED
      BY <1>q, <2>1, <3>1, <3>2 DEF CallsOf
  <2> QED
    BY <2>2 DEF CallHolds
<1>2. ASSUME NEW i \in Intents, Enqueue(i) PROVE CallHolds'
  <2>1. /\ UNCHANGED <<h, broker>> /\ cap[i] = "created" /\ cap'[i] \in {"end", "enqueueFailed"}
        /\ \A k \in Intents : k # i => job'[k] = job[k] /\ cap'[k] = cap[k]
        /\ \/ job'[i] = job[i]
           \/ job'[i] = [state |-> "waiting", attempts |-> 0, holder |-> NoWorker, stalls |-> 0]
    BY <1>2, <1>t DEF Enqueue, AddJob, SetJob, TypeOK
  <2>2. job[i].state = "absent" /\ job[i].attempts = 0 /\ job[i].stalls = 0
    BY <1>q, <2>1 DEF QueueOf
  <2>3. ASSUME NEW k \in Intents PROVE QueueOf(k)' /\ CallsOf(k)'
    <3>1. Runs(k)' = Runs(k) /\ Callers(k)' = Callers(k)
      BY <2>1, <2>2 DEF Runs, Callers
    <3>2. QueueOf(k)'
      BY <1>q, <2>1, <2>2 DEF QueueOf
    <3> QED
      BY <1>q, <2>1, <3>1, <3>2 DEF CallsOf
  <2> QED
    BY <2>3 DEF CallHolds
<1>3. ASSUME NEW i \in Intents, RecoverStalled(i) PROVE CallHolds'
  <2>1. /\ UNCHANGED <<cap, h, broker>> /\ job[i].state = "active"
        /\ \A k \in Intents : k # i => job'[k] = job[k]
        /\ job'[i] = [state |-> IF job[i].stalls < MaxStalled THEN "waiting" ELSE "failed",
                      attempts |-> job[i].attempts, holder |-> NoWorker, stalls |-> job[i].stalls + 1]
    BY <1>3, <1>t DEF RecoverStalled, SetJob, TypeOK
  <2>2. /\ job[i].attempts < MaxAttempts /\ job[i].stalls <= MaxStalled
        /\ job[i].attempts \in Nat /\ job[i].stalls \in Nat
    BY <1>q, <1>t, <2>1 DEF QueueOf, TypeOK, JobRow
  <2>3. ASSUME NEW k \in Intents PROVE QueueOf(k)' /\ CallsOf(k)'
    <3>1. CASE k = i
      <4>1. Runs(i) <= Runs(i)'
        BY <2>1, <2>2 DEF Runs
      <4>2. CallsOf(i)'
        BY <1>t, <2>1, <4>1, QuietKeepsCalls DEF Callers
      <4>3. QueueOf(i)'
        BY <1>q, <2>1, <2>2 DEF QueueOf
      <4> QED
        BY <3>1, <4>2, <4>3
    <3>2. CASE k # i
      <4>1. QueueOf(k)'
        BY <2>1, <3>2, QuietKeepsQueue
      <4>2. Runs(k)' = Runs(k) /\ Callers(k)' = Callers(k)
        BY <2>1, <3>2 DEF Runs, Callers
      <4> QED
        BY <1>q, <2>1, <4>1, <4>2 DEF CallsOf
    <3> QED
      BY <3>1, <3>2
  <2> QED
    BY <2>3 DEF CallHolds
<1>4. ASSUME NEW w \in Workers, NEW p, NEW o, Goto(w, p, o), UNCHANGED <<cap, job>>,
             \A i \in Intents : broker'[i].calls = broker[i].calls,
             p \in BeforeCall => h[w].pc \in BeforeCall
      PROVE  CallHolds'
  <2>1. ASSUME NEW k \in Intents PROVE QueueOf(k)' /\ CallsOf(k)'
    <3>1. \A v \in Workers : h'[v].intent = h[v].intent /\ (v \in Callers(k)' => v \in Callers(k))
      BY <1>4, <1>t, GotoMovesCaller DEF Callers
    <3>2. Runs(k) <= Runs(k)'
      BY <1>4, <1>t DEF Runs, TypeOK, JobRow
    <3> QED
      BY <1>4, <1>t, <3>1, <3>2, QuietKeepsQueue, QuietKeepsCalls
  <2> QED
    BY <2>1 DEF CallHolds
<1>5. ASSUME NEW w \in Workers, InnerStep(w) PROVE CallHolds'
  BY <1>4, <1>5, InnerStepsGoOnward DEF Onward
<1>6. ASSUME NEW w \in Workers, Load(w) \/ Guard(w) PROVE CallHolds'
  <2>1. /\ UNCHANGED <<cap, job, broker>> /\ h[w].pc \in BeforeCall
        /\ \E p, o : Goto(w, p, o)
    BY <1>6 DEF Load, Guard, At, BeforeCall, BeforeBridge
  <2> QED
    BY <1>4, <2>1
<1>7. ASSUME NEW w \in Workers, BridgeCall(w) PROVE CallHolds'
  <2>1. PICK i \in Intents : h[w].intent = i
    BY <1>7 DEF BridgeCall, At
  <2>2. PICK r : Goto(w, "reply", r)
    BY <1>7 DEF BridgeCall
  <2>3. /\ \A v \in Workers : h'[v].intent = h[v].intent
        /\ \A k \in Intents, v \in Workers : v # w => (v \in Callers(k)' <=> v \in Callers(k))
        /\ \A k \in Intents : w \notin Callers(k)'
    BY <1>t, <2>2, GotoMovesCaller DEF BeforeCall, BeforeBridge
  <2>4. /\ UNCHANGED <<cap, job>> /\ w \in Callers(i)
        /\ \A k \in Intents : k # i => broker'[k] = broker[k]
        /\ broker'[i].calls = broker[i].calls + 1
    BY <1>7, <1>t, <2>1 DEF BridgeCall, At, Callers, BeforeCall, BeforeBridge, TypeOK
  <2>5. job[i].state # "absent"
    BY <1>q, <2>1 DEF QueueOf
  <2>6. CallsOf(i)'
    <3> DEFINE S == Callers(i)  R == Callers(i)'
    <3>1. IsFiniteSet(S) /\ R \in SUBSET S /\ R # S /\ broker[i].calls + Cardinality(S) <= Runs(i)
      BY <1>q, <2>3, <2>4 DEF CallsOf, Callers
    <3>2. broker[i].calls \in Nat /\ Runs(i) \in Nat /\ Runs(i)' = Runs(i)
      BY <1>t, <2>4 DEF TypeOK, BrokerRow, JobRow, Runs
    <3> HIDE DEF S, R
    <3>3. /\ IsFiniteSet(R) /\ Cardinality(S) \in Nat /\ Cardinality(R) \in Nat
          /\ Cardinality(R) < Cardinality(S)
      BY <3>1, NoMore
    <3>4. broker'[i].calls + Cardinality(R) <= Runs(i)'
      BY <2>4, <3>1, <3>2, <3>3
    <3> QED
      BY <3>3, <3>4 DEF CallsOf, R
  <2>7. ASSUME NEW k \in Intents, k # i PROVE CallsOf(k)'
    <3>1. Runs(k)' = Runs(k) /\ Callers(k)' = Callers(k)
      BY <2>1, <2>3, <2>4, <2>7 DEF Runs, Callers
    <3> QED
      BY <1>q, <2>4, <2>7, <3>1 DEF CallsOf
  <2>8. ASSUME NEW k \in Intents PROVE QueueOf(k)'
    BY <2>3, <2>4, <2>5, QuietKeepsQueue
  <2> QED
    BY <2>6, <2>7, <2>8 DEF CallHolds
<1>8. ASSUME NEW w \in Workers, JobReturns(w) \/ JobThrows(w) \/ WorkerCrash(w) PROVE CallHolds'
  <2>1. UNCHANGED <<cap, broker>> /\ h' = [h EXCEPT ![w] = Idle]
    BY <1>8 DEF JobReturns, JobThrows, WorkerCrash
  <2>2. \A v \in Workers : h'[v] = h[v] \/ h'[v] = Idle
    BY <1>t, <2>1 DEF TypeOK
  <2>3. ASSUME NEW k \in Intents PROVE \A v \in Workers : h'[v].intent = k => h'[v] = h[v]
    BY <2>2 DEF Idle
  <2>4. ASSUME NEW k \in Intents PROVE \A v \in Workers : v \in Callers(k)' => v \in Callers(k)
    BY <2>3 DEF Callers
  <2>5. CASE UNCHANGED job
    <3>1. ASSUME NEW k \in Intents PROVE QueueOf(k)' /\ CallsOf(k)'
      <4>1. Runs(k) <= Runs(k)'
        BY <1>t, <2>5 DEF Runs, TypeOK, JobRow
      <4> QED
        BY <1>t, <2>1, <2>3, <2>4, <2>5, <4>1, QuietKeepsQueue, QuietKeepsCalls
    <3> QED
      BY <3>1 DEF CallHolds
  <2>6. CASE job' # job
    <3>1. PICK i \in Intents : h[w].intent = i /\ job[i].holder = w
      BY <1>8, <2>6 DEF JobReturns, JobThrows, WorkerCrash, At
    <3>2. job[i].state = "active"
      BY <1>q, <3>1 DEF QueueOf
    <3>3. /\ job[i].attempts < MaxAttempts /\ job[i].stalls <= MaxStalled
          /\ job[i].attempts \in Nat /\ job[i].stalls \in Nat
      BY <1>q, <1>t, <3>2 DEF QueueOf, TypeOK, JobRow
    <3>4. /\ \A k \in Intents : k # i => job'[k] = job[k]
          /\ \/ job'[i] = [state |-> "completed", attempts |-> job[i].attempts,
                          holder |-> NoWorker, stalls |-> job[i].stalls]
             \/ job'[i] = [state |-> IF job[i].attempts + 1 < MaxAttempts THEN "waiting" ELSE "failed",
                          attempts |-> job[i].attempts + 1, holder |-> NoWorker, stalls |-> job[i].stalls]
      BY <1>8, <1>t, <2>6, <3>1 DEF JobReturns, JobThrows, WorkerCrash, SetJob, TypeOK
    <3>5. QueueOf(i)' /\ Runs(i) <= Runs(i)'
      BY <1>q, <2>1, <3>2, <3>3, <3>4 DEF QueueOf, Runs
    <3>6. CallsOf(i)'
      BY <1>t, <2>1, <2>4, <3>5, QuietKeepsCalls
    <3>7. ASSUME NEW k \in Intents, k # i PROVE QueueOf(k)' /\ CallsOf(k)'
      <4>1. Runs(k) <= Runs(k)'
        BY <1>t, <3>4, <3>7 DEF Runs, TypeOK, JobRow
      <4> QED
        BY <1>t, <2>1, <2>3, <2>4, <3>4, <3>7, <4>1, QuietKeepsQueue, QuietKeepsCalls
    <3> QED
      BY <3>5, <3>6, <3>7 DEF CallHolds
  <2> QED
    BY <2>5, <2>6
<1>9. ASSUME NEW w \in Workers, NEW i \in Intents, StartJob(w, i) PROVE CallHolds'
  <2>1. /\ UNCHANGED <<cap, broker>> /\ job[i].state = "waiting"
        /\ \A k \in Intents : k # i => job'[k] = job[k]
        /\ job'[i] = [state |-> "active", attempts |-> job[i].attempts, holder |-> w, stalls |-> job[i].stalls]
        /\ \A v \in Workers : v # w => h'[v] = h[v]
        /\ h[w] = Idle /\ h'[w].intent = i
    BY <1>9, <1>t DEF StartJob, SetJob, TypeOK
  <2>2. job[i].attempts \in Nat /\ job[i].stalls \in Nat
    BY <1>t DEF TypeOK, JobRow
  <2>3. CallsOf(i)'
    <3> DEFINE S == Callers(i)  R == Callers(i)'
    <3>1. IsFiniteSet(S) /\ R \in SUBSET (S \cup {w}) /\ broker[i].calls + Cardinality(S) <= Runs(i)
      BY <1>q, <2>1 DEF CallsOf, Callers
    <3>2. broker[i].calls \in Nat /\ Runs(i) \in Nat /\ Runs(i)' = Runs(i) + 1
      BY <1>t, <2>1, <2>2 DEF TypeOK, BrokerRow, Runs
    <3> HIDE DEF S, R
    <3>3. /\ IsFiniteSet(R) /\ Cardinality(S) \in Nat /\ Cardinality(R) \in Nat
          /\ Cardinality(R) <= Cardinality(S) + 1
      BY <3>1, OneMore
    <3>4. broker'[i].calls + Cardinality(R) <= Runs(i)'
      BY <2>1, <3>1, <3>2, <3>3
    <3> QED
      BY <3>3, <3>4 DEF CallsOf, R
  <2>4. QueueOf(i)'
    BY <1>q, <2>1 DEF QueueOf
  <2>5. ASSUME NEW k \in Intents, k # i PROVE QueueOf(k)' /\ CallsOf(k)'
    <3>1. Runs(k) <= Runs(k)'
      BY <1>t, <2>1, <2>5 DEF Runs, TypeOK, JobRow
    <3>2. \A v \in Workers : h'[v].intent = k => h'[v] = h[v]
      BY <2>1, <2>5
    <3>3. \A v \in Workers : v \in Callers(k)' => v \in Callers(k)
      BY <3>2 DEF Callers
    <3> QED
      BY <1>t, <2>1, <2>5, <3>1, <3>2, <3>3, QuietKeepsQueue, QuietKeepsCalls
  <2> QED
    BY <2>3, <2>4, <2>5 DEF CallHolds
<1>10. ASSUME UNCHANGED <<cap, job, h>>, \A i \in Intents : broker'[i].calls = broker[i].calls
       PROVE  CallHolds'
  <2>1. ASSUME NEW k \in Intents PROVE QueueOf(k)' /\ CallsOf(k)'
    <3>1. Runs(k)' = Runs(k) /\ Callers(k)' = Callers(k)
      BY <1>10 DEF Runs, Callers
    <3> QED
      BY <1>q, <1>10, <3>1, QuietKeepsQueue DEF CallsOf
  <2> QED
    BY <2>1 DEF CallHolds
<1>11. ASSUME NEW b \in Bindings, UpdateBinding(b) PROVE CallHolds'
  BY <1>10, <1>11 DEF UpdateBinding
<1>12. CASE UNCHANGED vars
  BY <1>10, <1>12 DEF vars
<1> QED
  BY <1>1, <1>2, <1>3, <1>5, <1>6, <1>7, <1>8, <1>9, <1>11, <1>12 DEF Next, Capture, Step, InnerStep

(* No call was made and no job exists at first.                            *)
LEMMA CallInit == Init => CallInv
<1> SUFFICES ASSUME Init PROVE CallInv
  OBVIOUS
<1>1. ASSUME NEW i \in Intents PROVE QueueOf(i) /\ CallsOf(i)
  <2>1. Callers(i) = {}
    BY DEF Init, Idle, Callers, BeforeCall, BeforeBridge
  <2>2. broker[i].calls = 0 /\ Runs(i) = 0 /\ QueueOf(i)
    BY ConstantsAssumption DEF Init, Idle, Runs, QueueOf
  <2> QED
    BY <2>1, <2>2, FS_EmptySet DEF CallsOf
<1> QED
  BY <1>1, TypeInit DEF CallInv

(* Under every fault, the bridge is called for an intent at most once per  *)
(* attempt and per stall of its job.                                       *)
THEOREM CallsAreBudgeted == Spec => []CallBudget
<1>1. Init => CallInv
  BY CallInit
<1>2. CallInv /\ [Next]_vars => CallInv'
  BY CallStep
<1>3. ASSUME CallInv PROVE CallBudget
  <2>1. ASSUME NEW i \in Intents PROVE broker[i].calls <= MaxAttempts + MaxStalled
    <3>1. /\ broker[i].calls \in Nat /\ Cardinality(Callers(i)) \in Nat
          /\ job[i].attempts \in Nat /\ job[i].stalls \in Nat
          /\ MaxAttempts \in Nat /\ MaxStalled \in Nat
      BY <1>3, FS_CardinalityType, ConstantsAssumption DEF CallInv, CallsOf, TypeOK, BrokerRow, JobRow
    <3>2. Runs(i) <= MaxAttempts + MaxStalled
      BY <1>3, <3>1 DEF CallInv, QueueOf, Runs, TypeOK, JobRow, JobState
    <3>3. Runs(i) \in Nat /\ broker[i].calls + Cardinality(Callers(i)) <= Runs(i)
      BY <1>3, <3>1 DEF CallInv, CallsOf, Runs
    <3> QED
      BY <3>1, <3>2, <3>3
  <2> QED
    BY <2>1 DEF CallBudget
<1> QED
  BY <1>1, <1>2, <1>3, PTL DEF Spec
-----------------------------------------------------------------------------
(* What is closed without an order.                                        *)

(* Only the capture, the claim and the owner write the row.                *)
LEMMA CaptureRowStep ==
  ASSUME "enqueue" \notin Faults PROVE ClaimInv /\ CaptureRow /\ [Next]_vars => CaptureRow'
<1> SUFFICES ASSUME ClaimInv, CaptureRow, [Next]_vars PROVE CaptureRow'
  OBVIOUS
<1>1. ASSUME NEW i \in Intents,
             SelectBinding(i) \/ CreateIntent(i) \/ Enqueue(i) \/ MarkEnqueueFailed(i) \/ CaptureAbort(i)
      PROVE  CaptureRow'
  BY <1>1 DEF SelectBinding, CreateIntent, Enqueue, MarkEnqueueFailed, CaptureAbort, CaptureRow, ClaimInv, TypeOK
<1>2. ASSUME NEW w \in Workers, NEW s, NEW d, h[w].intent \in Intents, SetIntent(w, s, d), UNCHANGED cap
      PROVE  CaptureRow'
  <2>1. cap[h[w].intent] = "end"
    BY <1>2 DEF ClaimInv, CapturePrivate
  <2>2. \A i \in Intents : i # h[w].intent => intent'[i] = intent[i]
    BY <1>2 DEF SetIntent, ClaimInv, TypeOK
  <2> QED
    BY <1>2, <2>1, <2>2 DEF CaptureRow
<1>3. CASE UNCHANGED <<cap, intent>>
  BY <1>3 DEF CaptureRow
<1>4. ASSUME NEW w \in Workers,
             Claim(w) \/ RejectIntent(w) \/ SettleIntent(w) \/ RequeueIntent(w) \/ CatchError(w)
      PROVE  CaptureRow'
  <2>1. h[w].intent \in Intents /\ UNCHANGED cap
    BY <1>4, Zenon DEF Claim, RejectIntent, SettleIntent, RequeueIntent, CatchError, At
  <2>2. UNCHANGED intent \/ \E s, d : SetIntent(w, s, d)
    BY <1>4, Zenon DEF Claim, RejectIntent, SettleIntent, RequeueIntent, CatchError
  <2> QED
    BY <1>2, <1>3, <2>1, <2>2
<1> QED
  BY <1>1, <1>3, <1>4
     DEF Next, Capture, Step, vars, RecoverStalled, Expire, Load, Guard, FindCommand, CreateCommand,
     ValidateCommand, DispatchCommand, BridgeCall, RecordReply, DeferReconciliation, ConcealReply,
     LoadResult, JobReturns, JobThrows, WorkerCrash, DbError, StartJob, UpdateBinding

(* A step that touches no command and no order, rewrites no intent that    *)
(* has one, and makes nobody an owner.                                     *)
LEMMA QuietKeepsTold ==
  ASSUME ToldInv, UNCHANGED cmd,
         \A i \in Intents : broker'[i].orders = broker[i].orders,
         \A i \in Intents : broker[i].orders >= 1 => intent'[i] = intent[i],
         \A v \in Workers : h'[v] = h[v] \/ h'[v].pc \notin Owning
  PROVE  ToldHolds'
<1>1. ASSUME NEW i \in Intents PROVE OrderTold(i)'
  BY DEF ToldInv, ToldHolds, OrderTold, Owns, Told
<1>2. ASSUME NEW v \in Workers PROVE NoCatch(v)'
  BY DEF ToldInv, ToldHolds, NoCatch, Owning
<1> QED
  BY <1>1, <1>2 DEF ToldHolds

(* A step of the owner of intent i, which goes on at p.                    *)
LEMMA OwnerKeepsTold ==
  ASSUME ToldInv, NEW w \in Workers, NEW i \in Intents, Owns(w, i),
         NEW p, NEW o, Goto(w, p, o), p \notin {"conceal", "error"},
         \A k \in Intents : k # i =>
           cmd'[k] = cmd[k] /\ broker'[k].orders = broker[k].orders /\ intent'[k] = intent[k],
         p = "create" => cmd'[i].status = "absent",
         broker'[i].orders >= 1 =>
           /\ intent'[i].status \in {"PROCESSING", "EXECUTED"}
           /\ p \in Owning => Told(w, i)'
  PROVE  ToldHolds'
<1>1. /\ \A v \in Workers : v # w => h'[v] = h[v] /\ ~Owns(v, i)
      /\ h'[w].intent = i /\ h'[w].pc = p
  BY DEF Goto, ToldInv, OrderInv, ClaimInv, TypeOK, HandlerState, ClaimExclusive, Owns
<1>2. OrderTold(i)'
  BY <1>1 DEF OrderTold, Owns
<1>3. ASSUME NEW k \in Intents, k # i PROVE OrderTold(k)'
  BY <1>1, <1>3 DEF ToldInv, ToldHolds, OrderTold, Owns, Told
<1>4. NoCatch(w)'
  BY <1>1 DEF NoCatch
<1>5. ASSUME NEW v \in Workers, v # w PROVE NoCatch(v)'
  BY <1>1, <1>5 DEF ToldInv, ToldHolds, NoCatch, Owns, Owning
<1> QED
  BY <1>2, <1>3, <1>4, <1>5 DEF ToldHolds

(* Truthful answers and a working database.                                *)
Benign == {"enqueue", "ambiguous", "db"} \cap Faults = {}

(* The owner of an intent without an order places none, and leaves a point *)
(* where it could have one.                                                *)
LEMMA FreshKeepsTold ==
  ASSUME ToldInv, NEW w \in Workers, NEW i \in Intents, h[w].intent = i,
         h[w].pc \in Owning \ {"reply", "defer", "result", "settle"},
         NEW p, NEW o, Goto(w, p, o), p \notin {"conceal", "error"},
         \A k \in Intents : k # i => cmd'[k] = cmd[k] /\ intent'[k] = intent[k],
         \A k \in Intents : broker'[k].orders = broker[k].orders,
         p = "create" => cmd'[i].status = "absent"
  PROVE  ToldHolds'
<1>1. Owns(w, i) /\ ~Told(w, i)
  BY DEF Owns, Told
<1>2. broker[i].orders \in Nat /\ ~(broker[i].orders >= 1)
  BY <1>1 DEF ToldInv, ToldHolds, OrderTold, OrderInv, ClaimInv, TypeOK, BrokerRow
<1> QED
  BY <1>1, <1>2, OwnerKeepsTold

(* Every step keeps ToldInv.                                               *)
LEMMA ToldStep == ASSUME Benign PROVE ToldInv /\ [Next]_vars => ToldInv'
<1> SUFFICES ASSUME ToldInv, [Next]_vars PROVE ToldHolds'
  BY OrderStep, CaptureRowStep DEF ToldInv, OrderInv, Benign
<1> USE ConstantsAssumption
<1>t. TypeOK
  BY DEF ToldInv, OrderInv, ClaimInv
<1>c. ASSUME NEW w \in Workers PROVE NoCatch(w)
  BY <1>c DEF ToldInv, ToldHolds
<1>1. ASSUME NEW i \in Intents, MarkEnqueueFailed(i) \/ CreateIntent(i) PROVE ToldHolds'
  <2>1. intent[i].status \in {"absent", "QUEUED"}
    BY <1>1 DEF MarkEnqueueFailed, CreateIntent, ToldInv, CaptureRow
  <2>2. ~(broker[i].orders >= 1)
    BY <2>1 DEF ToldInv, ToldHolds, OrderTold
  <2>3. UNCHANGED <<cmd, h, broker>> /\ \A k \in Intents : k # i => intent'[k] = intent[k]
    BY <1>1, <1>t DEF MarkEnqueueFailed, CreateIntent, TypeOK
  <2> QED
    BY <2>2, <2>3, QuietKeepsTold
<1>2. ASSUME NEW i \in Intents,
             SelectBinding(i) \/ Enqueue(i) \/ CaptureAbort(i) \/ RecoverStalled(i) \/ Expire(i)
      PROVE  ToldHolds'
  <2>1. UNCHANGED <<intent, cmd, h, broker>>
    BY <1>2 DEF SelectBinding, Enqueue, CaptureAbort, RecoverStalled, Expire
  <2> QED
    BY <2>1, QuietKeepsTold
<1>3. ASSUME NEW w \in Workers, JobReturns(w) \/ JobThrows(w) \/ WorkerCrash(w) PROVE ToldHolds'
  <2>1. h' = [h EXCEPT ![w] = Idle] /\ UNCHANGED <<intent, cmd, broker>>
    BY <1>3 DEF JobReturns, JobThrows, WorkerCrash
  <2>2. \A v \in Workers : h'[v] = h[v] \/ h'[v].pc \notin Owning
    BY <1>t, <2>1 DEF Idle, Owning, TypeOK
  <2> QED
    BY <2>1, <2>2, QuietKeepsTold
<1>4. ASSUME NEW w \in Workers, NEW i \in Intents, StartJob(w, i) PROVE ToldHolds'
  <2>1. \A v \in Workers : h'[v] = h[v] \/ h'[v].pc \notin Owning
    BY <1>4, <1>t DEF StartJob, Owning, TypeOK
  <2> QED
    BY <1>4, <2>1, QuietKeepsTold DEF StartJob
<1>5. ASSUME NEW w \in Workers, Claim(w) PROVE ToldHolds'
  <2>1. PICK i \in Intents : h[w].intent = i
    BY <1>5 DEF Claim, At
  <2>2. CASE intent[i].status \in {"QUEUED", "FAILED"}
    <3>1. /\ Goto(w, "load", "none") /\ UNCHANGED <<cmd, broker>>
          /\ \A k \in Intents : k # i => intent'[k] = intent[k]
      BY <1>5, <1>t, <2>1, <2>2 DEF Claim, SetIntent, TypeOK
    <3>2. ~(broker[i].orders >= 1)
      BY <2>2 DEF ToldInv, ToldHolds, OrderTold
    <3>3. /\ \A v \in Workers : v # w => h'[v] = h[v]
          /\ h'[w].intent = i /\ h'[w].pc = "load"
      BY <1>t, <2>1, <3>1 DEF Goto, TypeOK, HandlerState
    <3>4. ASSUME NEW k \in Intents PROVE OrderTold(k)'
      BY <3>1, <3>2, <3>3 DEF ToldInv, ToldHolds, OrderTold, Owns, Told
    <3>5. ASSUME NEW v \in Workers PROVE NoCatch(v)'
      BY <1>c, <3>1, <3>3 DEF NoCatch
    <3> QED
      BY <3>4, <3>5 DEF ToldHolds
  <2>3. CASE intent[i].status \notin {"QUEUED", "FAILED"}
    <3>1. Goto(w, "return", "none") /\ UNCHANGED <<intent, cmd, broker>>
      BY <1>5, <2>1, <2>3 DEF Claim
    <3>2. \A v \in Workers : h'[v] = h[v] \/ h'[v].pc \notin Owning
      BY <1>t, <3>1 DEF Goto, Owning, TypeOK
    <3> QED
      BY <3>1, <3>2, QuietKeepsTold
  <2> QED
    BY <2>2, <2>3
<1>6. ASSUME NEW w \in Workers, Load(w) \/ Guard(w) \/ FindCommand(w) PROVE ToldHolds'
  <2>1. PICK i \in Intents : h[w].intent = i
    BY <1>6 DEF Load, Guard, FindCommand, At
  <2>2. h[w].pc \in Owning \ {"reply", "defer", "result", "settle"}
        /\ UNCHANGED <<intent, cmd, broker>>
    BY <1>6 DEF Load, Guard, FindCommand, At, Owning
  <2>3. CASE Load(w) \/ Guard(w)
    <3>1. \E p, o : Goto(w, p, o) /\ p \notin {"conceal", "error", "create"}
      BY <2>3 DEF Load, Guard
    <3> QED
      BY <2>1, <2>2, <3>1, FreshKeepsTold
  <2>4. CASE FindCommand(w)
    <3>1. PICK p, o : /\ Goto(w, p, o) /\ p \notin {"conceal", "error"}
                      /\ p = "create" => cmd[i].status = "absent"
      BY <2>1, <2>4 DEF FindCommand
    <3> QED
      BY <2>1, <2>2, <3>1, FreshKeepsTold
  <2> QED
    BY <1>6, <2>3, <2>4
<1>7. ASSUME NEW w \in Workers, RejectIntent(w) \/ RequeueIntent(w) PROVE ToldHolds'
  <2>1. PICK i \in Intents : h[w].intent = i
    BY <1>7 DEF RejectIntent, RequeueIntent, At
  <2>2. /\ h[w].pc \in Owning \ {"reply", "defer", "result", "settle"} /\ UNCHANGED <<cmd, broker>>
        /\ \A k \in Intents : k # i => intent'[k] = intent[k]
        /\ \E p, o : Goto(w, p, o) /\ p \notin {"conceal", "error", "create"}
    BY <1>7, <1>t, <2>1 DEF RejectIntent, RequeueIntent, At, Owning, SetIntent, TypeOK
  <2> QED
    BY <2>1, <2>2, FreshKeepsTold
<1>8. ASSUME NEW w \in Workers, CreateCommand(w) \/ ValidateCommand(w) \/ DispatchCommand(w) PROVE ToldHolds'
  <2>1. PICK i \in Intents : h[w].intent = i
    BY <1>8 DEF CreateCommand, ValidateCommand, DispatchCommand, At
  <2>2. /\ h[w].pc \in Owning \ {"reply", "defer", "result", "settle"} /\ UNCHANGED <<intent, broker>>
        /\ \A k \in Intents : k # i => cmd'[k] = cmd[k]
    BY <1>8, <1>t, <2>1 DEF CreateCommand, ValidateCommand, DispatchCommand, At, Owning, SetCmd, TypeOK
  <2>3. \E p, o : Goto(w, p, o) /\ p \notin {"conceal", "error", "create"}
    BY <1>8, <1>c, <2>1 DEF CreateCommand, ValidateCommand, DispatchCommand, At, NoCatch
  <2> QED
    BY <2>1, <2>2, <2>3, FreshKeepsTold
<1>o. ASSUME NEW w \in Workers, NEW i \in Intents, Owns(w, i), broker[i].orders >= 1
      PROVE  Told(w, i) /\ intent[i].status = "PROCESSING"
  BY <1>o DEF ToldInv, ToldHolds, OrderTold, OrderInv, ClaimInv, ClaimExclusive
<1>9. ASSUME NEW w \in Workers, BridgeCall(w) PROVE ToldHolds'
  <2>1. PICK i \in Intents : h[w].intent = i
    BY <1>9 DEF BridgeCall, At
  <2>2. Owns(w, i) /\ UNCHANGED <<intent, cmd>> /\ \A k \in Intents : k # i => broker'[k] = broker[k]
    BY <1>9, <1>t, <2>1 DEF BridgeCall, At, Owns, Owning, TypeOK
  <2>3. ~(broker[i].orders >= 1) /\ broker[i].orders \in Nat /\ intent[i].status = "PROCESSING"
    BY <1>9, <1>o, <1>t, <2>2 DEF BridgeCall, At, Told, TypeOK, BrokerRow, ToldInv, OrderInv, ClaimInv, ClaimExclusive
  <2>4. PICK r : Goto(w, "reply", r) /\ (broker'[i].orders >= 1 => r = "accepted")
    BY <1>9, <1>t, <2>1, <2>3 DEF BridgeCall, Benign, TypeOK
  <2>5. h'[w].pc = "reply" /\ h'[w].out = r
    BY <1>t, <2>4 DEF Goto, TypeOK
  <2> QED
    BY <2>2, <2>3, <2>4, <2>5, OwnerKeepsTold DEF Told
<1>10. ASSUME NEW w \in Workers, RecordReply(w) PROVE ToldHolds'
  <2>1. PICK i \in Intents : h[w].intent = i
    BY <1>10 DEF RecordReply, At
  <2>2. /\ Owns(w, i) /\ h[w].pc = "reply" /\ UNCHANGED <<intent, broker>>
        /\ \A k \in Intents : k # i => cmd'[k] = cmd[k]
    BY <1>10, <1>t, <2>1 DEF RecordReply, At, Owns, Owning, SetCmd, TypeOK
  <2>3. PICK p, o : /\ Goto(w, p, o) /\ p \in {"defer", "result"}
                    /\ h[w].out = "accepted" => cmd'[i].status = "COMPLETED"
    BY <1>10, <1>t, <2>1 DEF RecordReply, SetCmd, TypeOK
  <2>4. h'[w].pc = p
    BY <1>t, <2>3 DEF Goto, TypeOK
  <2>5. broker'[i].orders >= 1 => Told(w, i)' /\ intent'[i].status = "PROCESSING"
    BY <1>o, <2>2, <2>3, <2>4 DEF Told
  <2> QED
    BY <2>2, <2>3, <2>5, OwnerKeepsTold
<1>11. ASSUME NEW w \in Workers, DeferReconciliation(w) \/ LoadResult(w) PROVE ToldHolds'
  <2>1. PICK i \in Intents : h[w].intent = i
    BY <1>11 DEF DeferReconciliation, LoadResult, At
  <2>2. /\ Owns(w, i) /\ h[w].pc \in {"defer", "result"} /\ UNCHANGED <<intent, cmd, broker>>
    BY <1>11, <2>1 DEF DeferReconciliation, LoadResult, At, Owns, Owning
  <2>3. PICK p, o : /\ Goto(w, p, o) /\ p \in {"result", "requeue", "settle"}
                    /\ cmd[i].status = "COMPLETED" => p = "result" \/ (p = "settle" /\ o = "EXECUTED")
    BY <1>11, <2>1 DEF DeferReconciliation, LoadResult, Retryable, StatusFor
  <2>4. h'[w].pc = p /\ h'[w].out = o
    BY <1>t, <2>3 DEF Goto, TypeOK
  <2>5. broker'[i].orders >= 1 => Told(w, i)' /\ intent'[i].status = "PROCESSING"
    BY <1>o, <2>2, <2>3, <2>4 DEF Told
  <2> QED
    BY <2>2, <2>3, <2>5, OwnerKeepsTold
<1>12. ASSUME NEW w \in Workers, SettleIntent(w) PROVE ToldHolds'
  <2>1. PICK i \in Intents : h[w].intent = i
    BY <1>12 DEF SettleIntent, At
  <2>2. /\ Owns(w, i) /\ h[w].pc = "settle" /\ UNCHANGED <<cmd, broker>>
        /\ Goto(w, "return", "none")
        /\ \A k \in Intents : k # i => intent'[k] = intent[k]
        /\ intent'[i].status = h[w].out
    BY <1>12, <1>t, <2>1 DEF SettleIntent, At, Owns, Owning, SetIntent, TypeOK
  <2>3. broker'[i].orders >= 1 => intent'[i].status = "EXECUTED"
    BY <1>o, <2>2 DEF Told
  <2> QED
    BY <2>2, <2>3, OwnerKeepsTold DEF Owning
<1>13. ASSUME NEW w \in Workers, ConcealReply(w) \/ CatchError(w) \/ DbError(w) PROVE FALSE
  <2>1. h[w].pc \in {"conceal", "error"} \/ "db" \in Faults
    BY <1>13, Zenon DEF ConcealReply, CatchError, DbError, At
  <2> QED
    BY <1>c, <2>1 DEF NoCatch, Benign
<1>14. ASSUME NEW b \in Bindings, UpdateBinding(b) PROVE ToldHolds'
  BY <1>14, QuietKeepsTold DEF UpdateBinding
<1>15. CASE UNCHANGED vars
  BY <1>15, QuietKeepsTold DEF vars
<1> QED
  BY <1>1, <1>2, <1>3, <1>4, <1>5, <1>6, <1>7, <1>8, <1>9, <1>10, <1>11, <1>12, <1>13, <1>14, <1>15
     DEF Next, Capture, Step

(* No order was placed at first.                                           *)
LEMMA ToldInit == Init => ToldInv
<1> SUFFICES ASSUME Init PROVE ToldInv
  OBVIOUS
<1>1. CaptureRow
  BY DEF Init, CaptureRow
<1>2. ToldHolds
  BY DEF Init, Idle, ToldHolds, OrderTold, NoCatch
<1> QED
  BY <1>1, <1>2, OrderInit DEF ToldInv

(* With truthful answers and a working database, an intent closed as       *)
(* REJECTED or FAILED has no order, however workers crash and jobs stall.  *)
THEOREM ClosedIntentsHaveNoOrder == ASSUME Benign PROVE Spec => []ClosedWithoutOrder
<1>1. Init => ToldInv
  BY ToldInit
<1>2. ToldInv /\ [Next]_vars => ToldInv'
  BY ToldStep
<1>3. ToldInv => ClosedWithoutOrder
  BY DEF ToldInv, ToldHolds, OrderTold, ClosedWithoutOrder, OrderInv, ClaimInv, TypeOK, BrokerRow
<1> QED
  BY <1>1, <1>2, <1>3, PTL DEF Spec
-----------------------------------------------------------------------------
(* The promise.                                                            *)

PromiseInv == ToldInv /\ VerdictInv

(* What each row says to an operator.                                      *)
Says(i) ==
  /\ intent[i].status = "absent" => Outcome(i) = "absent"
  /\ intent[i].status \in {"QUEUED", "PROCESSING"} => Outcome(i) = "open"
  /\ intent[i].status = "EXECUTED" => Outcome(i) = "executed"
  /\ intent[i].status = "REJECTED" => Outcome(i) = "rejected"
  /\ intent[i].status = "FAILED" /\ intent[i].done => Outcome(i) = "failed"
  /\ intent[i].status = "FAILED" /\ ~intent[i].done => Outcome(i) = "open"

(* The outcome of a row, in any state and the next.                        *)
LEMMA OutcomeIs ==
  ASSUME NEW i \in Intents PROVE (TypeOK => Says(i)) /\ (TypeOK' => Says(i)')
BY DEF Says, Outcome, TypeOK, IntentRow, IntentStatus

(* A step that moves neither a row's outcome nor an order.                 *)
LEMMA Stutters ==
  ASSUME \A k \in Intents : Outcome(k)' = Outcome(k) /\ broker'[k].orders = broker[k].orders
  PROVE  UNCHANGED <<[k \in Intents |-> Outcome(k)], [k \in Intents |-> broker[k].orders]>>
OBVIOUS

(* One that moves them for intent i only, the three ways it may.           *)
LEMMA Opens ==
  ASSUME NEW i \in Intents, \A k \in Intents : broker'[k].orders = broker[k].orders,
         \A k \in Intents : k # i => Outcome(k)' = Outcome(k),
         Outcome(i) \in {"absent", "failed"}, Outcome(i)' = "open"
  PROVE  Promise!Open(i)
BY DEF Promise!Open

(* The bridge call that places the order.                                  *)
LEMMA Places ==
  ASSUME NEW i \in Intents, \A k \in Intents : Outcome(k)' = Outcome(k),
         \A k \in Intents : k # i => broker'[k].orders = broker[k].orders,
         Outcome(i) = "open", broker[i].orders = 0, broker'[i].orders = 1
  PROVE  Promise!Place(i)
BY DEF Promise!Place

(* The settlement.                                                         *)
LEMMA Closes ==
  ASSUME NEW i \in Intents, \A k \in Intents : broker'[k].orders = broker[k].orders,
         \A k \in Intents : k # i => Outcome(k)' = Outcome(k),
         Outcome(i) = "open",
         \/ broker[i].orders = 1 /\ Outcome(i)' = "executed"
         \/ broker[i].orders = 0 /\ Outcome(i)' \in {"rejected", "failed"}
  PROVE  Promise!Close(i)
<1>1. [k \in Intents |-> Outcome(k)]' = [[k \in Intents |-> Outcome(k)] EXCEPT ![i] = Outcome(i)']
  OBVIOUS
<1>2. Outcome(i)' \in IF broker[i].orders = 1 THEN {"executed"} ELSE {"rejected", "failed"}
  OBVIOUS
<1> QED
  BY <1>1, <1>2 DEF Promise!Close

(* The writes of one row, by what they make of its outcome.                *)
LEMMA OthersKeep ==
  ASSUME NEW i \in Intents, \A k \in Intents : k # i => intent'[k] = intent[k]
  PROVE  \A k \in Intents : k # i => Outcome(k)' = Outcome(k)
BY DEF Outcome

(* Every step is one of the promise, or a stutter.                         *)
LEMMA PromiseStep ==
  ASSUME Benign, PromiseInv, PromiseInv', [Next]_vars
  PROVE  [Promise!Next]_<<[i \in Intents |-> Outcome(i)], [i \in Intents |-> broker[i].orders]>>
<1> DEFINE Goal == [Promise!Next]_<<[i \in Intents |-> Outcome(i)], [i \in Intents |-> broker[i].orders]>>
<1> SUFFICES Goal
  OBVIOUS
<1> USE ConstantsAssumption
<1>t. TypeOK /\ TypeOK'
  BY DEF PromiseInv, ToldInv, OrderInv, ClaimInv
<1>s. ASSUME UNCHANGED intent, \A k \in Intents : broker'[k].orders = broker[k].orders PROVE Goal
  <2>1. \A k \in Intents : Outcome(k)' = Outcome(k)
    BY <1>s DEF Outcome
  <2> QED
    BY <1>s, <2>1, Stutters
<1>o. ASSUME NEW i \in Intents, Promise!Open(i) \/ Promise!Place(i) \/ Promise!Close(i) PROVE Goal
  BY <1>o DEF Promise!Next
<1> HIDE DEF Goal
<1>1. ASSUME NEW i \in Intents, CreateIntent(i) PROVE Goal
  <2>1. /\ UNCHANGED broker /\ \A k \in Intents : k # i => intent'[k] = intent[k]
        /\ intent[i].status = "absent" /\ intent'[i].status = "QUEUED"
    BY <1>1, <1>t DEF CreateIntent, TypeOK, PromiseInv, ToldInv, CaptureRow
  <2>2. Outcome(i) = "absent" /\ Outcome(i)' = "open"
    BY <1>t, <2>1, OutcomeIs DEF Says
  <2>3. Promise!Open(i)
    BY <2>1, <2>2, OthersKeep, Opens
  <2> QED
    BY <2>3, <1>o
<1>2. ASSUME NEW i \in Intents, MarkEnqueueFailed(i) PROVE Goal
  <2>1. /\ UNCHANGED broker /\ \A k \in Intents : k # i => intent'[k] = intent[k]
        /\ intent[i].status = "QUEUED" /\ intent'[i].status = "FAILED" /\ intent'[i].done
    BY <1>2, <1>t DEF MarkEnqueueFailed, TypeOK, PromiseInv, ToldInv, CaptureRow
  <2>2. Outcome(i) = "open" /\ Outcome(i)' = "failed"
    BY <1>t, <2>1, OutcomeIs DEF Says
  <2>3. broker[i].orders = 0
    BY <1>t, <2>1 DEF PromiseInv, ToldInv, ToldHolds, OrderTold, TypeOK, BrokerRow
  <2>4. Promise!Close(i)
    BY <2>1, <2>2, <2>3, OthersKeep, Closes
  <2> QED
    BY <2>4, <1>o
<1>3. ASSUME NEW w \in Workers, Claim(w), UNCHANGED intent PROVE Goal
  BY <1>3, <1>s DEF Claim
<1>4. ASSUME NEW w \in Workers, Claim(w), ~UNCHANGED intent PROVE Goal
  <2>1. PICK i \in Intents : h[w].intent = i
    BY <1>4 DEF Claim, At
  <2>2. /\ UNCHANGED broker /\ \A k \in Intents : k # i => intent'[k] = intent[k]
        /\ intent[i].status \in {"QUEUED", "FAILED"} /\ intent'[i].status = "PROCESSING"
    BY <1>4, <1>t, <2>1 DEF Claim, SetIntent, TypeOK
  <2>3. Outcome(i) \in {"open", "failed"} /\ Outcome(i)' = "open"
    BY <1>t, <2>2, OutcomeIs DEF Says
  <2>4. CASE Outcome(i) = "failed"
    <3>1. Promise!Open(i)
      BY <2>2, <2>3, <2>4, OthersKeep, Opens
    <3> QED
      BY <3>1, <1>o
  <2>5. CASE Outcome(i) = "open"
    <3>1. \A k \in Intents : Outcome(k)' = Outcome(k)
      BY <2>2, <2>3, <2>5, OthersKeep
    <3> QED
      BY <2>2, <3>1, Stutters DEF Goal
  <2> QED
    BY <2>3, <2>4, <2>5
<1>5. ASSUME NEW w \in Workers, RejectIntent(w) \/ SettleIntent(w) PROVE Goal
  <2>1. PICK i \in Intents : h[w].intent = i
    BY <1>5 DEF RejectIntent, SettleIntent, At
  <2>2. /\ UNCHANGED broker /\ \A k \in Intents : k # i => intent'[k] = intent[k]
        /\ Owns(w, i) /\ intent'[i].status \in Verdicts /\ intent'[i].done
    BY <1>5, <1>t, <2>1 DEF RejectIntent, SettleIntent, SetIntent, At, Owns, Owning, TypeOK
  <2>3. intent[i].status = "PROCESSING"
    BY <2>2 DEF PromiseInv, ToldInv, OrderInv, ClaimInv, ClaimExclusive
  <2>4. Outcome(i) = "open"
    BY <1>t, <2>3, OutcomeIs DEF Says
  <2>5. CASE intent'[i].status = "EXECUTED"
    <3>1. broker[i].orders >= 1 /\ broker[i].orders <= 1
      BY <2>2, <2>5 DEF PromiseInv, VerdictInv, ToldInv, OrderInv, ReportInv, Reports, Benign
    <3>2. broker[i].orders = 1
      BY <1>t, <3>1 DEF TypeOK, BrokerRow
    <3>3. Outcome(i)' = "executed"
      BY <1>t, <2>5, OutcomeIs DEF Says
    <3>4. Promise!Close(i)
      BY <2>2, <2>4, <3>2, <3>3, OthersKeep, Closes
    <3> QED
      BY <3>4, <1>o
  <2>6. CASE intent'[i].status \in {"REJECTED", "FAILED"}
    <3>o. ~(broker[i].orders >= 1)
      BY <2>2, <2>6 DEF PromiseInv, ToldInv, ToldHolds, OrderTold
    <3>1. broker[i].orders = 0
      BY <1>t, <3>o DEF TypeOK, BrokerRow
    <3>2. Outcome(i)' \in {"rejected", "failed"}
      BY <1>t, <2>2, <2>6, OutcomeIs DEF Says
    <3>3. Promise!Close(i)
      BY <2>2, <2>4, <3>1, <3>2, OthersKeep, Closes
    <3> QED
      BY <3>3, <1>o
  <2> QED
    BY <2>2, <2>5, <2>6 DEF Verdicts
<1>6. ASSUME NEW w \in Workers, RequeueIntent(w) PROVE Goal
  <2>1. PICK i \in Intents : h[w].intent = i
    BY <1>6 DEF RequeueIntent, At
  <2>2. /\ UNCHANGED broker /\ \A k \in Intents : k # i => intent'[k] = intent[k]
        /\ Owns(w, i) /\ intent'[i].status = "FAILED" /\ ~intent'[i].done
    BY <1>6, <1>t, <2>1 DEF RequeueIntent, SetIntent, At, Owns, Owning, TypeOK
  <2>3. intent[i].status = "PROCESSING"
    BY <2>2 DEF PromiseInv, ToldInv, OrderInv, ClaimInv, ClaimExclusive
  <2>4. Outcome(i) = "open" /\ Outcome(i)' = "open"
    BY <1>t, <2>2, <2>3, OutcomeIs DEF Says
  <2>5. \A k \in Intents : Outcome(k)' = Outcome(k)
    BY <2>2, <2>4, OthersKeep
  <2> QED
    BY <2>2, <2>5, Stutters DEF Goal
<1>7. ASSUME NEW w \in Workers, BridgeCall(w) PROVE Goal
  <2>1. PICK i \in Intents : h[w].intent = i
    BY <1>7 DEF BridgeCall, At
  <2>2. Owns(w, i) /\ h[w].pc = "bridge" /\ UNCHANGED intent /\ \A k \in Intents : k # i => broker'[k] = broker[k]
    BY <1>7, <1>t, <2>1 DEF BridgeCall, At, Owns, Owning, TypeOK
  <2>3. broker[i].orders = 0 /\ intent[i].status = "PROCESSING"
    <3>1. ~(broker[i].orders >= 1)
      BY <2>2 DEF PromiseInv, ToldInv, ToldHolds, OrderTold, Told
    <3>2. broker[i].orders \in Nat
      BY <1>t DEF TypeOK, BrokerRow
    <3>3. intent[i].status = "PROCESSING"
      BY <2>2 DEF PromiseInv, ToldInv, OrderInv, ClaimInv, ClaimExclusive
    <3> QED
      BY <3>1, <3>2, <3>3
  <2>4. broker'[i].orders \in {0, 1}
    BY <1>7, <1>t, <2>1, <2>3 DEF BridgeCall, TypeOK
  <2>5. Outcome(i) = "open" /\ \A k \in Intents : Outcome(k)' = Outcome(k)
    BY <1>t, <2>2, <2>3, OutcomeIs DEF Says, Outcome
  <2>6. CASE broker'[i].orders = 1
    <3>1. Promise!Place(i)
      BY <2>2, <2>3, <2>5, <2>6, Places
    <3> QED
      BY <3>1, <1>o
  <2>7. CASE broker'[i].orders = 0
    BY <1>s, <2>2, <2>3, <2>7
  <2> QED
    BY <2>4, <2>6, <2>7
<1>8. ASSUME NEW w \in Workers, ConcealReply(w) \/ CatchError(w) \/ DbError(w) PROVE FALSE
  <2>1. NoCatch(w)
    BY DEF PromiseInv, ToldInv, ToldHolds
  <2>2. h[w].pc \in {"conceal", "error"} \/ "db" \in Faults
    BY <1>8, Zenon DEF ConcealReply, CatchError, DbError, At
  <2> QED
    BY <2>1, <2>2 DEF NoCatch, Benign
<1>9. ASSUME NEW b \in Bindings, UpdateBinding(b) PROVE Goal
  BY <1>9, <1>s DEF UpdateBinding
<1>10. CASE UNCHANGED <<intent, broker>>
  BY <1>10, <1>s
<1> QED
  BY <1>1, <1>2, <1>3, <1>4, <1>5, <1>6, <1>7, <1>8, <1>9, <1>10
     DEF Next, Capture, Step, vars, SelectBinding, Enqueue, CaptureAbort, RecoverStalled, Expire, Load,
     Guard, FindCommand, CreateCommand, ValidateCommand, DispatchCommand, RecordReply,
     DeferReconciliation, LoadResult, JobReturns, JobThrows, WorkerCrash, StartJob

(* With truthful answers and a working database the lane implements        *)
(* TradePromise: one order at most while the intent is open, and a verdict *)
(* that tells what happened at the broker, although workers crash, jobs    *)
(* stall and calls are retried.                                            *)
THEOREM LaneKeepsPromise == ASSUME Benign PROVE Spec => PromiseKept
<1>1. Init => PromiseInv
  BY ToldInit, VerdictInit DEF PromiseInv
<1>2. PromiseInv /\ [Next]_vars => PromiseInv'
  BY ToldStep, VerdictStep DEF PromiseInv, Benign
<1>3. Init => Promise!Init
  <2> SUFFICES ASSUME Init PROVE Promise!Init
    OBVIOUS
  <2>1. \A k \in Intents : Outcome(k) = "absent" /\ broker[k].orders = 0
    BY TypeInit, OutcomeIs DEF Says, Init
  <2> QED
    BY <2>1 DEF Promise!Init
<1>4. PromiseInv /\ PromiseInv' /\ [Next]_vars
      => [Promise!Next]_<<[i \in Intents |-> Outcome(i)], [i \in Intents |-> broker[i].orders]>>
  BY PromiseStep
<1>5. Spec => Promise!Init /\ [][Promise!Next]_<<[i \in Intents |-> Outcome(i)], [i \in Intents |-> broker[i].orders]>>
  BY <1>1, <1>2, <1>3, <1>4, PTL DEF Spec
<1> QED
  BY <1>5, PTL DEF PromiseKept, Promise!Spec
-----------------------------------------------------------------------------
(* No intent is forgotten.                                                 *)

(* Processes do not die, statements do not fail, live handlers keep their  *)
(* locks; the enqueue may fail and answers may be lost.                    *)
Undisturbed == {"crash", "db", "stall"} \cap Faults = {}

(* Slot w runs the job of intent i and holds its lock.                     *)
HeldBy(w, i) == job[i].state = "active" /\ job[i].holder = w /\ h[w].intent = i

(* An intent that is not closed is with the capture, waits in the queue,   *)
(* or is worked on by the slot that holds its job.                         *)
OpenIsHeld ==
  \A i \in Intents : intent[i].status # "absent" /\ ~intent[i].done =>
    \/ cap[i] \in {"created", "enqueueFailed"}
    \/ job[i].state = "waiting"
    \/ \E w \in Workers : HeldBy(w, i) /\ h[w].pc \notin {"idle", "return"}

(* What a slot knows of its job: the attempt it counts is the queue's, it  *)
(* only throws while another is left, and returns from a closed intent.    *)
SlotHolds(w) ==
  h[w].intent \in Intents =>
    /\ HeldBy(w, h[w].intent)
    /\ h[w].attempt = job[h[w].intent].attempts + 1
    /\ h[w].pc # "idle"
    /\ h[w].pc \in {"requeue", "throw"} => h[w].attempt < MaxAttempts
    /\ h[w].pc = "return" => intent[h[w].intent].done
    /\ h[w].pc \in {"claim", "throw"} => intent[h[w].intent].status # "PROCESSING"

(* What a row means to the queue and the slots.                            *)
RowHolds(i) ==
  /\ job[i].state = "active" => \E w \in Workers : HeldBy(w, i)
  /\ intent[i].status \in {"EXECUTED", "REJECTED"} => intent[i].done
  /\ intent[i].status = "PROCESSING" => \E w \in Workers : Owns(w, i)
  /\ intent[i].status = "absent" =>
       job[i].state = "absent" /\ cap[i] \notin {"created", "enqueueFailed"}
  /\ intent[i].status # "absent" /\ ~intent[i].done =>
       cap[i] \in {"created", "enqueueFailed"} \/ job[i].state \in {"waiting", "active"}

HeldParts == (\A w \in Workers : SlotHolds(w)) /\ (\A i \in Intents : RowHolds(i))
HeldInv == CallInv /\ HeldParts

(* A slot goes on with its intent, and leaves the queue and the capture as *)
(* they are.                                                               *)
LEMMA GotoKeepsHeld ==
  ASSUME HeldInv, UNCHANGED <<cap, job>>, NEW w \in Workers, NEW i \in Intents, h[w].intent = i,
         NEW p \in PCs \ {"idle"}, NEW o, Goto(w, p, o),
         \A k \in Intents \ {i} : intent'[k] = intent[k],
         intent'[i].status # "absent",
         intent'[i].status \in {"EXECUTED", "REJECTED"} => intent'[i].done,
         intent'[i].status = "PROCESSING" => p \in Owning,
         p \in {"requeue", "throw"} => h[w].attempt < MaxAttempts,
         p = "return" => intent'[i].done
  PROVE  HeldParts'
<1>1. /\ h'[w].pc = p /\ h'[w].intent = i /\ h'[w].attempt = h[w].attempt
      /\ \A v \in Workers : v # w => h'[v] = h[v]
  BY DEF Goto, HeldInv, CallInv, TypeOK, HandlerState
<1>2. HeldBy(w, i) /\ \A v \in Workers : h[v].intent = i => v = w
  BY DEF HeldInv, HeldParts, SlotHolds, HeldBy
<1>3. \A v \in Workers, k \in Intents : HeldBy(v, k)' <=> HeldBy(v, k)
  BY <1>1 DEF HeldBy
<1>4. ASSUME NEW v \in Workers PROVE SlotHolds(v)'
  <2>1. SlotHolds(v)
    BY DEF HeldInv, HeldParts
  <2>2. CASE v = w
    BY <1>1, <1>2, <2>1, <2>2 DEF SlotHolds, HeldBy, Owning
  <2>3. CASE v # w
    <3>1. h'[v] = h[v] /\ h[v].intent # i
      BY <1>1, <1>2, <2>3
    <3> QED
      BY <2>1, <3>1 DEF SlotHolds, HeldBy
  <2> QED
    BY <2>2, <2>3
<1>5. ASSUME NEW k \in Intents PROVE RowHolds(k)'
  <2>1. RowHolds(k)
    BY DEF HeldInv, HeldParts
  <2>2. CASE k = i
    <3>1. job'[k].state = "active" /\ HeldBy(w, k)'
      BY <1>2, <1>3, <2>2 DEF HeldBy
    <3>2. intent'[k].status = "PROCESSING" => Owns(w, k)'
      BY <1>1, <2>2 DEF Owns
    <3> QED
      BY <2>2, <3>1, <3>2 DEF RowHolds
  <2>3. CASE k # i
    <3>1. \A v \in Workers : Owns(v, k) => Owns(v, k)'
      BY <1>1, <2>3 DEF Owns
    <3>2. intent'[k] = intent[k] /\ job'[k] = job[k] /\ cap'[k] = cap[k]
      BY <2>3
    <3> QED
      BY <1>3, <2>1, <3>1, <3>2 DEF RowHolds
  <2> QED
    BY <2>2, <2>3
<1> QED
  BY <1>4, <1>5 DEF HeldParts

(* A slot goes on and writes nothing but its own step.                     *)
LEMMA InnerKeepsHeld ==
  ASSUME HeldInv, UNCHANGED <<cap, job, intent>>, NEW w \in Workers, h[w].intent \in Intents,
         NEW p \in Owning, p = "requeue" => h[w].attempt < MaxAttempts, NEW o, Goto(w, p, o)
  PROVE  HeldParts'
<1> DEFINE i == h[w].intent
<1>1. RowHolds(i) /\ SlotHolds(w)
  BY DEF HeldInv, HeldParts
<1>2. intent[i].status # "absent" /\ (intent[i].status \in {"EXECUTED", "REJECTED"} => intent[i].done)
  BY <1>1 DEF RowHolds, SlotHolds, HeldBy
<1>3. p \in PCs \ {"idle"} /\ p # "throw" /\ p # "return"
  BY DEF Owning, PCs
<1> QED
  BY <1>2, <1>3, GotoKeepsHeld

(* A slot goes on after it has written its intent.                         *)
LEMMA WriteKeepsHeld ==
  ASSUME HeldInv, UNCHANGED <<cap, job>>, NEW w \in Workers, h[w].intent \in Intents,
         NEW s \in IntentStatus \ {"absent"}, NEW d \in BOOLEAN, SetIntent(w, s, d),
         NEW p \in PCs \ {"idle"}, NEW o, Goto(w, p, o),
         s \in {"EXECUTED", "REJECTED"} => d, s = "PROCESSING" => p \in Owning,
         p \in {"requeue", "throw"} => h[w].attempt < MaxAttempts, p = "return" => d
  PROVE  HeldParts'
<1>1. /\ \A k \in Intents \ {h[w].intent} : intent'[k] = intent[k]
      /\ intent'[h[w].intent] = [status |-> s, done |-> d]
  BY DEF SetIntent, HeldInv, CallInv, TypeOK
<1>2. intent'[h[w].intent].status = s /\ intent'[h[w].intent].done = d
  BY <1>1
<1> QED
  BY <1>1, <1>2, GotoKeepsHeld

(* A step that leaves the slots alone, and all rows but that of i.         *)
LEMMA RowKeepsHeld ==
  ASSUME HeldInv, UNCHANGED h, NEW i \in Intents,
         \A k \in Intents \ {i} : intent'[k] = intent[k] /\ cap'[k] = cap[k] /\ job'[k] = job[k],
         \A w \in Workers : h[w].intent = i => SlotHolds(w)', RowHolds(i)'
  PROVE  HeldParts'
<1>1. ASSUME NEW w \in Workers PROVE SlotHolds(w)'
  BY DEF HeldInv, HeldParts, SlotHolds, HeldBy
<1>2. ASSUME NEW k \in Intents, k # i PROVE RowHolds(k)'
  BY <1>2 DEF HeldInv, HeldParts, RowHolds, HeldBy, Owns
<1> QED
  BY <1>1, <1>2 DEF HeldParts

(* While nothing disturbs them, every step keeps what slots and rows know. *)
LEMMA HeldStep == ASSUME Undisturbed PROVE HeldInv /\ [Next]_vars => HeldInv'
<1> SUFFICES ASSUME HeldInv, [Next]_vars PROVE HeldInv'
  OBVIOUS
<1> USE ConstantsAssumption
<1>c. CallInv /\ CallInv' /\ TypeOK
  BY CallStep DEF HeldInv, CallInv
<1>i. \A w \in Workers, i \in Intents : h[w].intent = i => HeldBy(w, i) /\ SlotHolds(w)
  BY DEF HeldInv, HeldParts, SlotHolds
<1>1. ASSUME NEW i \in Intents, Capture(i) PROVE HeldParts'
  <2>1. /\ UNCHANGED h /\ RowHolds(i) /\ QueueOf(i)
        /\ \A k \in Intents \ {i} : intent'[k] = intent[k] /\ cap'[k] = cap[k] /\ job'[k] = job[k]
    BY <1>1, <1>c DEF HeldInv, HeldParts, CallInv, TypeOK, Capture, SelectBinding, CreateIntent,
       Enqueue, MarkEnqueueFailed, AddJob, SetJob
  <2>2. CASE SelectBinding(i)
    <3>1. cap'[i] = "selected" /\ UNCHANGED <<intent, job>> /\ cap[i] = "idle"
      BY <2>2, <1>c DEF SelectBinding, TypeOK
    <3>2. RowHolds(i)'
      BY <2>1, <3>1 DEF RowHolds, HeldBy, Owns
    <3>3. \A w \in Workers : h[w].intent = i => SlotHolds(w)'
      BY <1>i, <2>1, <3>1 DEF SlotHolds, HeldBy
    <3> QED
      BY <2>1, <3>2, <3>3, RowKeepsHeld
  <2>3. CASE CreateIntent(i)
    <3>1. /\ cap'[i] = "created" /\ UNCHANGED job /\ cap[i] = "selected"
          /\ intent'[i].status = "QUEUED"
      BY <2>3, <1>c DEF CreateIntent, TypeOK
    <3>2. job[i].state = "absent" /\ \A w \in Workers : h[w].intent # i
      BY <2>1, <3>1 DEF QueueOf
    <3>3. RowHolds(i)'
      BY <2>1, <3>1, <3>2 DEF RowHolds
    <3> QED
      BY <2>1, <3>2, <3>3, RowKeepsHeld
  <2>4. CASE Enqueue(i)
    <3>1. /\ cap[i] = "created" /\ UNCHANGED intent
          /\ \/ cap'[i] = "end" /\ job'[i].state = "waiting"
             \/ cap'[i] = "enqueueFailed" /\ job'[i] = job[i]
             \/ cap'[i] = "enqueueFailed" /\ job'[i].state = "waiting"
      BY <2>4, <1>c DEF Enqueue, AddJob, SetJob, TypeOK
    <3>2. job[i].state = "absent" /\ \A w \in Workers : h[w].intent # i
      BY <2>1, <3>1 DEF QueueOf
    <3>3. RowHolds(i)'
      BY <2>1, <3>1, <3>2 DEF RowHolds, Owns
    <3> QED
      BY <2>1, <3>2, <3>3, RowKeepsHeld
  <2>5. CASE MarkEnqueueFailed(i)
    <3>1. /\ cap[i] = "enqueueFailed" /\ UNCHANGED job
          /\ intent'[i].status = "FAILED" /\ intent'[i].done
      BY <2>5, <1>c DEF MarkEnqueueFailed, TypeOK
    <3>2. RowHolds(i)'
      BY <2>1, <3>1 DEF RowHolds, HeldBy
    <3>3. \A w \in Workers : h[w].intent = i => SlotHolds(w)'
      BY <1>i, <2>1, <3>1 DEF SlotHolds, HeldBy
    <3> QED
      BY <2>1, <3>2, <3>3, RowKeepsHeld
  <2> QED
    BY <1>1, <2>2, <2>3, <2>4, <2>5 DEF Capture
<1>2. ASSUME NEW w \in Workers, NEW i \in Intents, StartJob(w, i) PROVE HeldParts'
  <2>1. /\ h[w] = Idle /\ job[i].state = "waiting" /\ UNCHANGED <<cap, intent>>
        /\ job'[i] = [state |-> "active", attempts |-> job[i].attempts, holder |-> w, stalls |-> job[i].stalls]
        /\ h'[w] = [pc |-> "claim", intent |-> i, attempt |-> job[i].attempts + 1, out |-> "none"]
        /\ \A v \in Workers \ {w} : h'[v] = h[v]
        /\ \A k \in Intents \ {i} : job'[k] = job[k]
    BY <1>2, <1>c DEF StartJob, SetJob, TypeOK
  <2>2. /\ job'[i].state = "active" /\ job'[i].holder = w /\ job'[i].attempts = job[i].attempts
        /\ h'[w].pc = "claim" /\ h'[w].intent = i /\ h'[w].attempt = job[i].attempts + 1
        /\ h[w].intent = NoIntent
    BY <2>1 DEF Idle
  <2>3. \A v \in Workers : h[v].intent # i
    BY <1>i, <2>1 DEF HeldBy
  <2>4. intent[i].status # "PROCESSING" /\ RowHolds(i)
    BY <2>3 DEF HeldInv, HeldParts, RowHolds, Owns
  <2>5. ASSUME NEW v \in Workers PROVE SlotHolds(v)'
    <3>1. CASE v = w
      BY <2>1, <2>2, <2>4, <3>1 DEF SlotHolds, HeldBy
    <3>2. CASE v # w
      BY <1>i, <2>1, <2>3, <3>2 DEF SlotHolds, HeldBy
    <3> QED
      BY <3>1, <3>2
  <2>6. ASSUME NEW k \in Intents PROVE RowHolds(k)'
    <3>1. CASE k = i
      BY <2>1, <2>2, <2>4, <3>1 DEF RowHolds, HeldBy
    <3>2. CASE k # i
      <4>1. RowHolds(k) /\ job'[k] = job[k] /\ intent'[k] = intent[k] /\ cap'[k] = cap[k]
        BY <2>1, <3>2 DEF HeldInv, HeldParts
      <4>2. \A v \in Workers : h[v].intent = k => h'[v] = h[v]
        BY <2>1, <2>2
      <4> QED
        BY <4>1, <4>2 DEF RowHolds, HeldBy, Owns
    <3> QED
      BY <3>1, <3>2
  <2> QED
    BY <2>5, <2>6 DEF HeldParts
<1>3. ASSUME NEW w \in Workers, JobReturns(w) \/ JobThrows(w) PROVE HeldParts'
  <2>1. PICK i \in Intents : h[w].intent = i
    BY <1>3 DEF JobReturns, JobThrows, At
  <2>2. /\ HeldBy(w, i) /\ SlotHolds(w) /\ RowHolds(i) /\ QueueOf(i)
        /\ \A v \in Workers : h[v].intent = i => v = w
    BY <1>i, <1>c, <2>1 DEF HeldInv, HeldParts, HeldBy, CallInv
  <2>3. /\ h'[w].intent = NoIntent /\ (\A v \in Workers \ {w} : h'[v] = h[v])
        /\ UNCHANGED <<cap, intent>>
    BY <1>3, <1>c DEF JobReturns, JobThrows, TypeOK, Idle
  <2>4. /\ \A k \in Intents \ {i} : job'[k] = job[k]
        /\ \/ h[w].pc = "return" /\ job'[i].state = "completed"
           \/ h[w].pc = "throw" /\ job'[i].state = "waiting"
    <3>1. CASE JobReturns(w)
      <4>1. h[w].pc = "return" /\ SetJob(i, "completed", job[i].attempts, NoWorker, job[i].stalls)
        BY <3>1, <2>1, <2>2 DEF JobReturns, At, HeldBy
      <4> QED
        BY <4>1, <1>c DEF SetJob, TypeOK
    <3>2. CASE JobThrows(w)
      <4>1. /\ h[w].pc = "throw" /\ h[w].attempt = job[i].attempts + 1 /\ h[w].attempt < MaxAttempts
        BY <3>2, <2>1, <2>2 DEF JobThrows, At, SlotHolds
      <4>2. SetJob(i, "waiting", job[i].attempts + 1, NoWorker, job[i].stalls)
        BY <3>2, <2>1, <2>2, <4>1 DEF JobThrows, HeldBy
      <4> QED
        BY <4>1, <4>2, <1>c DEF SetJob, TypeOK
    <3> QED
      BY <1>3, <3>1, <3>2
  <2>5. ASSUME NEW v \in Workers PROVE SlotHolds(v)'
    <3>1. CASE v = w
      BY <2>3, <3>1 DEF SlotHolds
    <3>2. CASE v # w
      BY <1>i, <2>2, <2>3, <2>4, <3>2 DEF SlotHolds, HeldBy
    <3> QED
      BY <3>1, <3>2
  <2>6. RowHolds(i)'
    <3>1. \A v \in Workers : ~Owns(v, i) \/ (v = w /\ h[w].pc \in Owning)
      BY <2>2 DEF Owns
    <3>2. intent[i].status # "PROCESSING" /\ (h[w].pc = "return" => intent[i].done)
      BY <2>1, <2>2, <2>4, <3>1 DEF RowHolds, Owning, SlotHolds
    <3> QED
      BY <2>1, <2>2, <2>3, <2>4, <3>2 DEF RowHolds, HeldBy
  <2>7. ASSUME NEW k \in Intents, k # i PROVE RowHolds(k)'
    <3>1. RowHolds(k) /\ job'[k] = job[k] /\ intent'[k] = intent[k] /\ cap'[k] = cap[k]
      BY <2>3, <2>4, <2>7 DEF HeldInv, HeldParts
    <3>2. \A v \in Workers : h[v].intent = k => h'[v] = h[v]
      BY <2>1, <2>3, <2>7
    <3> QED
      BY <3>1, <3>2 DEF RowHolds, HeldBy, Owns
  <2> QED
    BY <2>5, <2>6, <2>7 DEF HeldParts
<1>4. ASSUME NEW w \in Workers, Claim(w) PROVE HeldParts'
  <2>1. PICK i \in Intents : h[w].intent = i
    BY <1>4 DEF Claim, At
  <2>2. SlotHolds(w) /\ RowHolds(i) /\ HeldBy(w, i) /\ h[w].pc = "claim" /\ UNCHANGED <<cap, job>>
    BY <1>4, <1>i, <2>1 DEF HeldInv, HeldParts, Claim, At
  <2>3. CASE intent[i].status \in {"QUEUED", "FAILED"}
    <3>1. SetIntent(w, "PROCESSING", intent[i].done) /\ Goto(w, "load", "none")
      BY <1>4, <2>1, <2>3 DEF Claim
    <3>2. intent[i].done \in BOOLEAN
      BY <1>c DEF TypeOK, IntentRow
    <3>3. "PROCESSING" \in IntentStatus \ {"absent"} /\ "load" \in PCs \ {"idle"} /\ "load" \in Owning
      BY DEF IntentStatus, PCs, Owning
    <3> QED
      BY <2>1, <2>2, <3>1, <3>2, <3>3, WriteKeepsHeld
  <2>4. CASE intent[i].status \notin {"QUEUED", "FAILED"}
    <3>1. UNCHANGED intent /\ Goto(w, "return", "none")
      BY <1>4, <2>1, <2>4 DEF Claim
    <3>2. intent[i].status \in {"EXECUTED", "REJECTED"} /\ intent[i].done
      BY <1>c, <2>1, <2>2, <2>4 DEF SlotHolds, RowHolds, HeldBy, TypeOK, IntentRow, IntentStatus
    <3>3. "return" \in PCs \ {"idle"}
      BY DEF PCs
    <3> QED
      BY <2>1, <2>2, <3>1, <3>2, <3>3, GotoKeepsHeld
  <2> QED
    BY <2>3, <2>4
<1>5. ASSUME NEW w \in Workers,
             \/ Load(w) \/ Guard(w) \/ FindCommand(w) \/ CreateCommand(w) \/ ValidateCommand(w)
             \/ DispatchCommand(w) \/ BridgeCall(w) \/ RecordReply(w) \/ DeferReconciliation(w)
             \/ ConcealReply(w) \/ LoadResult(w)
      PROVE  HeldParts'
  <2>1. /\ UNCHANGED <<cap, job, intent>> /\ h[w].intent \in Intents
        /\ \E p \in Owning : \E o : Goto(w, p, o) /\ (p = "requeue" => h[w].attempt < MaxAttempts)
    BY <1>5, Zenon DEF Load, Guard, FindCommand, CreateCommand, ValidateCommand, DispatchCommand,
       BridgeCall, RecordReply, DeferReconciliation, ConcealReply, LoadResult, At, Owning
  <2> QED
    BY <2>1, InnerKeepsHeld
<1>6. ASSUME NEW w \in Workers, RejectIntent(w) \/ SettleIntent(w) PROVE HeldParts'
  <2>1. /\ UNCHANGED <<cap, job>> /\ h[w].intent \in Intents /\ h[w].pc \in {"reject", "settle"}
        /\ SetIntent(w, h[w].out, TRUE) /\ Goto(w, "return", "none")
    BY <1>6, Zenon DEF RejectIntent, SettleIntent, At
  <2>2. h[w].out \in Verdicts
    BY <1>c, <2>1 DEF TypeOK
  <2>3. h[w].out \in IntentStatus \ {"absent"} /\ h[w].out # "PROCESSING" /\ "return" \in PCs \ {"idle"}
    BY <2>2 DEF Verdicts, IntentStatus, PCs
  <2> QED
    BY <2>1, <2>3, WriteKeepsHeld
<1>7. ASSUME NEW w \in Workers, RequeueIntent(w) \/ CatchError(w) PROVE HeldParts'
  <2>1. UNCHANGED <<cap, job>> /\ h[w].intent \in Intents /\ h[w].pc \in {"requeue", "error"}
    BY <1>7, Zenon DEF RequeueIntent, CatchError, At
  <2>2. \/ SetIntent(w, "FAILED", FALSE) /\ Goto(w, "throw", "none") /\ h[w].attempt < MaxAttempts
        \/ SetIntent(w, "FAILED", TRUE) /\ Goto(w, "return", "none")
    <3>1. h[w].pc = "requeue" => h[w].attempt < MaxAttempts
      BY <1>i, <2>1 DEF SlotHolds
    <3> QED
      BY <1>7, <3>1, Zenon DEF RequeueIntent, CatchError, At
  <2>3. /\ "FAILED" \in IntentStatus \ {"absent"}
        /\ "throw" \in PCs \ {"idle"} /\ "return" \in PCs \ {"idle"}
    BY DEF IntentStatus, PCs
  <2> QED
    BY <2>1, <2>2, <2>3, WriteKeepsHeld
<1>8. ASSUME NEW i \in Intents, CaptureAbort(i) \/ RecoverStalled(i) PROVE FALSE
  <2>1. RecoverStalled(i)
    BY <1>8 DEF CaptureAbort, Undisturbed
  <2>2. job[i].state = "active" /\ Abandoned(i)
    BY <2>1 DEF RecoverStalled, Undisturbed
  <2>3. PICK w \in Workers : HeldBy(w, i)
    BY <2>2 DEF HeldInv, HeldParts, RowHolds
  <2> QED
    BY <2>2, <2>3 DEF Abandoned, HeldBy
<1>9. ASSUME NEW w \in Workers, WorkerCrash(w) \/ DbError(w) PROVE FALSE
  BY <1>9 DEF WorkerCrash, DbError, Undisturbed
<1>10. ASSUME UNCHANGED cap, UNCHANGED intent, UNCHANGED job, UNCHANGED h PROVE HeldParts'
  <2>1. ASSUME NEW w \in Workers PROVE SlotHolds(w)'
    BY <1>10 DEF HeldInv, HeldParts, SlotHolds, HeldBy
  <2>2. ASSUME NEW i \in Intents PROVE RowHolds(i)'
    BY <1>10 DEF HeldInv, HeldParts, RowHolds, HeldBy, Owns
  <2> QED
    BY <2>1, <2>2 DEF HeldParts
<1>11. ASSUME NEW i \in Intents, Expire(i) PROVE HeldParts'
  BY <1>10, <1>11 DEF Expire
<1>12. ASSUME NEW b \in Bindings, UpdateBinding(b) PROVE HeldParts'
  BY <1>10, <1>12 DEF UpdateBinding
<1>13. CASE UNCHANGED vars
  BY <1>c, <1>10, <1>13 DEF vars, HeldInv
<1> QED
  BY <1>c, <1>1, <1>2, <1>3, <1>4, <1>5, <1>6, <1>7, <1>8, <1>9, <1>11, <1>12, <1>13
     DEF HeldInv, Next, Step

(* While processes live and statements succeed no intent is forgotten:     *)
(* whatever the bridge answers and whatever becomes of the enqueue, one    *)
(* that is not closed is with the capture, waits in the queue or is worked *)
(* on.  What liveness needs beyond this is that these three go on.         *)
THEOREM NoIntentIsForgotten == ASSUME Undisturbed PROVE Spec => []OpenIsHeld
<1>1. Init => HeldInv
  <2> SUFFICES ASSUME Init PROVE HeldParts
    BY CallInit DEF HeldInv
  <2>1. /\ \A w \in Workers : h[w].intent \notin Intents
        /\ \A i \in Intents : /\ job[i].state = "absent" /\ intent[i].status = "absent"
                              /\ cap[i] = "idle"
    BY ConstantsAssumption DEF Init, Idle
  <2> QED
    BY <2>1 DEF HeldParts, SlotHolds, RowHolds
<1>2. HeldInv /\ [Next]_vars => HeldInv'
  BY HeldStep
<1>3. HeldInv => OpenIsHeld
  <2> SUFFICES ASSUME HeldInv, NEW i \in Intents, intent[i].status # "absent", ~intent[i].done,
                      job[i].state = "active"
               PROVE  \E w \in Workers : HeldBy(w, i) /\ h[w].pc \notin {"idle", "return"}
    BY DEF OpenIsHeld, HeldInv, HeldParts, RowHolds
  <2>1. PICK w \in Workers : HeldBy(w, i)
    BY DEF HeldInv, HeldParts, RowHolds
  <2>2. h[w].pc \notin {"idle", "return"}
    BY <2>1 DEF HeldInv, HeldParts, SlotHolds, HeldBy
  <2> QED
    BY <2>1, <2>2
<1> QED
  BY <1>1, <1>2, <1>3, PTL DEF Spec
=============================================================================
