------------------------ MODULE Reconciliation_proofs ------------------------
(***************************************************************************)
(* Proofs about Reconciliation: its rows and counters stay within their    *)
(* types, a sync that ran alone leaves exactly what it fetched, and a run  *)
(* says RUNNING exactly while its sync is under way.                       *)
(***************************************************************************)
EXTENDS Reconciliation, TLAPS

(* A job whose handler runs is active, and whoever may run again has       *)
(* attempts left.                                                          *)
JobCounts ==
  /\ Busy(Worker) => job.state = "active"
  /\ job.state \in {"delayed", "active"} => job.attempts < MaxAttempts

MirrorTyped == MirrorTypeOK /\ JobCounts

(* No other sync runs beside one that has been alone.                      *)
LonelySync ==
  \A u, v \in Syncers : u # v /\ Busy(u) /\ alone[u] => ~Busy(v)

(* Where the unseen rows of a surface are closed, and where the listed     *)
(* ones have been written too.                                             *)
Trimmed(s) == IF s = "positions" THEN {"savePositions"} ELSE {"saveOrders"}
Written(s) ==
  IF s = "positions" THEN {"expireOrders", "saveOrders", "saveDeals", "finish", "return"}
  ELSE {"saveDeals", "finish", "return"}

(* How far a sync that is alone has brought a surface.                     *)
Mirrored(u, s) ==
  alone[u] /\ answer[u][s] = "ok" =>
    /\ pc[u] \in Trimmed(s) => \A t \in Trades : rows[s][t] = "live" => t \in got[u][s]
    /\ pc[u] \in Written(s) => \A t \in Trades : rows[s][t] = "live" <=> t \in got[u][s]

MirroredHolds == \A u \in Syncers : \A s \in {"positions", "orders"} : Mirrored(u, s)

MirrorInv == MirrorTyped /\ LonelySync /\ MirroredHolds
-----------------------------------------------------------------------------
(* Type correctness.                                                       *)

(* The mirror is empty and nobody is at it at first.                       *)
LEMMA MirrorTypeInit == MirrorInit => MirrorTyped
BY SyncAssumption DEF MirrorInit, MirrorTyped, MirrorTypeOK, JobCounts, Busy, Syncers, Surfaces, Asked, Nothing,
   NoJob, BrokerStates, CommandStates, RowStates, RunStates, JobStates, Answers, Steps

(* A step of one sync moves its program point only.                        *)
LEMMA GotoTyped ==
  ASSUME MirrorTyped, NEW u \in Syncers, NEW from \in Steps \ {"idle", "end"},
         NEW to \in Steps \ {"idle", "end"}, Goto(u, from, to), UNCHANGED job
  PROVE  pc' \in [Syncers -> Steps] /\ JobCounts'
BY SyncAssumption DEF Goto, MirrorTyped, MirrorTypeOK, JobCounts, Busy, Syncers

(* A fault is counted.                                                     *)
LEMMA FaultTyped ==
  ASSUME MirrorTyped, NEW kind, Fault(kind) PROVE faults' \in 0..MaxFaults
BY SyncAssumption DEF Fault, MirrorTyped, MirrorTypeOK

(* The rows a sync writes.                                                 *)
LEMMA RowsTyped ==
  ASSUME MirrorTyped, NEW u \in Syncers, NEW s \in Surfaces, CloseUnseen(u, s) \/ Upsert(u, s)
  PROVE  rows' \in [Surfaces -> [Trades -> RowStates]]
<1>1. rows \in [Surfaces -> [Trades -> RowStates]]
  BY DEF MirrorTyped, MirrorTypeOK
<1>2. PICK R : /\ R \in [Trades -> RowStates]
               /\ rows' = [rows EXCEPT ![s] = R] \/ rows' = rows
  BY <1>1 DEF CloseUnseen, Upsert, RowStates
<1> QED
  BY <1>1, <1>2

(* The beginning and the end of a sync.                                    *)
LEMMA BeginTyped ==
  ASSUME MirrorTyped, NEW u \in Syncers, NEW t \in Trades \cup {NoTrade}, Begin(u, t)
  PROVE  /\ pc' \in [Syncers -> Steps] /\ for' \in [Syncers -> Trades \cup {NoTrade}]
         /\ answer' \in [Syncers -> [Surfaces -> Answers]]
         /\ got' \in [Syncers -> [Surfaces -> SUBSET Trades]]
         /\ alone' \in [Syncers -> BOOLEAN]
<1>1. alone' \in [Syncers -> BOOLEAN]
  <2>1. \A v \in Syncers : (IF v = u THEN \A w \in Syncers \ {u} : ~Busy(w) ELSE alone[v] /\ ~Busy(v)) \in BOOLEAN
    OBVIOUS
  <2> QED
    BY <2>1 DEF Begin
<1> QED
  BY <1>1 DEF Begin, MirrorTyped, MirrorTypeOK, Steps

(* A sync that ends is at no command any more.                             *)
LEMMA EndTyped ==
  ASSUME MirrorTyped, NEW u \in Syncers, NEW at \in {"idle", "end"}, End(u, at)
  PROVE  /\ pc' \in [Syncers -> Steps] /\ for' \in [Syncers -> Trades \cup {NoTrade}]
         /\ answer' \in [Syncers -> [Surfaces -> Answers]]
         /\ got' \in [Syncers -> [Surfaces -> SUBSET Trades]]
         /\ alone' \in [Syncers -> BOOLEAN]
<1>1. Asked \in [Surfaces -> Answers] /\ Nothing \in [Surfaces -> SUBSET Trades]
  BY DEF Asked, Nothing, Answers
<1>2. alone' \in [Syncers -> BOOLEAN]
  BY DEF End, MirrorTyped, MirrorTypeOK
<1> QED
  BY <1>1, <1>2 DEF End, MirrorTyped, MirrorTypeOK, Steps

(* The account's job, as the type invariant has it.                        *)
JobRow == [state : JobStates, attempts : 0..MaxAttempts, stalls : 0..MaxStalled]

(* Every step keeps the types.                                             *)
LEMMA MirrorTypeStep == MirrorTyped /\ [MirrorNext]_mirrorVars => MirrorTyped'
<1> SUFFICES ASSUME MirrorTyped, [MirrorNext]_mirrorVars PROVE MirrorTyped'
  OBVIOUS
<1> USE SyncAssumption
<1>t. MirrorTypeOK /\ JobCounts
  BY DEF MirrorTyped
<1>w. Worker \in Syncers /\ Requests \subseteq Syncers /\ job \in JobRow
  BY <1>t DEF Syncers, MirrorTypeOK, JobRow
<1>1. ASSUME NEW t \in Trades, BrokerActs(t) PROVE MirrorTyped'
  BY <1>1, <1>t DEF BrokerActs, BrokerMoves, BrokerStates, MirrorTyped, MirrorTypeOK, JobCounts, Busy, localVars
<1>2. ASSUME NEW t \in Trades, Gate(t) \/ Dispatch(t) PROVE MirrorTyped'
  BY <1>2, <1>t DEF Gate, Dispatch, BrokerStates, CommandStates, MirrorTyped, MirrorTypeOK, JobCounts, Busy, localVars
<1>3. ASSUME NEW t \in Trades, DeferReconciliation(t) PROVE MirrorTyped'
  <2>1. job' \in JobRow /\ (job' = job \/ (job'.state = "delayed" /\ job'.attempts = 0 /\ job.state = "none"))
    BY <1>3, <1>w DEF DeferReconciliation, AddJob, NoJob, JobRow, JobStates
  <2>2. faults' \in 0..MaxFaults /\ UNCHANGED <<broker, rows, run, latest, pc, for, answer, got, alone, lost>>
    BY <1>3, <1>t, FaultTyped DEF DeferReconciliation, MirrorTypeOK, localVars
  <2>3. cmd' \in [Trades -> CommandStates]
    BY <1>3, <1>t DEF DeferReconciliation, MirrorTypeOK, CommandStates
  <2>4. JobCounts'
    BY <1>t, <2>1, <2>2 DEF JobCounts, Busy
  <2> QED
    BY <1>t, <2>1, <2>2, <2>3, <2>4 DEF MirrorTyped, MirrorTypeOK, JobRow
<1>4. ASSUME NEW u \in Syncers, Request(u) PROVE MirrorTyped'
  <2>1. /\ u # Worker /\ \E t \in Trades \cup {NoTrade} : Begin(u, t)
        /\ UNCHANGED <<broker, cmd, rows, run, latest, job, lost, faults>>
    BY <1>4 DEF Request
  <2>2. pc'[Worker] = pc[Worker]
    BY <1>t, <1>w, <2>1 DEF Begin, MirrorTypeOK
  <2> QED
    BY <1>t, <2>1, <2>2, BeginTyped DEF MirrorTyped, MirrorTypeOK, JobCounts, Busy
<1>5. CASE TakeJob
  <2>1. /\ Begin(Worker, NoTrade) /\ UNCHANGED <<broker, cmd, rows, run, latest, lost, faults>>
        /\ job' \in JobRow /\ job'.state = "active" /\ job'.attempts = job.attempts /\ job.state = "delayed"
    BY <1>5, <1>w DEF TakeJob, JobRow, JobStates
  <2> QED
    BY <1>t, <1>w, <2>1, BeginTyped DEF MirrorTyped, MirrorTypeOK, JobCounts, JobRow
<1>6. ASSUME NEW u \in Syncers, CreateRun(u) PROVE MirrorTyped'
  <2>1. /\ pc' \in [Syncers -> Steps] /\ JobCounts'
    BY <1>6, GotoTyped DEF CreateRun, Steps
  <2>2. faults' \in 0..MaxFaults
    BY <1>6, <1>t, FaultTyped DEF CreateRun, MirrorTypeOK
  <2> QED
    BY <1>6, <1>t, <2>1, <2>2 DEF CreateRun, RunStates, MirrorTyped, MirrorTypeOK, localVars
<1>7. ASSUME NEW u \in Syncers, FetchSummary(u) \/ PersistSummary(u) \/ GetWorkspaceFails(u) PROVE MirrorTyped'
  <2>1. /\ pc' \in [Syncers -> Steps] /\ JobCounts'
    BY <1>7, GotoTyped DEF FetchSummary, PersistSummary, GetWorkspaceFails, Steps
  <2>2. faults' \in 0..MaxFaults
    BY <1>7, <1>t, FaultTyped DEF FetchSummary, PersistSummary, GetWorkspaceFails, MirrorTypeOK
  <2> QED
    BY <1>7, <1>t, <2>1, <2>2 DEF FetchSummary, PersistSummary, GetWorkspaceFails, MirrorTyped, MirrorTypeOK, localVars
<1>8. ASSUME NEW u \in Syncers, NEW s \in Surfaces, Fetch(u, s) PROVE MirrorTyped'
  <2>1. Listed(s) \in SUBSET Trades
    BY DEF Listed
  <2>2. faults' \in 0..MaxFaults
    BY <1>8, <1>t, FaultTyped DEF Fetch, MirrorTypeOK
  <2>3. got[u] \in [Surfaces -> SUBSET Trades] /\ answer[u] \in [Surfaces -> Answers]
    BY <1>t DEF MirrorTypeOK
  <2>4. got' \in [Syncers -> [Surfaces -> SUBSET Trades]]
    <3>1. [got[u] EXCEPT ![s] = Listed(s)] \in [Surfaces -> SUBSET Trades]
      BY <2>1, <2>3
    <3>2. got' = [got EXCEPT ![u] = [got[u] EXCEPT ![s] = Listed(s)]] \/ got' = got
      BY <1>8, <1>t DEF Fetch, MirrorTypeOK
    <3> QED
      BY <1>t, <3>1, <3>2 DEF MirrorTypeOK
  <2>5. answer' \in [Syncers -> [Surfaces -> Answers]]
    <3>1. PICK a \in Answers : answer' = [answer EXCEPT ![u] = [answer[u] EXCEPT ![s] = a]]
      BY <1>8, <1>t DEF Fetch, MirrorTypeOK, Answers
    <3>2. [answer[u] EXCEPT ![s] = a] \in [Surfaces -> Answers]
      BY <2>3
    <3> QED
      BY <1>t, <3>1, <3>2 DEF MirrorTypeOK
  <2> QED
    BY <1>8, <1>t, <2>2, <2>4, <2>5 DEF Fetch, MirrorTyped, MirrorTypeOK, JobCounts, Busy
<1>9. ASSUME NEW u \in Syncers, PersistPositions(u) \/ PersistOrders(u) \/ PersistDeals(u) PROVE MirrorTyped'
  <2>1. /\ pc' \in [Syncers -> Steps] /\ JobCounts'
    BY <1>9, GotoTyped DEF PersistPositions, PersistOrders, PersistDeals, Steps
  <2>2. rows' \in [Surfaces -> [Trades -> RowStates]]
    BY <1>9, RowsTyped DEF PersistPositions, PersistOrders, PersistDeals, Surfaces
  <2> QED
    BY <1>9, <1>t, <2>1, <2>2 DEF PersistPositions, PersistOrders, PersistDeals, MirrorTyped, MirrorTypeOK, localVars
<1>10. ASSUME NEW u \in Syncers, FinishRun(u) \/ FailRun(u) PROVE MirrorTyped'
  <2>1. /\ pc' \in [Syncers -> Steps] /\ JobCounts'
    BY <1>10, GotoTyped DEF FinishRun, FailRun, Steps
  <2>2. faults' \in 0..MaxFaults
    BY <1>10, <1>t, FaultTyped DEF FinishRun, FailRun, MirrorTypeOK
  <2>3. run' \in [Syncers -> RunStates] /\ lost' \subseteq Syncers
    BY <1>10, <1>t DEF FinishRun, FailRun, SyncStatus, RunStates, MirrorTypeOK
  <2> QED
    BY <1>10, <1>t, <2>1, <2>2, <2>3 DEF FinishRun, FailRun, MirrorTyped, MirrorTypeOK, localVars
<1>11. ASSUME NEW u \in Syncers, DbError(u) PROVE MirrorTyped'
  <2>1. faults' \in 0..MaxFaults
    BY <1>11, FaultTyped DEF DbError
  <2>2. pc' \in [Syncers -> Steps] /\ (pc'[Worker] = pc[Worker] \/ Busy(Worker))
    BY <1>11, <1>t DEF DbError, MirrorTypeOK, Steps, Busy
  <2> QED
    BY <1>11, <1>t, <2>1, <2>2 DEF DbError, MirrorTyped, MirrorTypeOK, JobCounts, Busy, localVars
<1>12. ASSUME NEW u \in Syncers, EndRequest(u) PROVE MirrorTyped'
  <2>1. /\ u # Worker /\ End(u, "end") /\ UNCHANGED <<broker, rows, run, latest, job, lost, faults>>
    BY <1>12 DEF EndRequest
  <2>2. cmd' \in [Trades -> CommandStates]
    BY <1>12, <1>t DEF EndRequest, MirrorTypeOK, CommandStates
  <2>3. pc'[Worker] = pc[Worker]
    BY <1>t, <1>w, <2>1 DEF End, MirrorTypeOK
  <2> QED
    BY <1>t, <2>1, <2>2, <2>3, EndTyped DEF MirrorTyped, MirrorTypeOK, JobCounts, Busy
<1>13. CASE JobReturns \/ JobThrows
  <2>1. End(Worker, "idle") /\ Busy(Worker) /\ UNCHANGED <<broker, cmd, rows, run, latest, lost, faults>>
    BY <1>13 DEF JobReturns, JobThrows, Busy
  <2>2. pc'[Worker] = "idle"
    BY <1>t, <1>w, <2>1 DEF End, MirrorTypeOK
  <2>3. job.attempts < MaxAttempts
    BY <1>t, <2>1 DEF JobCounts
  <2>4. job' \in JobRow /\ (job'.state \in {"delayed", "active"} => job'.attempts < MaxAttempts)
    <3>1. CASE JobReturns
      BY <1>w, <3>1 DEF JobReturns, JobRow, JobStates
    <3>2. CASE JobThrows
      <4> DEFINE next == IF job.attempts + 1 < MaxAttempts THEN "delayed" ELSE "failed"
      <4>1. job' = [state |-> next, attempts |-> job.attempts + 1, stalls |-> job.stalls]
        BY <1>w, <3>2 DEF JobThrows, JobRow
      <4>2. job.attempts \in 0..MaxAttempts /\ job.stalls \in 0..MaxStalled
        BY <1>w DEF JobRow
      <4>3. /\ next \in JobStates /\ job.attempts + 1 \in 0..MaxAttempts
            /\ next \in {"delayed", "active"} => job.attempts + 1 < MaxAttempts
        BY <2>3, <4>2 DEF JobStates
      <4> HIDE DEF next
      <4> QED
        BY <4>1, <4>2, <4>3 DEF JobRow
    <3> QED
      BY <1>13, <3>1, <3>2
  <2> QED
    BY <1>t, <1>w, <2>1, <2>2, <2>4, EndTyped DEF MirrorTyped, MirrorTypeOK, JobCounts, Busy, JobRow
<1>14. CASE RemoveJob \/ RecoverStalled
  <2>1. /\ UNCHANGED <<broker, cmd, rows, run, latest, pc, localVars, lost, faults>> /\ ~Busy(Worker)
        /\ job' \in JobRow /\ (job'.state \in {"delayed", "active"} => job'.attempts < MaxAttempts)
    <3>1. CASE RemoveJob
      BY <1>w, <1>t, <3>1 DEF RemoveJob, JobCounts, Busy, NoJob, JobRow, JobStates
    <3>2. CASE RecoverStalled /\ job.stalls < MaxStalled
      <4>1. job' = [state |-> "delayed", attempts |-> job.attempts, stalls |-> job.stalls + 1]
        BY <1>w, <3>2 DEF RecoverStalled, JobRow
      <4>2. job.attempts \in 0..MaxAttempts /\ job.stalls + 1 \in 0..MaxStalled /\ job.attempts < MaxAttempts
        BY <1>w, <1>t, <3>2 DEF JobRow, JobCounts, RecoverStalled
      <4>3. job' \in JobRow
        BY <4>1, <4>2 DEF JobRow, JobStates
      <4> QED
        BY <3>2, <4>1, <4>2, <4>3 DEF RecoverStalled, Busy
    <3>3. CASE RecoverStalled /\ ~(job.stalls < MaxStalled)
      BY <1>w, <3>3 DEF RecoverStalled, JobRow, JobStates, Busy
    <3> QED
      BY <1>14, <3>1, <3>2, <3>3
  <2> QED
    BY <1>t, <2>1 DEF MirrorTyped, MirrorTypeOK, JobCounts, Busy, JobRow, localVars
<1>15. ASSUME NEW u \in Syncers, SyncCrash(u) PROVE MirrorTyped'
  <2>1. PICK at \in {"idle", "end"} : /\ End(u, at) /\ UNCHANGED <<broker, cmd, rows, run, latest, job>>
                                     /\ lost' = lost \cup {u} /\ faults' \in 0..MaxFaults
    BY <1>15, FaultTyped DEF SyncCrash
  <2>2. pc'[Worker] = pc[Worker] \/ pc'[Worker] \in {"idle", "end"}
    BY <1>t, <1>w, <2>1 DEF End, MirrorTypeOK
  <2> QED
    BY <1>t, <2>1, <2>2, EndTyped DEF MirrorTyped, MirrorTypeOK, JobCounts, Busy
<1>16. CASE Quiet \/ UNCHANGED mirrorVars
  BY <1>16, <1>t DEF Quiet, mirrorVars, localVars, MirrorTyped, MirrorTypeOK, JobCounts, Busy
<1> QED
  BY <1>1, <1>2, <1>3, <1>4, <1>5, <1>6, <1>7, <1>8, <1>9, <1>10, <1>11, <1>12, <1>13, <1>14, <1>15, <1>16
     DEF MirrorNext, ForceSync

(* Every row, job and sync stays in a state the code knows, and a job is   *)
(* never tried more often than the queue allows.                           *)
THEOREM MirrorTypeCorrect == MirrorSpec => []MirrorTypeOK
<1>1. MirrorTyped => MirrorTypeOK
  BY DEF MirrorTyped
<1> QED
  BY <1>1, MirrorTypeInit, MirrorTypeStep, PTL DEF MirrorSpec
-----------------------------------------------------------------------------
(* The mirror a sync leaves that ran alone.                                *)

(* A step of somebody else, of a sync that does not touch the rows, or of  *)
(* the world: nobody begins, rows and answers stay, and whoever moves ends *)
(* or goes to a point that claims no more.                                 *)
LEMMA QuietKeepsMirror ==
  ASSUME MirrorInv, UNCHANGED rows,
         \A u \in Syncers :
           \/ pc'[u] \in {"idle", "end"}
           \/ /\ Busy(u) /\ alone'[u] = alone[u] /\ answer'[u] = answer[u] /\ got'[u] = got[u]
              /\ \A s \in {"positions", "orders"} :
                   /\ pc'[u] \in Trimmed(s) => pc[u] \in Trimmed(s)
                   /\ pc'[u] \in Written(s) => pc[u] \in Written(s)
  PROVE  LonelySync' /\ MirroredHolds'
<1>1. \A u \in Syncers : Busy(u)' => Busy(u) /\ alone'[u] = alone[u]
  BY DEF Busy
<1>2. LonelySync'
  BY <1>1 DEF MirrorInv, LonelySync, Busy
<1>3. ASSUME NEW u \in Syncers, NEW s \in {"positions", "orders"} PROVE Mirrored(u, s)'
  BY <1>3 DEF MirrorInv, MirroredHolds, Mirrored, Trimmed, Written
<1> QED
  BY <1>2, <1>3 DEF MirroredHolds

(* The same of one sync that goes on from one point to another.            *)
LEMMA GotoKeepsMirror ==
  ASSUME MirrorInv, UNCHANGED <<rows, alone, answer, got>>, NEW u \in Syncers,
         NEW from \in Steps \ {"idle", "end"}, NEW to, Goto(u, from, to),
         \A s \in {"positions", "orders"} :
           /\ to \in Trimmed(s) => from \in Trimmed(s)
           /\ to \in Written(s) => from \in Written(s)
  PROVE  LonelySync' /\ MirroredHolds'
<1>1. pc \in [Syncers -> Steps]
  BY DEF MirrorInv, MirrorTyped, MirrorTypeOK
<1>2. pc[u] = from /\ pc'[u] = to /\ Busy(u) /\ \A v \in Syncers : v # u => pc'[v] = pc[v]
  BY <1>1 DEF Goto, Busy
<1> QED
  BY <1>2, QuietKeepsMirror DEF Busy

(* The beginning of a sync: whoever was at it is no longer alone.          *)
LEMMA BeginKeepsMirror ==
  ASSUME MirrorInv, UNCHANGED rows, NEW u \in Syncers, NEW t, Begin(u, t)
  PROVE  LonelySync' /\ MirroredHolds'
<1>1. /\ pc'[u] = "create" /\ \A v \in Syncers : v # u => pc'[v] = pc[v]
      /\ alone'[u] <=> \A w \in Syncers \ {u} : ~Busy(w)
      /\ \A v \in Syncers : v # u => (alone'[v] <=> alone[v] /\ ~Busy(v))
      /\ UNCHANGED <<answer, got>>
  <2>1. pc \in [Syncers -> Steps]
    BY DEF MirrorInv, MirrorTyped, MirrorTypeOK
  <2>2. alone' = [v \in Syncers |->
         IF v = u THEN \A w \in Syncers \ {u} : ~Busy(w) ELSE alone[v] /\ ~Busy(v)]
    BY DEF Begin
  <2>3. alone'[u] <=> \A w \in Syncers \ {u} : ~Busy(w)
    BY <2>2
  <2>4. ASSUME NEW v \in Syncers, v # u PROVE alone'[v] <=> alone[v] /\ ~Busy(v)
    BY <2>2, <2>4
  <2> QED
    BY <2>1, <2>3, <2>4 DEF Begin
<1>2. LonelySync'
  BY <1>1 DEF LonelySync, Busy
<1>3. ASSUME NEW v \in Syncers, NEW s \in {"positions", "orders"} PROVE Mirrored(v, s)'
  <2>1. CASE v = u
    BY <1>1, <2>1 DEF Mirrored, Trimmed, Written
  <2>2. CASE v # u
    BY <1>1, <2>2 DEF Mirrored, Trimmed, Written, Busy
  <2> QED
    BY <2>1, <2>2
<1> QED
  BY <1>2, <1>3 DEF MirroredHolds

(* The end of a sync.                                                      *)
LEMMA EndKeepsMirror ==
  ASSUME MirrorInv, UNCHANGED rows, NEW u \in Syncers, NEW at \in {"idle", "end"}, End(u, at)
  PROVE  LonelySync' /\ MirroredHolds'
<1>1. /\ pc'[u] = at
      /\ \A v \in Syncers : v # u =>
           pc'[v] = pc[v] /\ alone'[v] = alone[v] /\ answer'[v] = answer[v] /\ got'[v] = got[v]
  BY DEF End, MirrorInv, MirrorTyped, MirrorTypeOK
<1> QED
  BY <1>1, QuietKeepsMirror DEF Busy

(* One of the two writes of a surface, by the sync u.                      *)
LEMMA WriteKeepsMirror ==
  ASSUME MirrorInv, NEW u \in Syncers, Busy(u), UNCHANGED <<alone, answer, got>>,
         NEW to \in Steps \ {"idle", "end"}, pc' = [pc EXCEPT ![u] = to],
         \A s \in {"positions", "orders"} : Mirrored(u, s)'
  PROVE  LonelySync' /\ MirroredHolds'
<1>1. pc'[u] = to /\ \A v \in Syncers : v # u => pc'[v] = pc[v]
  BY DEF MirrorInv, MirrorTyped, MirrorTypeOK
<1>2. \A v \in Syncers : Busy(v)' <=> Busy(v)
  BY <1>1 DEF Busy
<1>3. LonelySync'
  BY <1>2 DEF MirrorInv, LonelySync
<1>4. ASSUME NEW v \in Syncers, v # u, NEW s \in {"positions", "orders"} PROVE Mirrored(v, s)'
  <2>1. ~(Busy(v) /\ alone[v])
    BY <1>4 DEF MirrorInv, LonelySync
  <2> QED
    BY <1>1, <1>4, <2>1 DEF Mirrored, Trimmed, Written, Busy
<1> QED
  BY <1>3, <1>4 DEF MirroredHolds

(* What the two statements do to a surface, row by row.                    *)
LEMMA WritesRows ==
  ASSUME MirrorInv, NEW u \in Syncers, NEW s \in Surfaces
  PROVE  /\ CloseUnseen(u, s) =>
              /\ \A z \in Surfaces : z # s => rows'[z] = rows[z]
              /\ answer[u][s] = "ok" => \A t \in Trades : rows'[s][t] = "live" => t \in got[u][s]
         /\ Upsert(u, s) =>
              /\ \A z \in Surfaces : z # s => rows'[z] = rows[z]
              /\ answer[u][s] = "ok" => \A t \in Trades :
                   rows'[s][t] = "live" <=> rows[s][t] = "live" \/ t \in got[u][s]
<1>1. rows \in [Surfaces -> [Trades -> RowStates]]
  BY DEF MirrorInv, MirrorTyped, MirrorTypeOK
<1>2. ASSUME CloseUnseen(u, s)
      PROVE  /\ \A z \in Surfaces : z # s => rows'[z] = rows[z]
             /\ answer[u][s] = "ok" => \A t \in Trades : rows'[s][t] = "live" => t \in got[u][s]
  BY <1>1, <1>2 DEF CloseUnseen
<1>3. ASSUME Upsert(u, s)
      PROVE  /\ \A z \in Surfaces : z # s => rows'[z] = rows[z]
             /\ answer[u][s] = "ok" => \A t \in Trades :
                  rows'[s][t] = "live" <=> rows[s][t] = "live" \/ t \in got[u][s]
  BY <1>1, <1>3 DEF Upsert
<1> QED
  BY <1>2, <1>3

(* Every step keeps the invariant.                                         *)
LEMMA MirrorStep == MirrorInv /\ [MirrorNext]_mirrorVars => MirrorInv'
<1> SUFFICES ASSUME MirrorInv, [MirrorNext]_mirrorVars PROVE LonelySync' /\ MirroredHolds'
  BY MirrorTypeStep DEF MirrorInv
<1> DEFINE Goal == LonelySync' /\ MirroredHolds'
<1> SUFFICES Goal
  OBVIOUS
<1> HIDE DEF Goal
<1>t. MirrorTypeOK /\ Worker \in Syncers
  BY DEF MirrorInv, MirrorTyped, Syncers
<1>1. CASE UNCHANGED <<rows, pc, alone, answer, got>>
  <2>1. \A u \in Syncers : pc'[u] \in {"idle", "end"} \/ Busy(u)
    BY <1>1 DEF Busy
  <2> QED
    BY <1>1, <2>1, QuietKeepsMirror DEF Goal
<1>2. ASSUME NEW u \in Syncers, NEW t, Begin(u, t), UNCHANGED rows PROVE Goal
  BY <1>2, BeginKeepsMirror DEF Goal
<1>3. ASSUME NEW u \in Syncers, NEW at \in {"idle", "end"}, End(u, at), UNCHANGED rows PROVE Goal
  BY <1>3, EndKeepsMirror DEF Goal
<1>4. ASSUME NEW u \in Syncers,
             CreateRun(u) \/ FetchSummary(u) \/ PersistSummary(u) \/ FinishRun(u) \/ FailRun(u)
             \/ GetWorkspaceFails(u)
      PROVE  Goal
  <2>1. UNCHANGED <<rows, alone, answer, got>>
    BY <1>4 DEF CreateRun, FetchSummary, PersistSummary, FinishRun, FailRun, GetWorkspaceFails, localVars
  <2>2. PICK from \in Steps \ {"idle", "end"}, to \in Steps :
          /\ Goto(u, from, to)
          /\ \A s \in {"positions", "orders"} :
               /\ to \in Trimmed(s) => from \in Trimmed(s)
               /\ to \in Written(s) => from \in Written(s)
    <3>1. CASE FinishRun(u)
      BY <3>1 DEF FinishRun, Steps, Trimmed, Written
    <3>2. CASE CreateRun(u) \/ FetchSummary(u) \/ PersistSummary(u) \/ FailRun(u) \/ GetWorkspaceFails(u)
      <4>1. \E from \in Steps \ {"idle", "end"},
               to \in {"summary", "fetch", "closePositions", "catch", "throw"} : Goto(u, from, to)
        BY <3>2 DEF CreateRun, FetchSummary, PersistSummary, FailRun, GetWorkspaceFails, Steps
      <4> QED
        BY <4>1 DEF Steps, Trimmed, Written
    <3> QED
      BY <1>4, <3>1, <3>2
  <2> QED
    BY <2>1, <2>2, GotoKeepsMirror DEF Goal
<1>5. ASSUME NEW u \in Syncers, DbError(u) PROVE Goal
  <2>1. /\ UNCHANGED <<rows, alone, answer, got>> /\ pc[u] \in Steps \ {"idle", "end"}
        /\ Goto(u, pc[u], "catch")
    BY <1>5, <1>t DEF DbError, Goto, localVars, MirrorTypeOK
  <2> QED
    BY <2>1, GotoKeepsMirror DEF Goal, Trimmed, Written
<1>6. ASSUME NEW u \in Syncers, NEW s \in Surfaces, Fetch(u, s) PROVE Goal
  <2>1. /\ UNCHANGED <<rows, pc, alone>> /\ pc[u] = "fetch"
        /\ \A v \in Syncers : v # u => answer'[v] = answer[v] /\ got'[v] = got[v]
    BY <1>6, <1>t DEF Fetch, MirrorTypeOK
  <2>2. LonelySync'
    BY <2>1 DEF MirrorInv, LonelySync, Busy
  <2>3. ASSUME NEW v \in Syncers, NEW z \in {"positions", "orders"} PROVE Mirrored(v, z)'
    <3>1. CASE v = u
      BY <2>1, <3>1 DEF Mirrored, Trimmed, Written
    <3>2. CASE v # u
      BY <2>1, <3>2 DEF MirrorInv, MirroredHolds, Mirrored
    <3> QED
      BY <3>1, <3>2
  <2> QED
    BY <2>2, <2>3 DEF MirroredHolds, Goal
<1>7. ASSUME NEW u \in Syncers, PersistPositions(u) \/ PersistOrders(u) \/ PersistDeals(u) PROVE Goal
  <2>1. UNCHANGED <<alone, answer, got>> /\ Busy(u) /\ pc \in [Syncers -> Steps]
    BY <1>7, <1>t DEF PersistPositions, PersistOrders, PersistDeals, Goto, Busy, localVars, MirrorTypeOK
  <2>m. Mirrored(u, "positions") /\ Mirrored(u, "orders")
    BY DEF MirrorInv, MirroredHolds
  <2>2. CASE Goto(u, "closePositions", "savePositions") /\ CloseUnseen(u, "positions")
    <3>1. Mirrored(u, "positions")' /\ Mirrored(u, "orders")'
      BY <2>1, <2>2, WritesRows DEF Goto, Surfaces, Mirrored, Trimmed, Written
    <3>2. pc' = [pc EXCEPT ![u] = "savePositions"] /\ "savePositions" \in Steps \ {"idle", "end"}
      BY <2>2 DEF Goto, Steps
    <3> QED
      BY <2>1, <3>1, <3>2, WriteKeepsMirror DEF Goal
  <2>3. CASE Goto(u, "savePositions", "expireOrders") /\ Upsert(u, "positions")
    <3>1. Mirrored(u, "positions")' /\ Mirrored(u, "orders")'
      BY <2>1, <2>3, <2>m, WritesRows DEF Goto, Surfaces, Mirrored, Trimmed, Written
    <3>2. pc' = [pc EXCEPT ![u] = "expireOrders"] /\ "expireOrders" \in Steps \ {"idle", "end"}
      BY <2>3 DEF Goto, Steps
    <3> QED
      BY <2>1, <3>1, <3>2, WriteKeepsMirror DEF Goal
  <2>4. CASE Goto(u, "expireOrders", "saveOrders") /\ CloseUnseen(u, "orders")
    <3>1. Mirrored(u, "positions")' /\ Mirrored(u, "orders")'
      BY <2>1, <2>4, <2>m, WritesRows DEF Goto, Surfaces, Mirrored, Trimmed, Written
    <3>2. pc' = [pc EXCEPT ![u] = "saveOrders"] /\ "saveOrders" \in Steps \ {"idle", "end"}
      BY <2>4 DEF Goto, Steps
    <3> QED
      BY <2>1, <3>1, <3>2, WriteKeepsMirror DEF Goal
  <2>5. CASE Goto(u, "saveOrders", "saveDeals") /\ Upsert(u, "orders")
    <3>1. Mirrored(u, "positions")' /\ Mirrored(u, "orders")'
      BY <2>1, <2>5, <2>m, WritesRows DEF Goto, Surfaces, Mirrored, Trimmed, Written
    <3>2. pc' = [pc EXCEPT ![u] = "saveDeals"] /\ "saveDeals" \in Steps \ {"idle", "end"}
      BY <2>5 DEF Goto, Steps
    <3> QED
      BY <2>1, <3>1, <3>2, WriteKeepsMirror DEF Goal
  <2>6. CASE Goto(u, "saveDeals", "finish") /\ Upsert(u, "deals")
    <3>1. Mirrored(u, "positions")' /\ Mirrored(u, "orders")'
      BY <2>1, <2>6, <2>m, WritesRows DEF Goto, Surfaces, Mirrored, Trimmed, Written
    <3>2. pc' = [pc EXCEPT ![u] = "finish"] /\ "finish" \in Steps \ {"idle", "end"}
      BY <2>6 DEF Goto, Steps
    <3> QED
      BY <2>1, <3>1, <3>2, WriteKeepsMirror DEF Goal
  <2> QED
    BY <1>7, <2>2, <2>3, <2>4, <2>5, <2>6 DEF PersistPositions, PersistOrders, PersistDeals
<1>8. ASSUME NEW u \in Syncers, Request(u) \/ EndRequest(u) \/ SyncCrash(u) PROVE Goal
  BY <1>2, <1>3, <1>8 DEF Request, EndRequest, SyncCrash
<1>9. CASE TakeJob \/ JobReturns \/ JobThrows
  BY <1>2, <1>3, <1>9, <1>t DEF TakeJob, JobReturns, JobThrows
<1> QED
  BY <1>1, <1>4, <1>5, <1>6, <1>7, <1>8, <1>9
     DEF MirrorNext, ForceSync, BrokerActs, Gate, Dispatch, DeferReconciliation, RemoveJob, RecoverStalled,
     Quiet, mirrorVars, localVars

(* A sync of an account beside which no other ran leaves in the mirror     *)
(* what it fetched and nothing else, whatever an earlier sync that died    *)
(* between its writes had left there.                                      *)
THEOREM CleanSyncLeavesWhatItGot == MirrorSpec => []CleanSyncIsExact
<1>1. MirrorInit => MirrorInv
  <2>1. MirrorInit => LonelySync /\ MirroredHolds
    BY DEF MirrorInit, LonelySync, MirroredHolds, Mirrored, Trimmed, Written, Busy
  <2> QED
    BY <2>1, MirrorTypeInit DEF MirrorInv
<1>2. MirrorInv /\ [MirrorNext]_mirrorVars => MirrorInv'
  BY MirrorStep
<1>3. MirrorInv => CleanSyncIsExact
  <2> SUFFICES ASSUME MirrorInv, NEW u \in Syncers, pc[u] \in {"finish", "return"}, alone[u],
                      NEW s \in {"positions", "orders"}, answer[u][s] = "ok"
               PROVE  {t \in Trades : rows[s][t] = "live"} = got[u][s]
    BY DEF CleanSyncIsExact
  <2>1. \A t \in Trades : rows[s][t] = "live" <=> t \in got[u][s]
    BY DEF MirrorInv, MirroredHolds, Mirrored, Written
  <2>2. got[u][s] \subseteq Trades
    BY DEF MirrorInv, MirrorTyped, MirrorTypeOK, Surfaces
  <2> QED
    BY <2>1, <2>2
<1> QED
  BY <1>1, <1>2, <1>3, PTL DEF MirrorSpec
-----------------------------------------------------------------------------
(* What a run that says RUNNING means.                                     *)

(* The points between the statement that opens a run and the one that      *)
(* settles it.                                                             *)
Settling == {"summary", "fetch", "closePositions", "savePositions", "expireOrders", "saveOrders",
             "saveDeals", "finish", "catch"}

(* A run that was not lost is RUNNING exactly while its sync is under way. *)
RunningIsUnderWay ==
  \A u \in Syncers : (run[u] = "RUNNING" /\ u \notin lost) <=> pc[u] \in Settling

(* A sync goes on between two points of the same kind.                     *)
LEMMA GotoKeepsRuns ==
  ASSUME MirrorTyped, RunningIsUnderWay, NEW u \in Syncers, NEW p,
         pc' = [pc EXCEPT ![u] = p], p \in Settling <=> pc[u] \in Settling, UNCHANGED <<run, lost>>
  PROVE  RunningIsUnderWay'
<1>1. ASSUME NEW v \in Syncers PROVE pc'[v] \in Settling <=> pc[v] \in Settling
  BY DEF MirrorTyped, MirrorTypeOK
<1> QED
  BY <1>1 DEF RunningIsUnderWay

(* Every step keeps what RUNNING means.                                    *)
LEMMA RunsStep ==
  MirrorTyped /\ RunningIsUnderWay /\ [MirrorNext]_mirrorVars => RunningIsUnderWay'
<1> SUFFICES ASSUME MirrorTyped, RunningIsUnderWay, [MirrorNext]_mirrorVars PROVE RunningIsUnderWay'
  OBVIOUS
<1>t. /\ pc \in [Syncers -> Steps] /\ run \in [Syncers -> RunStates] /\ Worker \in Syncers
  BY DEF MirrorTyped, MirrorTypeOK, Syncers
<1>1. CASE UNCHANGED <<run, lost, pc>>
  BY <1>1 DEF RunningIsUnderWay
<1>2. ASSUME NEW u \in Syncers, NEW t, Begin(u, t), pc[u] = "idle", UNCHANGED <<run, lost>>
      PROVE  RunningIsUnderWay'
  BY <1>2, GotoKeepsRuns DEF Begin, Settling
<1>3. ASSUME NEW u \in Syncers, NEW at \in {"idle", "end"}, End(u, at), pc[u] \in {"return", "throw"},
             UNCHANGED <<run, lost>>
      PROVE  RunningIsUnderWay'
  BY <1>3, GotoKeepsRuns DEF End, Settling
<1>4. ASSUME NEW u \in Syncers, CreateRun(u) PROVE RunningIsUnderWay'
  <2>1. CASE /\ Goto(u, "create", "summary") /\ run' = [run EXCEPT ![u] = "RUNNING"]
             /\ lost' = lost \ {u}
    BY <1>t, <2>1 DEF RunningIsUnderWay, Goto, Settling
  <2>2. CASE Goto(u, "create", "throw") /\ UNCHANGED <<run, lost>>
    BY <2>2, GotoKeepsRuns DEF Goto, Settling
  <2> QED
    BY <1>4, <2>1, <2>2 DEF CreateRun
<1>5. ASSUME NEW u \in Syncers, FinishRun(u) PROVE RunningIsUnderWay'
  <2>1. SyncStatus(u) # "RUNNING"
    BY DEF SyncStatus
  <2> QED
    BY <1>5, <1>t, <2>1 DEF FinishRun, RunningIsUnderWay, Goto, Settling
<1>6. ASSUME NEW u \in Syncers, FailRun(u) PROVE RunningIsUnderWay'
  BY <1>6, <1>t DEF FailRun, RunningIsUnderWay, Goto, Settling
<1>7. ASSUME NEW u \in Syncers,
             FetchSummary(u) \/ PersistSummary(u) \/ PersistPositions(u) \/ PersistOrders(u)
             \/ PersistDeals(u) \/ DbError(u) \/ GetWorkspaceFails(u)
      PROVE  RunningIsUnderWay'
  <2>1. /\ UNCHANGED <<run, lost>>
        /\ \E p : pc' = [pc EXCEPT ![u] = p] /\ (p \in Settling <=> pc[u] \in Settling)
    BY <1>7 DEF FetchSummary, PersistSummary, PersistPositions, PersistOrders, PersistDeals, DbError,
       GetWorkspaceFails, Goto, Settling
  <2> QED
    BY <2>1, GotoKeepsRuns
<1>8. ASSUME NEW u \in Syncers, SyncCrash(u) PROVE RunningIsUnderWay'
  BY <1>8, <1>t DEF SyncCrash, End, RunningIsUnderWay, Settling
<1>9. ASSUME NEW u \in Syncers, Request(u) \/ EndRequest(u) PROVE RunningIsUnderWay'
  BY <1>2, <1>3, <1>9 DEF Request, EndRequest
<1>10. CASE TakeJob \/ JobReturns \/ JobThrows
  BY <1>2, <1>3, <1>10, <1>t DEF TakeJob, JobReturns, JobThrows
<1> QED
  BY <1>1, <1>4, <1>5, <1>6, <1>7, <1>8, <1>9, <1>10
     DEF MirrorNext, ForceSync, Fetch, BrokerActs, Gate, Dispatch, DeferReconciliation, RemoveJob,
     RecoverStalled, Quiet, mirrorVars, localVars

(* While a sync is under way its run says RUNNING, and a run that says so  *)
(* is under way, unless its process or the write that was to settle it was *)
(* lost: RUNNING never outlives a sync that came to its end.               *)
THEOREM RunningMeansUnderWay == MirrorSpec => []RunningIsUnderWay
<1>1. MirrorInit => RunningIsUnderWay
  BY DEF MirrorInit, RunningIsUnderWay, Settling
<1> QED
  BY <1>1, MirrorTypeInit, MirrorTypeStep, RunsStep, PTL DEF MirrorSpec
=============================================================================
