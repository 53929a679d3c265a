--------------------------- MODULE Reconciliation ---------------------------
(***************************************************************************)
(* The mirror of one trading account: the rows of positions, orders and    *)
(* deals that forceSync copies from the broker, the queue job that runs    *)
(* it some seconds after a trade, the requests that run it at once, and    *)
(* the gate in front of every command, which trusts the mirror only while  *)
(* the latest sync looks good.                                             *)
(*                                                                         *)
(* One action is the code between two awaits.  The three lists are         *)
(* fetched concurrently, so what a sync has got need not be the broker's   *)
(* state at any one moment.  The account's job id is the account's own:    *)
(* there is one job at a time, and one worker slot at it.                  *)
(***************************************************************************)
EXTENDS Naturals

CONSTANTS
  Trades,       \* orders placed at the broker, one command each
  Requests,     \* API calls that run forceSync, one sync each
  Worker,       \* the slot that handles the account's job
  Moves,        \* bound: what may become of an order, of BrokerMoves
  NoTrade,      \* a sync that is not the end of a command
  MaxAttempts,  \* queue option attempts
  MaxStalled,   \* maxStalledCount of BullMQ
  SyncFaults,   \* the failures the environment may show
  MaxFaults     \* bound: failures in one behaviour

(* "bridge": a call to the bridge throws                                   *)
(* "db": an awaited statement throws and changes nothing                   *)
(* "enqueue": queue.add throws and stores nothing                          *)
(* "crash": the process of a sync dies                                     *)
SyncFaultKinds == {"bridge", "db", "enqueue", "crash"}

(* A pending order is filled or cancelled, an open position is closed.     *)
BrokerMoves == {<<"pending", "open">>, <<"pending", "cancelled">>, <<"open", "closed">>}

ASSUME SyncAssumption ==
  /\ Moves \subseteq BrokerMoves
  /\ Worker \notin Requests
  /\ NoTrade \notin Trades
  /\ MaxAttempts \in Nat \ {0}
  /\ MaxStalled \in Nat
  /\ MaxFaults \in Nat
  /\ SyncFaults \subseteq SyncFaultKinds

Syncers == Requests \cup {Worker}
Surfaces == {"positions", "orders", "deals"}

VARIABLES
  broker,   \* what became of each trade at the broker
  cmd,      \* trading_execution_commands, with the reconciliation event
  rows,     \* the mirrored rows of each surface
  run,      \* trading_sync_runs: status of the last run of each syncer
  latest,   \* whose run was started last
  job,      \* the account's job: state, attempts failed, stalls
  pc,       \* the next statement of each sync
  for,      \* the command it ends
  answer,   \* its three calls: asked, ok, failed
  got,      \* what they returned
  alone,    \* history: no other sync has run beside it
  lost,     \* history: the process of that run, or its last write, died
  faults    \* failures so far

localVars == <<for, answer, got, alone>>
mirrorVars == <<broker, cmd, rows, run, latest, job, pc, localVars, lost, faults>>

BrokerStates == {"none", "pending", "open", "closed", "cancelled"}
CommandStates == {"none", "VALIDATED", "REJECTED", "COMPLETED", "RECONCILED",
                  "RECONCILE_DEFERRED", "RECONCILE_PENDING"}
RowStates == {"absent", "live", "gone"}
RunStates == {"none", "RUNNING", "SUCCEEDED", "PARTIAL", "FAILED"}
JobStates == {"none", "delayed", "active", "completed", "failed"}
Answers == {"asked", "ok", "failed"}
Steps == {"idle", "create", "summary", "fetch", "closePositions", "savePositions",
          "expireOrders", "saveOrders", "saveDeals", "finish", "return", "catch",
          "throw", "end"}

Asked == [s \in Surfaces |-> "asked"]
Nothing == [s \in Surfaces |-> {}]
NoJob == [state |-> "none", attempts |-> 0, stalls |-> 0]

(* The job has synced the account before, and nothing was traded since.    *)
MirrorInit ==
  /\ broker = [t \in Trades |-> "none"]
  /\ cmd = [t \in Trades |-> "none"]
  /\ rows = [s \in Surfaces |-> [t \in Trades |-> "absent"]]
  /\ run = [u \in Syncers |-> IF u = Worker THEN "SUCCEEDED" ELSE "none"]
  /\ latest = Worker
  /\ job = NoJob
  /\ pc = [u \in Syncers |-> "idle"]
  /\ for = [u \in Syncers |-> NoTrade]
  /\ answer = [u \in Syncers |-> Asked]
  /\ got = [u \in Syncers |-> Nothing]
  /\ alone = [u \in Syncers |-> TRUE]
  /\ lost = {}
  /\ faults = 0

(***************************************************************************)
(* The broker and the commands                                             *)
(***************************************************************************)
Fault(kind) == kind \in SyncFaults /\ faults < MaxFaults /\ faults' = faults + 1

(* What the bridge lists on each surface.                                  *)
Listed(s) ==
  LET states == IF s = "positions" THEN {"open"}
                ELSE IF s = "orders" THEN {"pending"} ELSE {"open", "closed"}
  IN {t \in Trades : broker[t] \in states}

BrokerActs(t) ==
  /\ \E move \in Moves :
       broker[t] = move[1] /\ broker' = [broker EXCEPT ![t] = move[2]]
  /\ UNCHANGED <<cmd, rows, run, latest, job, pc, localVars, lost, faults>>

(* deriveSyncHealth: the age of the mirror and the state of the terminal   *)
(* may say no at any time; a run that is still RUNNING does not.           *)
CanTrade == run[latest] \notin {"FAILED", "PARTIAL"}

Gate(t) ==
  /\ cmd[t] = "none"
  /\ \/ CanTrade /\ cmd' = [cmd EXCEPT ![t] = "VALIDATED"]
     \/ cmd' = [cmd EXCEPT ![t] = "REJECTED"]
  /\ UNCHANGED <<broker, rows, run, latest, job, pc, localVars, lost, faults>>

(* The broker takes the order, at once or as a pending one.                *)
Dispatch(t) ==
  /\ cmd[t] = "VALIDATED"
  /\ cmd' = [cmd EXCEPT ![t] = "COMPLETED"]
  /\ \E b \in {"pending", "open"} : broker' = [broker EXCEPT ![t] = b]
  /\ UNCHANGED <<rows, run, latest, job, pc, localVars, lost, faults>>

(* queue.add stores nothing while a job with the account's id is known to  *)
(* the queue, whatever its state, and reports no error then.               *)
AddJob == job' = IF job.state = "none" THEN [NoJob EXCEPT !.state = "delayed"] ELSE job

DeferReconciliation(t) ==
  /\ cmd[t] = "COMPLETED" /\ \A u \in Syncers : for[u] # t
  /\ \/ /\ AddJob /\ UNCHANGED faults
        /\ cmd' = [cmd EXCEPT ![t] = "RECONCILE_DEFERRED"]
     \/ /\ Fault("enqueue")
        /\ cmd' = [cmd EXCEPT ![t] = "RECONCILE_PENDING"]
        /\ UNCHANGED job
  /\ UNCHANGED <<broker, rows, run, latest, pc, localVars, lost>>

(***************************************************************************)
(* Who runs forceSync                                                      *)
(***************************************************************************)
Busy(u) == pc[u] \notin {"idle", "end"}

Begin(u, t) ==
  /\ pc' = [pc EXCEPT ![u] = "create"]
  /\ for' = [for EXCEPT ![u] = t]
  /\ alone' = [v \in Syncers |->
       IF v = u THEN \A w \in Syncers \ {u} : ~Busy(w) ELSE alone[v] /\ ~Busy(v)]
  /\ UNCHANGED <<answer, got>>

End(u, at) ==
  /\ pc' = [pc EXCEPT ![u] = at]
  /\ for' = [for EXCEPT ![u] = NoTrade]
  /\ answer' = [answer EXCEPT ![u] = Asked]
  /\ got' = [got EXCEPT ![u] = Nothing]
  /\ alone' = [alone EXCEPT ![u] = TRUE]

(* A command given by hand ends with a sync of its own; the button of the  *)
(* workspace and the command FORCE_SYNC are nothing but a sync.            *)
Request(u) ==
  /\ u \in Requests /\ pc[u] = "idle"
  /\ \/ Begin(u, NoTrade)
     \/ \E t \in Trades :
          /\ cmd[t] = "COMPLETED" /\ \A v \in Syncers : for[v] # t
          /\ Begin(u, t)
  /\ UNCHANGED <<broker, cmd, rows, run, latest, job, lost, faults>>

TakeJob ==
  /\ job.state = "delayed" /\ pc[Worker] = "idle"
  /\ job' = [job EXCEPT !.state = "active"]
  /\ Begin(Worker, NoTrade)
  /\ UNCHANGED <<broker, cmd, rows, run, latest, lost, faults>>

(***************************************************************************)
(* forceSync                                                               *)
(***************************************************************************)
Goto(u, from, to) == pc[u] = from /\ pc' = [pc EXCEPT ![u] = to]

(* Outside of the try: no run, no FAILED.                                  *)
CreateRun(u) ==
  /\ \/ /\ Goto(u, "create", "summary")
        /\ run' = [run EXCEPT ![u] = "RUNNING"]
        /\ latest' = u
        /\ lost' = lost \ {u}
        /\ UNCHANGED faults
     \/ Fault("db") /\ Goto(u, "create", "throw") /\ UNCHANGED <<run, latest, lost>>
  /\ UNCHANGED <<broker, cmd, rows, job, localVars>>

FetchSummary(u) ==
  /\ \/ Goto(u, "summary", "fetch") /\ UNCHANGED faults
     \/ Fault("bridge") /\ Goto(u, "summary", "catch")
  /\ UNCHANGED <<broker, cmd, rows, run, latest, job, localVars, lost>>

Fetch(u, s) ==
  /\ pc[u] = "fetch" /\ answer[u][s] = "asked"
  /\ \/ /\ got' = [got EXCEPT ![u][s] = Listed(s)]
        /\ answer' = [answer EXCEPT ![u][s] = "ok"]
        /\ UNCHANGED faults
     \/ /\ Fault("bridge")
        /\ answer' = [answer EXCEPT ![u][s] = "failed"]
        /\ UNCHANGED got
  /\ UNCHANGED <<broker, cmd, rows, run, latest, job, pc, for, alone, lost>>

(* Variant: the status of the answers is written, not one of a run.        *)
WorstAnswer(u) == IF \E s \in Surfaces : answer[u][s] = "failed" THEN "failed" ELSE "ok"

SyncStatus(u) ==
  IF \E s \in Surfaces : answer[u][s] = "failed" THEN "PARTIAL" ELSE "SUCCEEDED"

(* All three settled; the summary goes into the account and a snapshot,    *)
(* which the mirror's rows do not depend on.                               *)
PersistSummary(u) ==
  /\ \A s \in Surfaces : answer[u][s] # "asked"
  /\ Goto(u, "fetch", "closePositions")
  /\ UNCHANGED <<broker, cmd, rows, run, latest, job, localVars, lost, faults>>

(* Variant: an empty list closes nothing.                                  *)
CloseUnseenOfSome(u, s) ==
  rows' = IF answer[u][s] = "ok" /\ got[u][s] # {}
          THEN [rows EXCEPT ![s] = [t \in Trades |->
                  IF rows[s][t] = "live" /\ t \notin got[u][s] THEN "gone" ELSE rows[s][t]]]
          ELSE rows

(* The two statements of persistPositions and of persistOrders: rows that  *)
(* were not listed are closed, then the listed ones are written as live.   *)
(* A deal row is only ever written.                                        *)
CloseUnseen(u, s) ==
  rows' = IF answer[u][s] = "ok"
          THEN [rows EXCEPT ![s] = [t \in Trades |->
                  IF rows[s][t] = "live" /\ t \notin got[u][s] THEN "gone" ELSE rows[s][t]]]
          ELSE rows
Upsert(u, s) ==
  rows' = IF answer[u][s] = "ok"
          THEN [rows EXCEPT ![s] = [t \in Trades |->
                  IF t \in got[u][s] THEN "live" ELSE rows[s][t]]]
          ELSE rows

PersistPositions(u) ==
  /\ \/ Goto(u, "closePositions", "savePositions") /\ CloseUnseen(u, "positions")
     \/ Goto(u, "savePositions", "expireOrders") /\ Upsert(u, "positions")
  /\ UNCHANGED <<broker, cmd, run, latest, job, localVars, lost, faults>>

PersistOrders(u) ==
  /\ \/ Goto(u, "expireOrders", "saveOrders") /\ CloseUnseen(u, "orders")
     \/ Goto(u, "saveOrders", "saveDeals") /\ Upsert(u, "orders")
  /\ UNCHANGED <<broker, cmd, run, latest, job, localVars, lost, faults>>

PersistDeals(u) ==
  /\ Goto(u, "saveDeals", "finish") /\ Upsert(u, "deals")
  /\ UNCHANGED <<broker, cmd, run, latest, job, localVars, lost, faults>>

FinishRun(u) ==
  /\ Goto(u, "finish", "return")
  /\ run' = [run EXCEPT ![u] = SyncStatus(u)]
  /\ UNCHANGED <<broker, cmd, rows, latest, job, localVars, lost, faults>>

(* Any statement of the try may throw.                                     *)
DbError(u) ==
  /\ Fault("db")
  /\ pc[u] \in {"closePositions", "savePositions", "expireOrders", "saveOrders",
                "saveDeals", "finish"}
  /\ pc' = [pc EXCEPT ![u] = "catch"]
  /\ UNCHANGED <<broker, cmd, rows, run, latest, job, localVars, lost>>

(* Variant: the catch passes the error on and leaves the run as it is.     *)
FailRunNot(u) ==
  /\ Goto(u, "catch", "throw")
  /\ UNCHANGED <<broker, cmd, rows, run, latest, job, localVars, lost, faults>>

(* The catch, whose own writes may throw too.                              *)
FailRun(u) ==
  /\ Goto(u, "catch", "throw")
  /\ \/ run' = [run EXCEPT ![u] = "FAILED"] /\ UNCHANGED <<lost, faults>>
     \/ Fault("db") /\ lost' = lost \cup {u} /\ UNCHANGED run
  /\ UNCHANGED <<broker, cmd, rows, latest, job, localVars>>

(* The promise of getWorkspace is returned, not awaited: when it fails     *)
(* the caller sees an error although the run has SUCCEEDED.                *)
GetWorkspaceFails(u) ==
  /\ Fault("db") /\ Goto(u, "return", "throw")
  /\ UNCHANGED <<broker, cmd, rows, run, latest, job, localVars, lost>>

(***************************************************************************)
(* What follows a sync                                                     *)
(***************************************************************************)
EndRequest(u) ==
  /\ u \in Requests /\ pc[u] \in {"return", "throw"}
  /\ cmd' = IF for[u] = NoTrade THEN cmd ELSE
       [cmd EXCEPT ![for[u]] = IF pc[u] = "return" THEN "RECONCILED" ELSE "RECONCILE_PENDING"]
  /\ End(u, "end")
  /\ UNCHANGED <<broker, rows, run, latest, job, lost, faults>>

JobReturns ==
  /\ pc[Worker] = "return" /\ End(Worker, "idle")
  /\ job' = [job EXCEPT !.state = "completed"]
  /\ UNCHANGED <<broker, cmd, rows, run, latest, lost, faults>>

(* Variant: the processor logs the error and returns.                      *)
JobSwallows ==
  /\ pc[Worker] = "throw" /\ End(Worker, "idle")
  /\ job' = [job EXCEPT !.state = "completed"]
  /\ UNCHANGED <<broker, cmd, rows, run, latest, lost, faults>>

JobThrows ==
  /\ pc[Worker] = "throw" /\ End(Worker, "idle")
  /\ job' = [job EXCEPT !.attempts = @ + 1,
       !.state = IF job.attempts + 1 < MaxAttempts THEN "delayed" ELSE "failed"]
  /\ UNCHANGED <<broker, cmd, rows, run, latest, lost, faults>>

(* removeOnComplete and removeOnFail: many later jobs of other accounts.   *)
RemoveJob ==
  /\ job.state \in {"completed", "failed"} /\ job' = NoJob
  /\ UNCHANGED <<broker, cmd, rows, run, latest, pc, localVars, lost, faults>>

SyncCrash(u) ==
  /\ Fault("crash") /\ Busy(u)
  /\ End(u, IF u = Worker THEN "idle" ELSE "end")
  /\ lost' = lost \cup {u}
  /\ UNCHANGED <<broker, cmd, rows, run, latest, job>>

RecoverStalled ==
  /\ job.state = "active" /\ pc[Worker] = "idle"
  /\ job' = IF job.stalls < MaxStalled
            THEN [job EXCEPT !.state = "delayed", !.stalls = @ + 1]
            ELSE [job EXCEPT !.state = "failed"]
  /\ UNCHANGED <<broker, cmd, rows, run, latest, pc, localVars, lost, faults>>

ForceSync(u) ==
  \/ CreateRun(u) \/ FetchSummary(u) \/ (\E s \in Surfaces : Fetch(u, s))
  \/ PersistSummary(u) \/ PersistPositions(u) \/ PersistOrders(u) \/ PersistDeals(u)
  \/ FinishRun(u) \/ DbError(u) \/ FailRun(u) \/ GetWorkspaceFails(u)

(* All trades are over and all requests answered: nothing is left to do.   *)
Quiet ==
  /\ \A t \in Trades : cmd[t] # "none" /\ \A m \in Moves : broker[t] # m[1]
  /\ \A u \in Syncers : ~Busy(u)
  /\ UNCHANGED mirrorVars

MirrorNext ==
  \/ \E t \in Trades : BrokerActs(t) \/ Gate(t) \/ Dispatch(t) \/ DeferReconciliation(t)
  \/ \E u \in Syncers : Request(u) \/ ForceSync(u) \/ EndRequest(u) \/ SyncCrash(u)
  \/ TakeJob \/ JobReturns \/ JobThrows \/ RemoveJob \/ RecoverStalled \/ Quiet

MirrorSpec == MirrorInit /\ [][MirrorNext]_mirrorVars

(* A process that is not killed runs on, and BullMQ hands out jobs.        *)
MirrorFair ==
  /\ \A u \in Syncers : WF_mirrorVars(ForceSync(u)) /\ WF_mirrorVars(EndRequest(u))
  /\ WF_mirrorVars(TakeJob \/ JobReturns \/ JobThrows \/ RecoverStalled)
FairMirrorSpec == MirrorSpec /\ MirrorFair

(***************************************************************************)
(* Properties                                                              *)
(***************************************************************************)
(* The state of every row, job and sync is one the code knows.             *)
MirrorTypeOK ==
  /\ broker \in [Trades -> BrokerStates]
  /\ cmd \in [Trades -> CommandStates]
  /\ rows \in [Surfaces -> [Trades -> RowStates]]
  /\ run \in [Syncers -> RunStates]
  /\ latest \in Syncers
  /\ job \in [state : JobStates, attempts : 0..MaxAttempts, stalls : 0..MaxStalled]
  /\ pc \in [Syncers -> Steps]
  /\ for \in [Syncers -> Trades \cup {NoTrade}]
  /\ answer \in [Syncers -> [Surfaces -> Answers]]
  /\ got \in [Syncers -> [Surfaces -> SUBSET Trades]]
  /\ alone \in [Syncers -> BOOLEAN]
  /\ lost \subseteq Syncers
  /\ faults \in 0..MaxFaults

(* A sync beside which no other ran leaves exactly what it fetched, even   *)
(* when an earlier one died between its writes: what the broker listed is  *)
(* live, and nothing else is.                                              *)
CleanSyncIsExact ==
  \A u \in Syncers : pc[u] \in {"finish", "return"} /\ alone[u] =>
    \A s \in {"positions", "orders"} : answer[u][s] = "ok" =>
      {t \in Trades : rows[s][t] = "live"} = got[u][s]

(* Every run is settled, unless its process died or the write that was to  *)
(* settle it failed.  Such a run stays RUNNING, which the gate takes for   *)
(* good.                                                                   *)
RunsSettle ==
  \A u \in Syncers : (run[u] = "RUNNING") ~> (run[u] # "RUNNING" \/ u \in lost)

(* A job that waits when a trade has been filled brings the deal into the  *)
(* mirror, or fails for good, or says PARTIAL: such a run is not repeated. *)
JobMirrorsTrade ==
  \A t \in Trades : (job.state = "delayed" /\ broker[t] \in {"open", "closed"}) ~>
    \/ rows["deals"][t] = "live"
    \/ job.state = "failed"
    \/ run[Worker] = "PARTIAL"
=============================================================================
