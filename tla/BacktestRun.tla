---------------------------- MODULE BacktestRun ----------------------------
(***************************************************************************)
(* One generated backtest run: executions of it (its job, the job again    *)
(* after a stall, requests to /execute), which nothing keeps from          *)
(* overlapping, and its deletion.  The artifacts of an execution, its      *)
(* signals with their events, traces and results, are written in one       *)
(* transaction; they stand for one item here, named by the execution.      *)
(*                                                                         *)
(* The database is at READ COMMITTED: a statement sees what is committed   *)
(* when it begins, waits for rows another transaction has deleted, and an  *)
(* insert keeps the row it refers to from being deleted before the commit. *)
(***************************************************************************)
EXTENDS Naturals, FiniteSets

CONSTANTS
  Executions,  \* calls of executeRun
  BacktestFaults

(* "preview": the computation throws; "db": a statement throws; "crash"    *)
BacktestFaultKinds == {"preview", "db", "crash"}

ASSUME BacktestAssumption == BacktestFaults \subseteq BacktestFaultKinds

VARIABLES
  present,     \* the row of the run is there
  status,      \* its status
  artifacts,   \* committed artifacts of the run
  orphans,     \* artifacts whose run is gone
  exec,        \* the next step of each execution
  gone,        \* what its transaction has deleted, uncommitted
  deletion,    \* the next step of deleteGeneratedBacktest
  deleted,     \* what its transaction has deleted, uncommitted
  beside       \* history: two of them were under way at the same time

runVars == <<present, status, artifacts, orphans, exec, gone, deletion, deleted, beside>>

ExecSteps == {"idle", "mark", "preview", "delete", "insert", "commit", "webhooks", "catch", "done"}
RunStatuses == {"PENDING", "RUNNING", "COMPLETED", "FAILED"}

BacktestInit ==
  /\ present = TRUE /\ status = "PENDING"
  /\ artifacts = {} /\ orphans = {}
  /\ exec = [e \in Executions |-> "idle"]
  /\ gone = [e \in Executions |-> {}]
  /\ deletion = "idle" /\ deleted = {}
  /\ beside = FALSE

Executing == {e \in Executions : exec[e] \notin {"idle", "done"}}
Goes(e, from, to) == exec[e] = from /\ exec' = [exec EXCEPT ![e] = to]
Fails(e, kind, from) == kind \in BacktestFaults /\ Goes(e, from, "catch")

(* executeRun finds the run; no status keeps it from going on.             *)
FindRun(e) ==
  /\ Goes(e, "idle", IF present THEN "mark" ELSE "done")
  /\ beside' = (beside \/ Executing # {} \/ deletion # "idle")
  /\ UNCHANGED <<present, status, artifacts, orphans, gone, deletion, deleted>>

(* The update to RUNNING stands before the try.                            *)
MarkRunning(e) ==
  /\ \/ present /\ Goes(e, "mark", "preview") /\ status' = "RUNNING"
     \/ (~present \/ "db" \in BacktestFaults) /\ Goes(e, "mark", "done") /\ UNCHANGED status
  /\ UNCHANGED <<present, artifacts, orphans, gone, deletion, deleted, beside>>

RunPreview(e) ==
  /\ Goes(e, "preview", "delete") \/ Fails(e, "preview", "preview")
  /\ UNCHANGED <<present, status, artifacts, orphans, gone, deletion, deleted, beside>>

(* Variant: what an earlier execution left is kept.                        *)
KeepArtifacts(e) ==
  /\ Goes(e, "delete", "insert") \/ Fails(e, "db", "delete")
  /\ UNCHANGED <<present, status, artifacts, orphans, gone, deletion, deleted, beside>>

(* deleteMany of the artifacts, in the transaction.                        *)
DeleteArtifacts(e) ==
  /\ \/ /\ Goes(e, "delete", "insert")
        /\ \A f \in Executions \ {e} : gone[f] \cap artifacts = {}
        /\ deleted \cap artifacts = {}
        /\ gone' = [gone EXCEPT ![e] = artifacts]
     \/ Fails(e, "db", "delete") /\ UNCHANGED gone
  /\ UNCHANGED <<present, status, artifacts, orphans, deletion, deleted, beside>>

(* The inserts refer to the run: without it they fail and roll back.       *)
InsertArtifacts(e) ==
  /\ \/ present /\ Goes(e, "insert", "commit") /\ UNCHANGED gone
     \/ /\ (~present /\ Goes(e, "insert", "catch")) \/ Fails(e, "db", "insert")
        /\ gone' = [gone EXCEPT ![e] = {}]
  /\ UNCHANGED <<present, status, artifacts, orphans, deletion, deleted, beside>>

(* COMPLETED is written in the same transaction.  When its commit throws,  *)
(* it may have taken place all the same.                                   *)
CommitArtifacts(e) ==
  /\ gone' = [gone EXCEPT ![e] = {}]
  /\ \/ /\ Goes(e, "commit", "webhooks") \/ Fails(e, "db", "commit")
        /\ artifacts' = (artifacts \ gone[e]) \cup {e}
        /\ status' = "COMPLETED"
     \/ Fails(e, "db", "commit") /\ UNCHANGED <<artifacts, status>>
  /\ UNCHANGED <<present, orphans, deletion, deleted, beside>>

(* Every error of the deliveries is swallowed.                             *)
DispatchWebhooks(e) ==
  /\ Goes(e, "webhooks", "done")
  /\ UNCHANGED <<present, status, artifacts, orphans, gone, deletion, deleted, beside>>

(* The catch writes FAILED over whatever the status is: another execution, *)
(* or a commit that threw, may have completed the run.                     *)
MarkFailed(e) ==
  /\ Goes(e, "catch", "done")
  /\ status' \in (IF present THEN {"FAILED"} ELSE {}) \cup
                 (IF ~present \/ "db" \in BacktestFaults THEN {status} ELSE {})
  /\ UNCHANGED <<present, artifacts, orphans, gone, deletion, deleted, beside>>

ExecutionCrash(e) ==
  /\ "crash" \in BacktestFaults /\ e \in Executing
  /\ exec' = [exec EXCEPT ![e] = "done"]
  /\ gone' = [gone EXCEPT ![e] = {}]
  /\ UNCHANGED <<present, status, artifacts, orphans, deletion, deleted, beside>>

(***************************************************************************)
(* deleteGeneratedBacktest                                                 *)
(***************************************************************************)
CheckDeletable ==
  /\ deletion = "idle" /\ present /\ status \notin {"PENDING", "RUNNING"}
  /\ deletion' = "delete"
  /\ beside' = (beside \/ Executing # {})
  /\ UNCHANGED <<present, status, artifacts, orphans, exec, gone, deleted>>

DeleteRows ==
  /\ deletion = "delete" /\ deletion' = "drop"
  /\ \A e \in Executions : gone[e] \cap artifacts = {}
  /\ deleted' = artifacts
  /\ UNCHANGED <<present, status, artifacts, orphans, exec, gone, beside>>

(* Signals committed since are not deleted: their run is set to null.      *)
DropRun ==
  /\ deletion = "drop" /\ \A e \in Executions : exec[e] # "commit"
  /\ deletion' = "idle" /\ deleted' = {}
  /\ present' = FALSE
  /\ artifacts' = {} /\ orphans' = artifacts \ deleted
  /\ UNCHANGED <<status, exec, gone, beside>>

(* A statement fails, or the run is linked to an indicator: rolled back.   *)
DeletionFails ==
  /\ deletion \in {"delete", "drop"}
  /\ deletion' = "idle" /\ deleted' = {}
  /\ UNCHANGED <<present, status, artifacts, orphans, exec, gone, beside>>

BacktestNext ==
  \/ \E e \in Executions :
       \/ FindRun(e) \/ MarkRunning(e) \/ RunPreview(e) \/ DeleteArtifacts(e)
       \/ InsertArtifacts(e) \/ CommitArtifacts(e) \/ DispatchWebhooks(e)
       \/ MarkFailed(e) \/ ExecutionCrash(e)
  \/ CheckDeletable \/ DeleteRows \/ DropRun \/ DeletionFails

BacktestSpec == BacktestInit /\ [][BacktestNext]_runVars

(***************************************************************************)
(* Properties                                                              *)
(***************************************************************************)
BacktestTypeOK ==
  /\ present \in BOOLEAN /\ status \in RunStatuses /\ beside \in BOOLEAN
  /\ artifacts \subseteq Executions /\ orphans \subseteq Executions
  /\ exec \in [Executions -> ExecSteps]
  /\ gone \in [Executions -> SUBSET Executions]
  /\ deletion \in {"idle", "delete", "drop"} /\ deleted \subseteq Executions

(* A run that is there has the artifacts of at most one execution, one     *)
(* that says COMPLETED has them, and a deleted run leaves none behind,     *)
(* through errors and crashes at any step.  Executions that overlap with   *)
(* another or with the deletion are the exception: each keeps its signals. *)
RunIsWhole ==
  ~beside =>
    /\ Cardinality(artifacts) <= 1
    /\ present /\ status = "COMPLETED" => artifacts # {}
    /\ orphans = {}
=============================================================================
