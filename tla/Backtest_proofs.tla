--------------------------- MODULE Backtest_proofs ---------------------------
(***************************************************************************)
(* A backtest, for all plans, profiles, prices and any number of bars: a   *)
(* run is whole whatever its executions do, a completed cycle of songTrap  *)
(* has no position left, a stop does not give up what it had secured,      *)
(* signals of one place are fewer than twice the cap, and a drawdown halt  *)
(* that meets no open trade is final.                                      *)
(***************************************************************************)
EXTENDS TradeGuards, TradeExit, SignalMatch, SongTrap, BacktestRun,
        FiniteSetTheorems, SequenceTheorems, WellFoundedInduction, TLAPS

(***************************************************************************)
(* The run.  RunIsWhole is not inductive: what a commit leaves depends on  *)
(* what the transaction has deleted, and what a deletion leaves on what it *)
(* has seen.  Quiet adds that, as long as nothing overlapped, one          *)
(* execution or the deletion has the run for itself, and its transaction   *)
(* holds exactly what is committed.                                        *)
(***************************************************************************)
(* The execution that has the run for itself, and what it knows of it.     *)
Lone(e) ==
  /\ present
  /\ \A f \in Executions : f # e => exec[f] \in {"idle", "done"}
  /\ deletion = "idle"
  /\ exec[e] \in {"preview", "delete", "insert", "commit"} => status = "RUNNING"
  /\ exec[e] \in {"insert", "commit"} => gone[e] = artifacts

Quiet ==
  /\ \A e \in Executions : exec[e] \notin {"idle", "done"} => Lone(e)
  /\ deletion # "idle" => present
  /\ deletion = "drop" => deleted = artifacts
  /\ \A a, b \in artifacts : a = b
  /\ present /\ status = "COMPLETED" => artifacts # {}
  /\ orphans = {}

BacktestInv == BacktestTypeOK /\ (~beside => Quiet)

ExecAction(e) ==
  \/ FindRun(e) \/ MarkRunning(e) \/ RunPreview(e) \/ DeleteArtifacts(e)
  \/ InsertArtifacts(e) \/ CommitArtifacts(e) \/ DispatchWebhooks(e)
  \/ MarkFailed(e) \/ ExecutionCrash(e)

(* No step leaves the types.                                               *)
LEMMA BacktestTypeStep == BacktestTypeOK /\ [BacktestNext]_runVars => BacktestTypeOK'
<1> SUFFICES ASSUME BacktestTypeOK, [BacktestNext]_runVars PROVE BacktestTypeOK'
  OBVIOUS
<1> USE DEF BacktestTypeOK, ExecSteps, RunStatuses
<1>1. ASSUME NEW e \in Executions, ExecAction(e) PROVE BacktestTypeOK'
  <2> USE DEF Goes, Fails
  <2>1. CASE FindRun(e) BY <2>1 DEF FindRun
  <2>2. CASE MarkRunning(e) BY <2>2 DEF MarkRunning
  <2>3. CASE RunPreview(e) BY <2>3 DEF RunPreview
  <2>4. CASE DeleteArtifacts(e) BY <2>4 DEF DeleteArtifacts
  <2>5. CASE InsertArtifacts(e) BY <2>5 DEF InsertArtifacts
  <2>6. CASE CommitArtifacts(e) BY <2>6 DEF CommitArtifacts
  <2>7. CASE DispatchWebhooks(e) BY <2>7 DEF DispatchWebhooks
  <2>8. CASE MarkFailed(e) BY <2>8 DEF MarkFailed
  <2>9. CASE ExecutionCrash(e) BY <2>9 DEF ExecutionCrash
  <2> QED BY <1>1, <2>1, <2>2, <2>3, <2>4, <2>5, <2>6, <2>7, <2>8, <2>9 DEF ExecAction
<1>2. CASE CheckDeletable BY <1>2 DEF CheckDeletable
<1>3. CASE DeleteRows BY <1>3 DEF DeleteRows
<1>4. CASE DropRun BY <1>4 DEF DropRun
<1>5. CASE DeletionFails BY <1>5 DEF DeletionFails
<1>6. CASE UNCHANGED runVars BY <1>6 DEF runVars
<1> QED BY <1>1, <1>2, <1>3, <1>4, <1>5, <1>6 DEF BacktestNext, ExecAction

(* A step of an execution that has begun keeps the run for itself.         *)
LEMMA ExecutionQuiet ==
  ASSUME BacktestTypeOK, Quiet, NEW e \in Executions, ExecAction(e), ~beside'
  PROVE  Quiet'
<1> USE DEF BacktestTypeOK, Quiet, Lone, Goes, Fails, ExecSteps
<1>1. CASE FindRun(e)
  <2>1. /\ \A f \in Executions : exec[f] \in {"idle", "done"}
        /\ deletion = "idle"
    BY <1>1 DEF FindRun, Executing
  <2> QED BY <1>1, <2>1 DEF FindRun
<1>2. CASE MarkRunning(e) BY <1>2 DEF MarkRunning
<1>3. CASE RunPreview(e) BY <1>3 DEF RunPreview
<1>4. CASE DeleteArtifacts(e) BY <1>4 DEF DeleteArtifacts
<1>5. CASE InsertArtifacts(e) BY <1>5 DEF InsertArtifacts
<1>6. CASE CommitArtifacts(e)
  <2>1. exec[e] = "commit" /\ Lone(e) /\ gone[e] = artifacts
    BY <1>6 DEF CommitArtifacts
  <2>2. CASE artifacts' = (artifacts \ gone[e]) \cup {e} /\ status' = "COMPLETED"
    <3>1. artifacts' = {e} BY <2>1, <2>2
    <3> QED BY <1>6, <2>1, <3>1 DEF CommitArtifacts
  <2>3. CASE UNCHANGED <<artifacts, status>> /\ Fails(e, "db", "commit")
    BY <1>6, <2>1, <2>3 DEF CommitArtifacts
  <2> QED BY <1>6, <2>2, <2>3 DEF CommitArtifacts
<1>7. CASE DispatchWebhooks(e) BY <1>7 DEF DispatchWebhooks
<1>8. CASE MarkFailed(e) BY <1>8 DEF MarkFailed
<1>9. CASE ExecutionCrash(e) BY <1>9 DEF ExecutionCrash, Executing
<1> QED BY <1>1, <1>2, <1>3, <1>4, <1>5, <1>6, <1>7, <1>8, <1>9 DEF ExecAction

(* Every step keeps the invariant.                                         *)
LEMMA BacktestInvStep == BacktestInv /\ [BacktestNext]_runVars => BacktestInv'
<1> SUFFICES ASSUME BacktestInv, [BacktestNext]_runVars PROVE BacktestInv'
  OBVIOUS
<1>1. BacktestTypeOK /\ BacktestTypeOK'
  BY BacktestTypeStep DEF BacktestInv
<1> SUFFICES ASSUME ~beside' PROVE Quiet'
  BY <1>1 DEF BacktestInv
<1>2. ASSUME NEW e \in Executions, ExecAction(e) PROVE Quiet'
  <2>1. ~beside
    BY <1>1, <1>2 DEF ExecAction, FindRun, MarkRunning, RunPreview, DeleteArtifacts,
      InsertArtifacts, CommitArtifacts, DispatchWebhooks, MarkFailed, ExecutionCrash, BacktestTypeOK
  <2> QED BY <1>1, <1>2, <2>1, ExecutionQuiet DEF BacktestInv
<1> USE DEF BacktestTypeOK, Quiet, Lone, BacktestInv
<1>3. CASE CheckDeletable
  <2>1. \A f \in Executions : exec[f] \in {"idle", "done"}
    BY <1>1, <1>3 DEF CheckDeletable, Executing
  <2> QED BY <1>1, <1>3, <2>1 DEF CheckDeletable
<1>4. CASE DeleteRows BY <1>1, <1>4 DEF DeleteRows
<1>5. CASE DropRun
  <2>1. ~beside /\ deletion = "drop" /\ artifacts \ deleted = {}
    BY <1>1, <1>5 DEF DropRun
  <2> QED BY <1>1, <1>5, <2>1 DEF DropRun
<1>6. CASE DeletionFails BY <1>1, <1>6 DEF DeletionFails
<1>7. CASE UNCHANGED runVars BY <1>1, <1>7 DEF runVars
<1> QED BY <1>2, <1>3, <1>4, <1>5, <1>6, <1>7 DEF BacktestNext, ExecAction

(* There is a run and nothing under way.                                   *)
LEMMA BacktestInvInit == BacktestInit => BacktestInv
BY DEF BacktestInit, BacktestInv, BacktestTypeOK, Quiet, Lone, ExecSteps, RunStatuses

(* The invariant of the run.                                               *)
LEMMA BacktestInvariant == BacktestSpec => []BacktestInv
BY BacktestInvInit, BacktestInvStep, PTL DEF BacktestSpec

(* The row of the run, its artifacts and the steps of its executions and   *)
(* of its deletion have their types in every reachable state.              *)
THEOREM BacktestTypeCorrect == BacktestSpec => []BacktestTypeOK
<1>1. BacktestInv => BacktestTypeOK BY DEF BacktestInv
<1> QED BY <1>1, BacktestInvariant, PTL

(* executeRun and deleteGeneratedBacktest: as long as nothing overlaps, a  *)
(* run has the artifacts of one execution, a COMPLETED one has them, and a *)
(* deleted one leaves none.                                                *)
THEOREM RunStaysWhole == BacktestSpec => []RunIsWhole
<1>1. ASSUME BacktestInv PROVE RunIsWhole
  <2>1. CASE beside BY <2>1 DEF RunIsWhole
  <2>2. CASE ~beside
    <3>1. /\ \A a, b \in artifacts : a = b
          /\ present /\ status = "COMPLETED" => artifacts # {}
          /\ orphans = {}
      BY <1>1, <2>2 DEF BacktestInv, Quiet
    <3>2. Cardinality(artifacts) = 0 \/ Cardinality(artifacts) = 1
      <4>1. CASE artifacts = {} BY <4>1, FS_EmptySet
      <4>2. ASSUME NEW a \in artifacts PROVE Cardinality(artifacts) = 1
        <5>1. artifacts = {a} BY <3>1, <4>2
        <5> QED BY <5>1, FS_Singleton
      <4> QED BY <4>1, <4>2
    <3>3. Cardinality(artifacts) <= 1
      BY <3>2
    <3> QED BY <3>1, <3>3 DEF RunIsWhole
  <2> QED BY <2>1, <2>2
<1> QED BY <1>1, BacktestInvariant, PTL

(***************************************************************************)
(* songTrap. Two passes over the bars decide when a cycle is complete and  *)
(* when its position is closed; what they share is that the signal of the  *)
(* active cycle has its target at the trap.                                *)
(***************************************************************************)
(* The positions and the trap as records; what ties them to the progress   *)
(* of the active cycle.                                                    *)
Positions == [state : {"none", "ordered", "filled"}, entry : Int, stop : Int, target : Int,
              armed : BOOLEAN, hit : SUBSET (1..NoTarget), left : 0..Quarters, late : BOOLEAN]
Traps == [number : 0..Cycles, price : Int, lowest : Int]
Phases == {"idle", "trapped", "pulled", "reset", "x1", "dipped"} \cup InTrade

(* The signal of the active cycle has its target at the trap; a cycle that *)
(* has not come to its signal has no position.                             *)
ActiveOK ==
  /\ progress # "idle" => fate[trap.number] = "none"
  /\ progress \in InTrade =>
       /\ trade[trap.number].state # "none"
       /\ plan.signalTarget => trade[trap.number].target = trap.price
TrapInv ==
  /\ TrapTypeOK /\ CompletionCloses /\ ActiveOK
  /\ trap \in Traps /\ trade \in [1..Cycles -> Positions]
  /\ fate \in [1..Cycles -> {"none", "completed", "failed"}]
  /\ \A n \in 1..Cycles : n > trap.number => fate[n] = "none"
  /\ \A n \in 1..Cycles : trade[n].state = "ordered" => trade[n].left = 0

(* A bar of the run.                                                       *)
LEMMA BarTyped ==
  ASSUME NEW b \in TrapBars
  PROVE  /\ b.open \in Int /\ b.close \in Int /\ b.low \in Int /\ b.high \in Int
         /\ b.side \in -1..1 /\ b.zone \in RsiZones
<1>1. NoTarget \in Int
  BY DEF NoTarget
<1>2. b.low \in 0..(NoTarget - 1) /\ b.high \in b.low..(NoTarget - 1)
      /\ b.open \in b.low..b.high /\ b.close \in b.low..b.high /\ b.side \in -1..1 /\ b.zone \in RsiZones
  BY TrapAssumption
<1>3. b.low \in Int
  BY <1>1, <1>2
<1>4. b.high \in Int
  BY <1>1, <1>2, <1>3
<1> QED
  BY <1>2, <1>3, <1>4

(* A bar takes a cycle forward only; one in its trade stays there, and     *)
(* none is begun.                                                          *)
LEMMA ConfirmedIs ==
  ASSUME NEW b, progress \in Phases
  PROVE  /\ Confirmed(b) \in Phases
         /\ progress \in InTrade => Confirmed(b) \in InTrade
         /\ progress = "idle" => Confirmed(b) = "idle"
<1>1. Pulled(b) \in Phases /\ (progress \in InTrade \cup {"idle"} => Pulled(b) = progress)
  BY DEF Pulled, Phases, InTrade
<1>2. WasReset(b) \in Phases /\ (progress \in InTrade \cup {"idle"} => WasReset(b) = progress)
  BY <1>1 DEF WasReset, Phases, InTrade
<1>3. Reclaimed(b) \in Phases /\ (progress \in InTrade \cup {"idle"} => Reclaimed(b) = progress)
  BY <1>2 DEF Reclaimed, Phases, InTrade
<1>4. Dipped(b) \in Phases /\ (progress \in InTrade \cup {"idle"} => Dipped(b) = progress)
  BY <1>3 DEF Dipped, Phases, InTrade
<1>5. Entered(b) \in Phases /\ (progress \in InTrade \cup {"idle"} => Entered(b) = progress)
  BY <1>4 DEF Entered, Phases, InTrade
<1> QED
  BY <1>5 DEF Confirmed, Phases, InTrade

(* What a bar leaves of a position: state, target and lateness are kept,   *)
(* and nothing is left once the target is met.                             *)
LEMMA ManageKeeps ==
  ASSUME NEW t \in Positions, NEW b \in TrapBars, plan \in TrapPlans
  PROVE  /\ Manage(t, b) \in Positions
         /\ Manage(t, b).state = t.state /\ Manage(t, b).target = t.target
         /\ Manage(t, b).late = t.late
         /\ b.high >= t.target => Manage(t, b).left = 0
<1> DEFINE a == Arm(t, b)
           u == Trail(a, b)
           met == {s \in plan.trail : s[1] \notin a.hit /\ b.high >= a.entry + s[1]}
<1>1. a \in Positions /\ a.state = t.state /\ a.target = t.target /\ a.late = t.late
  <2>1. CASE a = t
    BY <2>1
  <2>2. CASE a = [t EXCEPT !.armed = TRUE, !.stop = t.entry]
    <3>1. a = [state |-> t.state, entry |-> t.entry, stop |-> t.entry, target |-> t.target,
               armed |-> TRUE, hit |-> t.hit, left |-> t.left, late |-> t.late]
      BY <2>2 DEF Positions
    <3> HIDE DEF a
    <3> QED
      BY <3>1 DEF Positions
  <2>3. a = t \/ a = [t EXCEPT !.armed = TRUE, !.stop = t.entry]
    BY DEF Arm
  <2> QED
    BY <2>1, <2>2, <2>3
<1>2. \A s \in plan.trail : s[1] \in 1..NoTarget
  BY TrapAssumption
<1> HIDE DEF a
<1>3. u \in Positions /\ u.state = t.state /\ u.target = t.target /\ u.late = t.late
  <2> DEFINE closes == MapThenSumSet(LAMBDA s : s[2], met)
             rest == IF closes \in 0..a.left THEN a.left - closes ELSE 0
             hits == a.hit \cup {s[1] : s \in met}
  <2>1. u = [a EXCEPT !.hit = hits, !.left = rest]
    BY DEF Trail
  <2>2. hits \in SUBSET (1..NoTarget)
    BY <1>1, <1>2 DEF Positions
  <2>3. a.left \in 0..Quarters /\ Quarters = 4
    BY <1>1 DEF Positions, Quarters
  <2> HIDE DEF closes
  <2>4. rest \in 0..Quarters
    BY <2>3
  <2> HIDE DEF hits, rest, u
  <2>5. u = [state |-> a.state, entry |-> a.entry, stop |-> a.stop, target |-> a.target,
             armed |-> a.armed, hit |-> hits, left |-> rest, late |-> a.late]
    BY <1>1, <2>1 DEF Positions
  <2> QED
    BY <1>1, <2>2, <2>4, <2>5 DEF Positions
<1> DEFINE rest == IF MeetsTarget(u, b) \/ b.low <= u.stop THEN 0 ELSE u.left
<1>4. Manage(t, b) = [u EXCEPT !.left = rest]
  BY DEF Manage, a
<1> HIDE DEF u
<1>5. rest \in 0..Quarters /\ (b.high >= t.target => rest = 0)
  BY <1>3 DEF Positions, MeetsTarget, Quarters
<1> HIDE DEF rest
<1>6. Manage(t, b) = [state |-> u.state, entry |-> u.entry, stop |-> u.stop, target |-> u.target,
                      armed |-> u.armed, hit |-> u.hit, left |-> rest, late |-> u.late]
  BY <1>3, <1>4 DEF Positions
<1> QED
  BY <1>3, <1>5, <1>6 DEF Positions

(* The order of a signal and its fill.                                     *)
LEMMA OrderTyped ==
  ASSUME NEW b \in TrapBars, trap \in Traps
  PROVE  /\ Order(b) \in Positions /\ Order(b).state = "ordered" /\ Order(b).left = 0
         /\ plan.signalTarget => Order(b).target = trap.price
<1> DEFINE target == IF plan.signalTarget THEN trap.price ELSE NoTarget
<1>1. Lowest(b) \in Int /\ target \in Int
  BY BarTyped DEF Lowest, Traps, NoTarget
<1>2. NoTrade \in Positions /\ NoTrade.left = 0
  BY DEF NoTrade, Positions, Quarters
<1> DEFINE ordered == [NoTrade EXCEPT !.state = "ordered", !.stop = Lowest(b)]
<1>3. ordered \in Positions /\ ordered.state = "ordered" /\ ordered.left = 0
  BY <1>1, <1>2 DEF Positions
<1>4. Order(b) = [ordered EXCEPT !.target = target]
  BY DEF Order
<1>5. plan.signalTarget => target = trap.price
  OBVIOUS
<1> HIDE DEF target, ordered
<1> QED
  BY <1>1, <1>3, <1>4, <1>5 DEF Positions

(* An order that is filled: at its price, late or not.                     *)
LEMMA FillTyped ==
  ASSUME NEW t \in Positions, NEW price \in Int, NEW late \in BOOLEAN
  PROVE  /\ Fill(t, price, late) \in Positions /\ Fill(t, price, late).state = "filled"
         /\ Fill(t, price, late).target = t.target /\ Fill(t, price, late).late = late
<1>1. "filled" \in {"none", "ordered", "filled"} /\ Quarters \in 0..Quarters
  BY DEF Quarters
<1> DEFINE opened == [t EXCEPT !.state = "filled", !.entry = price]
<1>2. opened \in Positions
  BY <1>1 DEF Positions
<1>3. opened.state = "filled" /\ opened.target = t.target
  BY DEF Positions
<1>4. Fill(t, price, late) = [opened EXCEPT !.left = Quarters, !.late = late]
  BY DEF Fill
<1> HIDE DEF opened
<1>5. [opened EXCEPT !.left = Quarters, !.late = late] \in Positions
  BY <1>1, <1>2 DEF Positions
<1> QED
  BY <1>2, <1>3, <1>4, <1>5 DEF Positions

(* What a bar does to the position of a cycle: it stays typed, an order is *)
(* not forgotten, the active cycle's signal has its target at the trap,    *)
(* where nothing is left of it, and what is filled after the end is late.  *)
LEMMA PositionIs ==
  ASSUME TrapInv, NEW b \in TrapBars, NEW n \in 1..Cycles
  PROVE  /\ Position(n, b) \in Positions
         /\ Position(n, b).state = "ordered" => Position(n, b).left = 0
         /\ ~Signals(b) \/ n # trap.number =>
              /\ Position(n, b).target = trade[n].target
              /\ trade[n].state # "none" => Position(n, b).state # "none"
              /\ (trade[n].late \/ trade[n].left = 0) /\ fate[n] # "none" =>
                   Position(n, b).late \/ Position(n, b).left = 0
              /\ b.high >= trade[n].target => Position(n, b).left = 0
         /\ Signals(b) /\ n = trap.number =>
              /\ Position(n, b).state # "none"
              /\ plan.signalTarget => /\ Position(n, b).target = trap.price
                                      /\ b.high >= trap.price => Position(n, b).left = 0
<1>1. /\ trade[n] \in Positions /\ plan \in TrapPlans /\ trap \in Traps
      /\ trade[n].state = "ordered" => trade[n].left = 0
      /\ b.open \in Int /\ b.close \in Int /\ b.high \in Int
  BY BarTyped DEF TrapInv, TrapTypeOK
<1>2. CASE Signals(b) /\ n = trap.number
  <2>1. CASE plan.nextOpen
    <3>1. Position(n, b) = Order(b)
      BY <1>2, <2>1 DEF Position
    <3> QED
      BY <1>1, <1>2, <3>1, OrderTyped
  <2>2. CASE ~plan.nextOpen
    <3> DEFINE t == Fill(Order(b), b.close, FALSE)
    <3>1. Position(n, b) = Manage(t, b)
      BY <1>2, <2>2 DEF Position
    <3>2. t \in Positions /\ t.state = "filled" /\ (plan.signalTarget => t.target = trap.price)
      BY <1>1, OrderTyped, FillTyped
    <3> HIDE DEF t
    <3> QED
      BY <1>1, <1>2, <3>1, <3>2, ManageKeeps
  <2> QED
    BY <2>1, <2>2
<1>3. CASE ~(Signals(b) /\ n = trap.number) /\ trade[n].state = "ordered"
  <2> DEFINE t == Fill(trade[n], b.open, fate[n] # "none")
  <2>1. Position(n, b) = Manage(t, b)
    BY <1>3 DEF Position
  <2>2. /\ t \in Positions /\ t.state = "filled" /\ t.target = trade[n].target
        /\ t.late = (fate[n] # "none")
    BY <1>1, FillTyped
  <2> HIDE DEF t
  <2>3. /\ Position(n, b) \in Positions /\ Position(n, b).state = "filled"
        /\ Position(n, b).target = trade[n].target /\ Position(n, b).late = (fate[n] # "none")
        /\ b.high >= trade[n].target => Position(n, b).left = 0
    BY <1>1, <2>1, <2>2, ManageKeeps
  <2> QED
    BY <1>3, <2>3
<1>4. CASE ~(Signals(b) /\ n = trap.number) /\ trade[n].state # "ordered" /\ trade[n].left > 0
  <2>1. Position(n, b) = Manage(trade[n], b)
    BY <1>4 DEF Position
  <2>2. trade[n].left # 0
    BY <1>4
  <2> QED
    BY <1>1, <1>4, <2>1, <2>2, ManageKeeps
<1>5. CASE ~(Signals(b) /\ n = trap.number) /\ trade[n].state # "ordered" /\ ~(trade[n].left > 0)
  <2>1. Position(n, b) = trade[n]
    BY <1>5 DEF Position
  <2>2. trade[n].left = 0
    BY <1>1, <1>5 DEF Positions, Quarters
  <2> QED
    BY <1>1, <1>5, <2>1, <2>2
<1> QED
  BY <1>2, <1>3, <1>4, <1>5

(* The invariant holds before the first bar.                               *)
LEMMA TrapInitOK == TrapInit => TrapInv
<1> SUFFICES ASSUME TrapInit PROVE TrapInv
  OBVIOUS
<1>1. NoTrade \in Positions /\ NoTrade.left = 0 /\ NoTrade.state = "none"
  BY DEF NoTrade, Positions, Quarters
<1>2. trade = [n \in 1..Cycles |-> NoTrade] /\ fate = [n \in 1..Cycles |-> "none"]
  BY DEF TrapInit
<1>3. trade \in [1..Cycles -> Positions] /\ fate \in [1..Cycles -> {"none", "completed", "failed"}]
  BY <1>1, <1>2
<1>a. trap = [number |-> 0, price |-> 0, lowest |-> 0] /\ 0 \in 0..Cycles
  BY TrapAssumption DEF TrapInit
<1>b. ended \in BOOLEAN /\ progress = "idle" /\ plan \in TrapPlans /\ before \in [low : BOOLEAN, side : -1..1]
  BY Zenon DEF TrapInit
<1>4. /\ trap \in Traps /\ trap.number = 0 /\ progress = "idle" /\ ended \in BOOLEAN
      /\ plan \in TrapPlans /\ before \in [low : BOOLEAN, side : -1..1]
  BY <1>a, <1>b DEF Traps
<1>5. TrapTypeOK
  BY <1>1, <1>2, <1>4, TrapAssumption DEF TrapTypeOK, Quarters
<1>6. CompletionCloses /\ ActiveOK
  BY <1>2, <1>4 DEF CompletionCloses, ActiveOK, InTrade
<1> QED
  BY <1>1, <1>2, <1>3, <1>4, <1>5, <1>6 DEF TrapInv

(* A bar, whatever it does to the active cycle, keeps the invariant.       *)
LEMMA TrapBarStep ==
  ASSUME TrapInv, NEW b \in TrapBars, OnTrapBar(b)
  PROVE  TrapInv'
<1> DEFINE N == trap.number
<1>1. /\ progress \in Phases /\ trap \in Traps /\ N \in 0..Cycles /\ Cycles \in Nat
      /\ progress # "idle" => N \in 1..Cycles /\ fate[N] = "none"
      /\ fate \in [1..Cycles -> {"none", "completed", "failed"}]
  BY TrapAssumption DEF TrapInv, TrapTypeOK, ActiveOK, Phases, Traps
<1>2. /\ Confirmed(b) \in Phases
      /\ progress \in InTrade => Confirmed(b) \in InTrade
      /\ progress = "idle" => Confirmed(b) = "idle"
  BY <1>1, ConfirmedIs
<1>3. /\ trade' = [n \in 1..Cycles |-> Position(n, b)]
      /\ fate' = IF Fate(b) = "none" THEN fate ELSE [fate EXCEPT ![N] = Fate(b)]
      /\ plan' = plan /\ ended' = ended
  BY DEF OnTrapBar
<1>4. Fate(b) \in {"none", "completed", "failed"} /\ (Fate(b) # "none" => progress # "idle")
  BY DEF Fate, Completes, BreaksDown, Invalidates, Advances
<1>5. /\ Fate(b) = "none" => ~Invalidates(b)
      /\ Fate(b) = "completed" => Completes(b)
  BY DEF Fate
<1>6. \A n \in 1..Cycles : fate'[n] = IF n = N THEN IF Fate(b) = "none" THEN fate[n] ELSE Fate(b) ELSE fate[n]
  BY <1>1, <1>3
<1>7. fate' \in [1..Cycles -> {"none", "completed", "failed"}]
  BY <1>1, <1>3, <1>4
<1>8. trade' \in [1..Cycles -> Positions]
  BY <1>3, PositionIs
<1>9. \A n \in 1..Cycles : trade'[n].state = "ordered" => trade'[n].left = 0
  BY <1>3, PositionIs
<1>10. /\ trap' \in Traps
       /\ Springs(b) => progress = "idle" /\ N < Cycles /\ trap'.number = N + 1 /\ progress' = "trapped"
       /\ ~Springs(b) => /\ trap'.number = N /\ trap'.price = trap.price
                         /\ progress' = IF Fate(b) # "none" THEN "idle" ELSE Confirmed(b)
  <2>1. Lowest(b) \in Int /\ b.close \in Int /\ b.low \in Int
    BY <1>1, BarTyped DEF Lowest, Traps
  <2>2. CASE Springs(b)
    <3>1. progress = "idle" /\ N < Cycles /\ progress' = "trapped"
          /\ trap' = [number |-> N + 1, price |-> b.close, lowest |-> b.low]
      BY <2>2 DEF Springs, OnTrapBar
    <3> QED
      BY <1>1, <2>1, <2>2, <3>1 DEF Traps
  <2>3. CASE ~Springs(b) /\ progress = "idle"
    <3>1. trap' = trap /\ progress' = IF Fate(b) # "none" THEN "idle" ELSE Confirmed(b)
      BY <2>3 DEF OnTrapBar
    <3> QED
      BY <1>1, <2>3, <3>1
  <2>4. CASE ~Springs(b) /\ progress # "idle"
    <3>1. trap' = [trap EXCEPT !.lowest = Lowest(b)] /\ progress' = IF Fate(b) # "none" THEN "idle" ELSE Confirmed(b)
      BY <2>4 DEF OnTrapBar
    <3>2. trap' \in Traps /\ trap'.number = trap.number /\ trap'.price = trap.price
      BY <1>1, <2>1, <3>1 DEF Traps
    <3> QED
      BY <2>4, <3>1, <3>2
  <2> QED
    BY <2>2, <2>3, <2>4
<1>11. progress' \in Phases /\ (progress' # "idle" => trap'.number > 0)
  <2>1. "trapped" \in Phases /\ "idle" \in Phases
    BY DEF Phases
  <2>2. trap'.number \in 0..Cycles
    BY <1>10 DEF Traps
  <2>3. CASE Springs(b)
    BY <1>1, <1>10, <2>1, <2>3
  <2>4. CASE ~Springs(b)
    BY <1>1, <1>2, <1>4, <1>10, <2>1, <2>4
  <2> QED
    BY <2>3, <2>4
<1>12. TrapTypeOK'
  <2>1. before' \in [low : BOOLEAN, side : -1..1]
    <3>1. before' = [low |-> b.zone # "trap", side |-> b.side]
      BY DEF OnTrapBar
    <3> QED
      BY <3>1, BarTyped
  <2>2. plan' \in TrapPlans /\ ended' \in BOOLEAN
    BY <1>3 DEF TrapInv, TrapTypeOK
  <2>3. \A n \in 1..Cycles : /\ trade'[n].left \in 0..Quarters /\ trade'[n].state \in {"none", "ordered", "filled"}
                             /\ fate'[n] \in {"none", "completed", "failed"}
    BY <1>7, <1>8 DEF Positions
  <2>4. trap'.number \in 0..Cycles
    BY <1>10 DEF Traps
  <2> QED
    BY <1>11, <2>1, <2>2, <2>3, <2>4 DEF TrapTypeOK, Phases
<1>13. CompletionCloses'
  <2> SUFFICES ASSUME plan.signalTarget, NEW n \in 1..Cycles, fate'[n] = "completed"
               PROVE  trade'[n].left = 0 \/ trade'[n].late
    BY <1>3 DEF CompletionCloses
  <2>1. trade'[n] = Position(n, b)
    BY <1>3
  <2>2. CASE fate[n] = "completed"
    <3>1. trade[n].left = 0 \/ trade[n].late
      BY <2>2 DEF TrapInv, CompletionCloses
    <3>2. ~Signals(b) \/ n # N
      BY <1>1, <2>2 DEF Signals, Advances
    <3> QED
      BY <2>1, <2>2, <3>1, <3>2, PositionIs
  <2>3. CASE n = N /\ Fate(b) = "completed"
    <3>1. Advances(b) /\ Confirmed(b) \in InTrade /\ b.high >= trap.price
      BY <1>5, <2>3 DEF Completes
    <3>2. CASE Signals(b)
      BY <2>1, <2>3, <3>1, <3>2, PositionIs
    <3>3. CASE ~Signals(b)
      <4>1. progress \in InTrade
        BY <3>1, <3>3 DEF Signals
      <4>2. trade[n].target = trap.price
        BY <2>3, <4>1 DEF TrapInv, ActiveOK
      <4> QED
        BY <2>1, <3>1, <3>3, <4>2, PositionIs
    <3> QED
      BY <3>2, <3>3
  <2> QED
    BY <1>6, <2>2, <2>3
<1>14. ActiveOK'
  <2>1. CASE Springs(b)
    <3>1. N + 1 \in 1..Cycles /\ fate[N + 1] = "none" /\ N + 1 # N
      BY <1>1, <1>10, <2>1 DEF TrapInv
    <3> QED
      BY <1>6, <1>10, <2>1, <3>1 DEF ActiveOK, InTrade
  <2>2. CASE ~Springs(b) /\ progress' # "idle"
    <3>1. Fate(b) = "none" /\ progress' = Confirmed(b) /\ progress # "idle" /\ trap'.number = N
          /\ trap'.price = trap.price /\ N \in 1..Cycles
      BY <1>1, <1>2, <1>10, <2>2
    <3>2. fate'[trap'.number] = "none"
      BY <1>1, <1>6, <3>1
    <3>3. ASSUME progress' \in InTrade
          PROVE  /\ trade'[N].state # "none"
                 /\ plan.signalTarget => trade'[N].target = trap.price
      <4>1. Advances(b) /\ Confirmed(b) \in InTrade /\ trade'[N] = Position(N, b)
        BY <1>3, <1>5, <3>1, <3>3 DEF Advances
      <4>2. CASE Signals(b)
        BY <3>1, <4>1, <4>2, PositionIs
      <4>3. CASE ~Signals(b)
        <5>1. progress \in InTrade
          BY <4>1, <4>3 DEF Signals
        <5>2. trade[N].state # "none" /\ (plan.signalTarget => trade[N].target = trap.price)
          BY <5>1 DEF TrapInv, ActiveOK
        <5> QED
          BY <3>1, <4>1, <4>3, <5>2, PositionIs
      <4> QED
        BY <4>2, <4>3
    <3> QED
      BY <1>3, <3>1, <3>2, <3>3 DEF ActiveOK
  <2>3. CASE progress' = "idle"
    BY <2>3 DEF ActiveOK, InTrade
  <2> QED
    BY <2>1, <2>2, <2>3
<1>15. \A n \in 1..Cycles : n > trap'.number => fate'[n] = "none"
  <2> SUFFICES ASSUME NEW n \in 1..Cycles, n > trap'.number PROVE fate'[n] = "none"
    OBVIOUS
  <2>1. n > N
    BY <1>1, <1>10 DEF Traps
  <2> QED
    BY <1>1, <1>6, <2>1 DEF TrapInv
<1> QED
  BY <1>7, <1>8, <1>9, <1>10, <1>12, <1>13, <1>14, <1>15 DEF TrapInv

(* So does the end of the range.                                           *)
LEMMA TrapStep == TrapInv /\ [TrapNext]_trapVars => TrapInv'
<1> SUFFICES ASSUME TrapInv, [TrapNext]_trapVars PROVE TrapInv'
  OBVIOUS
<1>1. CASE \E b \in TrapBars : OnTrapBar(b)
  BY <1>1, TrapBarStep
<1>2. CASE EndOfRange
  <2>1. UNCHANGED <<plan, before, progress, trap, fate>> /\ ended' = TRUE
    BY <1>2 DEF EndOfRange
  <2>2. trade \in [1..Cycles -> Positions] /\ 0 \in 0..Quarters
    BY DEF TrapInv, Quarters
  <2>3. CASE trade' = trade
    BY <2>1, <2>3 DEF TrapInv, TrapTypeOK, CompletionCloses, ActiveOK
  <2>4. CASE trade' = [n \in 1..Cycles |-> [trade[n] EXCEPT !.left = 0]]
    <3>1. ASSUME NEW n \in 1..Cycles
          PROVE  /\ trade'[n] \in Positions /\ trade'[n].left = 0
                 /\ trade'[n].state = trade[n].state /\ trade'[n].target = trade[n].target
      <4>1. trade'[n] = [trade[n] EXCEPT !.left = 0] /\ trade[n] \in Positions
        BY <2>2, <2>4
      <4> QED
        BY <2>2, <4>1 DEF Positions
    <3>2. trade' \in [1..Cycles -> Positions]
      BY <2>4, <3>1
    <3>3. progress # "idle" => trap.number \in 1..Cycles
      BY DEF TrapInv, TrapTypeOK
    <3>4. TrapTypeOK'
      BY <2>1, <2>2, <3>1 DEF TrapInv, TrapTypeOK, Positions
    <3>5. CompletionCloses'
      BY <2>1, <3>1 DEF CompletionCloses
    <3>6. ActiveOK'
      BY <2>1, <3>1, <3>3 DEF TrapInv, ActiveOK, InTrade
    <3> QED
      BY <2>1, <3>1, <3>2, <3>4, <3>5, <3>6 DEF TrapInv
  <2> QED
    BY <1>2, <2>3, <2>4 DEF EndOfRange
<1>3. CASE UNCHANGED trapVars
  BY <1>3 DEF trapVars, TrapInv, TrapTypeOK, CompletionCloses, ActiveOK
<1> QED
  BY <1>1, <1>2, <1>3 DEF TrapNext

(* onBar reports a cycle complete when price is back at the trap, and      *)
(* finalize, in a pass of its own, has closed the position of its signal   *)
(* by then, unless it was filled later: for any bars, plans and cycles.    *)
THEOREM CompletedIsClosed == TrapSpec => []CompletionCloses
<1>1. TrapInv => CompletionCloses
  BY DEF TrapInv
<1> QED
  BY <1>1, TrapInitOK, TrapStep, PTL DEF TrapSpec

(***************************************************************************)
(* Exits of a trade. The next bar may be worth less than the stop only if  *)
(* the stop were loosened, or were above a target that is still to be met. *)
(***************************************************************************)
(* A bound no stop of an open trade reaches: its target, and the partial   *)
(* target while a partial exit is still to come.                           *)
Bounded(x) == stop < x /\ (bar > 0 => lows[Lookback] < x)

(* The trade has what its stop had secured, should it be hit now.  Without *)
(* break-even the stop is the initial one, or the profile has no such rule.*)
ExitInv ==
  /\ TradeTypeOK
  /\ outcome = "open" =>
       /\ left > 0
       /\ Ordered(profile) =>
            /\ realized + left * stop >= locked
            /\ ~armed /\ profile.breakEven # Never => stop = -1
            /\ Bounded(profile.target)
            /\ ~partial /\ profile.fraction > 0 => Bounded(profile.partial)
  /\ LockedProfit

(* The rules of a profile are numbers.                                     *)
LEMMA ProfileTyped ==
  ASSUME NEW p \in Profiles
  PROVE  /\ p.target \in Nat \ {0} /\ p.breakEven \in Nat \ {0} /\ p.partial \in Nat \ {0}
         /\ p.fraction \in 0..Whole /\ p.bars \in Nat \ {0}
         /\ p.swing \in BOOLEAN /\ p.nyClose \in BOOLEAN
         /\ \A s \in p.stages : s[1] \in Nat /\ s[2] \in Int
<1>1. ProfileShape(p)
  BY TradeAssumption
<1> QED
  BY <1>1 DEF ProfileShape

(* At the entry the stop is the initial one and nothing is secured.        *)
LEMMA ExitInitOK == TradeInit => ExitInv
<1> SUFFICES ASSUME TradeInit PROVE ExitInv
  OBVIOUS
<1>1. /\ profile \in Profiles /\ profile.target \in Nat \ {0} /\ profile.partial \in Nat \ {0}
      /\ profile.bars \in Nat \ {0}
  BY ProfileTyped DEF TradeInit
<1>2. PICK length \in 1..MaxBars : lastBar = Lower(length, profile.bars)
  BY DEF TradeInit
<1>3. lastBar \in 1..MaxBars
  BY <1>1, <1>2, TradeAssumption DEF Lower
<1>4. /\ bar = 0 /\ stop = -1 /\ left = 2 /\ staged = {} /\ lows \in [1..Lookback -> Prices]
      /\ realized = 0 /\ outcome = "open" /\ locked = -2
  BY DEF TradeInit, Whole
<1>5. armed \in BOOLEAN /\ partial \in BOOLEAN /\ trailing \in BOOLEAN
  BY Zenon DEF TradeInit
<1>6. TradeTypeOK
  BY <1>1, <1>3, <1>4, <1>5 DEF TradeTypeOK, Whole
<1> QED
  BY <1>1, <1>4, <1>6 DEF ExitInv, Bounded, LockedProfit, Reasons

(* The next stop is no looser than the one it starts from, and below every *)
(* price that neither a bar in the trade nor a stage that is hit reaches.  *)
LEMMA NextStopIs ==
  ASSUME TradeTypeOK, NEW high \in Prices, NEW next, IsNextStop(high, next)
  PROVE  LET base == IF Arms(high) THEN 0 ELSE stop
         IN  /\ next \in Int /\ next >= base
             /\ StagesHit(high) = {} /\ ~Arms(high) /\ ~armed => next = stop
             /\ \A x \in Int : /\ base < x /\ (\A s \in StagesHit(high) : s[2] < x)
                               /\ (bar > 0 => lows[Lookback] < x)
                               => next < x
<1> DEFINE base == IF Arms(high) THEN 0 ELSE stop
           staging == {base} \cup {s[2] : s \in StagesHit(high)}
<1>1. /\ base \in Int /\ base \in staging
      /\ \A s \in StagesHit(high) : s[2] \in Int /\ s[2] \in staging
      /\ \A a \in staging : a = base \/ \E s \in StagesHit(high) : a = s[2]
  BY ProfileTyped DEF TradeTypeOK, StagesHit
<1>a. Lookback \in Nat \ {0} /\ Prices \subseteq Int
  BY TradeAssumption
<1>b. lows \in [1..Lookback -> Prices]
  BY DEF TradeTypeOK
<1>c. Lookback \in 1..Lookback
  BY <1>a
<1>d. \A i \in 1..Lookback : lows[i] \in Prices
  BY <1>b
<1>2. Lookback \in 1..Lookback /\ \A i \in 1..Lookback : lows[i] \in Int
  BY <1>a, <1>c, <1>d
<1>3. PICK at \in staging :
        /\ \A other \in staging : other <= at
        /\ IF profile.swing /\ (armed \/ Arms(high)) /\ bar > 0
           THEN \E i \in 1..Lookback :
                  /\ \A j \in 1..Lookback : lows[i] <= lows[j]
                  /\ next = SwingStop(at, lows[i])
           ELSE next = at
  BY DEF IsNextStop
<1>4. base \in Int
  BY <1>1
<1> HIDE DEF base
<1>5. /\ at \in Int /\ at >= base
      /\ StagesHit(high) = {} => at = base
      /\ \A x \in Int : base < x /\ (\A s \in StagesHit(high) : s[2] < x) => at < x
  BY <1>1, <1>3
<1>6. CASE profile.swing /\ (armed \/ Arms(high)) /\ bar > 0
  <2>1. PICK i \in 1..Lookback :
          /\ \A j \in 1..Lookback : lows[i] <= lows[j]
          /\ next = SwingStop(at, lows[i])
    BY <1>3, <1>6
  <2>2. next = (IF at >= lows[i] THEN at ELSE lows[i]) /\ lows[i] \in Int
        /\ lows[i] <= lows[Lookback] /\ lows[Lookback] \in Int
    BY <1>2, <2>1 DEF SwingStop, Higher
  <2> HIDE DEF staging
  <2>3. next \in Int /\ next >= base
    BY <1>4, <1>5, <2>2
  <2>4. ASSUME NEW x \in Int, base < x, \A s \in StagesHit(high) : s[2] < x, bar > 0 => lows[Lookback] < x
        PROVE  next < x
    <3>1. at < x /\ lows[Lookback] < x
      BY <1>5, <1>6, <2>4
    <3> QED
      BY <1>5, <2>2, <3>1
  <2> QED
    BY <1>6, <2>3, <2>4 DEF base
<1>7. CASE ~(profile.swing /\ (armed \/ Arms(high)) /\ bar > 0)
  <2>1. next = at
    BY <1>3, <1>7
  <2> HIDE DEF staging
  <2>2. next \in Int /\ next >= base
    BY <1>5, <2>1
  <2>3. StagesHit(high) = {} /\ ~Arms(high) /\ ~armed => next = stop
    BY <1>5, <2>1 DEF base
  <2>4. \A x \in Int : base < x /\ (\A s \in StagesHit(high) : s[2] < x) => next < x
    BY <1>5, <2>1
  <2> QED
    BY <2>2, <2>3, <2>4 DEF base
<1> QED
  BY <1>6, <1>7

(* What is taken at the partial target.                                    *)
LEMMA TakenIs ==
  ASSUME TradeTypeOK, NEW high \in Prices
  PROVE  /\ Taken(high) \in 0..left /\ left - Taken(high) \in 0..left
         /\ Taken(high) > 0 => ~partial /\ high >= profile.partial /\ profile.fraction > 0
         /\ Taken(high) = 0 /\ left > 0 /\ ~partial /\ profile.fraction > 0 => high < profile.partial
<1>1. /\ left \in 0..2 /\ profile.fraction \in 0..2 /\ profile.partial \in Nat /\ high \in Int
  BY ProfileTyped, TradeAssumption DEF TradeTypeOK, Whole
<1> QED
  BY <1>1 DEF Taken, Lower

(* Money: a partial exit, and the rest at any price that is not below the  *)
(* stop, bring at least what the stop would have.                          *)
LEMMA Worth ==
  ASSUME NEW l \in 0..2, NEW cut \in 0..l, NEW s \in Int, NEW part \in Int, NEW price \in Int,
         NEW r \in Int, NEW k \in Int, r + l * s >= k, cut > 0 => part > s, l - cut > 0 => price >= s
  PROVE  /\ r + cut * part + (l - cut) * price >= k
         /\ r + cut * part \in Int /\ r + cut * part + (l - cut) * price \in Int
<1>1. CASE cut = 0 /\ l = 0
  BY <1>1
<1>2. CASE cut = 0 /\ l = 1
  BY <1>2
<1>3. CASE cut = 0 /\ l = 2
  BY <1>3
<1>4. CASE cut = 1 /\ l = 1
  BY <1>4
<1>5. CASE cut = 1 /\ l = 2
  BY <1>5
<1>6. CASE cut = 2 /\ l = 2
  BY <1>6
<1> QED
  BY <1>1, <1>2, <1>3, <1>4, <1>5, <1>6

(* A bar that hits the stop.                                               *)
LEMMA StopHitStep ==
  ASSUME ExitInv, ManageBar, StopHit, lows' \in [1..Lookback -> Prices]
  PROVE  ExitInv'
<1>1. /\ outcome = "open" /\ bar < lastBar /\ bar' = bar + 1 /\ profile' = profile /\ lastBar' = lastBar
      /\ TradeTypeOK
  BY DEF ManageBar, ExitInv
<1>2. /\ realized' = realized + left * stop /\ left' = 0 /\ outcome' \in Reasons
      /\ UNCHANGED <<stop, armed, partial, staged, trailing, locked>>
  BY DEF StopHit, Reasons
<1>3. left \in 0..2 /\ stop \in Int /\ realized \in Int /\ left * stop \in Int
  BY <1>1 DEF TradeTypeOK, Whole
<1>4. TradeTypeOK'
  <2>1. bar' \in 0..lastBar
    BY <1>1 DEF TradeTypeOK
  <2>2. realized' \in Int /\ left' \in 0..Whole
    BY <1>2, <1>3 DEF Whole
  <2> QED
    BY <1>1, <1>2, <2>1, <2>2 DEF TradeTypeOK
<1>5. Ordered(profile) => realized' >= locked'
  BY <1>1, <1>2 DEF ExitInv
<1> QED
  BY <1>1, <1>2, <1>4, <1>5 DEF ExitInv, LockedProfit, Reasons

(* A bar that does not: the stop of the bar before is what the trade could *)
(* have had, and neither the partial exit nor a close brings less.         *)
LEMMA CarryStep ==
  ASSUME ExitInv, ManageBar, lows' \in [1..Lookback -> Prices],
         NEW low \in Prices, NEW high \in Prices, NEW close \in Prices, NEW late \in BOOLEAN,
         low <= close, close <= high, ~(low <= stop), lows'[Lookback] = low,
         Carry(high, close, late)
  PROVE  ExitInv'
<1> DEFINE cut == Taken(high)
           rest == left - cut
           banked == realized + cut * profile.partial
           base == IF Arms(high) THEN 0 ELSE stop
           worth(price) == realized' = banked + rest * price /\ left' = 0 /\ outcome' \in Reasons /\ locked' = locked
<1>1. /\ outcome = "open" /\ bar < lastBar /\ bar' = bar + 1 /\ profile' = profile /\ lastBar' = lastBar
      /\ TradeTypeOK /\ left > 0
  BY DEF ManageBar, ExitInv
<1>2. /\ low \in Int /\ high \in Int /\ close \in Int /\ high < Never /\ Never \in Int
  BY TradeAssumption DEF Never
<1>3. /\ left \in 0..2 /\ stop \in Int /\ realized \in Int /\ locked \in Int
      /\ profile.target \in Nat \ {0} /\ profile.partial \in Nat \ {0} /\ profile.breakEven \in Nat \ {0}
      /\ profile.fraction \in 0..2
      /\ \A s \in profile.stages : s[1] \in Nat /\ s[2] \in Int
  BY <1>1, ProfileTyped DEF TradeTypeOK, Whole
<1>4. /\ cut \in 0..left /\ rest \in 0..left
      /\ cut > 0 => ~partial /\ high >= profile.partial /\ profile.fraction > 0
      /\ cut = 0 /\ left > 0 /\ ~partial /\ profile.fraction > 0 => high < profile.partial
  BY <1>1, TakenIs
<1>5. /\ IsNextStop(high, stop')
      /\ armed' = (armed \/ Arms(high))
      /\ partial' = (partial \/ cut > 0)
      /\ staged' = staged \cup StagesHit(high)
      /\ trailing' = (trailing \/ stop' # IF Arms(high) THEN 0 ELSE stop)
  BY DEF Carry
<1>6. \/ rest > 0 /\ high >= profile.target /\ worth(profile.target)
      \/ rest > 0 /\ ~(high >= profile.target) /\ worth(close)
      \/ /\ ~(rest > 0 /\ high >= profile.target)
         /\ realized' = banked /\ left' = rest
         /\ outcome' = IF rest = 0 THEN "dropped" ELSE "open"
         /\ locked' = Higher(locked, banked + rest * stop')
  BY DEF Carry, Reasons
<1>7. /\ stop' \in Int /\ stop' >= base
      /\ StagesHit(high) = {} /\ ~Arms(high) /\ ~armed => stop' = stop
      /\ \A x \in Int : /\ base < x /\ (\A s \in StagesHit(high) : s[2] < x)
                        /\ (bar > 0 => lows[Lookback] < x)
                        => stop' < x
  BY <1>1, <1>5, NextStopIs
<1> HIDE DEF cut, rest, banked, base
<1>r. rest = left - cut
  BY DEF rest
<1>p. cut * profile.partial \in Int /\ rest * profile.target \in Int /\ rest * close \in Int /\ rest * stop' \in Int
  BY <1>2, <1>3, <1>4, <1>7
<1>b. banked \in Int
  BY <1>3, <1>p DEF banked
<1>s. banked + rest * stop' \in Int /\ banked + rest * close \in Int /\ banked + rest * profile.target \in Int
  BY <1>b, <1>p
<1>8. realized' \in Int /\ locked' \in Int /\ left' \in 0..2
  <2>1. rest \in 0..2 /\ 0 \in 0..2
    BY <1>3, <1>4
  <2>2. Higher(locked, banked + rest * stop') \in {locked, banked + rest * stop'}
    BY DEF Higher
  <2> QED
    BY <1>3, <1>6, <1>b, <1>s, <2>1, <2>2
<1>9. TradeTypeOK'
  <2>1. bar' \in 0..lastBar
    BY <1>1 DEF TradeTypeOK
  <2>2. outcome' \in Reasons \cup {"open", "dropped"}
    BY <1>6
  <2>3. armed' \in BOOLEAN /\ partial' \in BOOLEAN /\ trailing' \in BOOLEAN
    BY <1>5
  <2>4. staged' \subseteq profile.stages
    BY <1>1, <1>5 DEF TradeTypeOK, StagesHit
  <2> QED
    BY <1>1, <1>7, <1>8, <2>1, <2>2, <2>3, <2>4 DEF TradeTypeOK, Whole
<1>10. ASSUME Ordered(profile)
       PROVE  /\ outcome' \in Reasons => realized' >= locked'
              /\ outcome' = "open" =>
                   /\ left' > 0 /\ realized' + left' * stop' >= locked'
                   /\ ~armed' /\ profile.breakEven # Never => stop' = -1
                   /\ Bounded(profile.target)'
                   /\ ~partial' /\ profile.fraction > 0 => Bounded(profile.partial)'
  <2>1. /\ realized + left * stop >= locked
        /\ ~armed /\ profile.breakEven # Never => stop = -1
        /\ stop < profile.target /\ (bar > 0 => lows[Lookback] < profile.target)
        /\ ~partial /\ profile.fraction > 0 =>
             stop < profile.partial /\ (bar > 0 => lows[Lookback] < profile.partial)
    BY <1>1, <1>10 DEF ExitInv, Bounded
  <2>2. Arms(high) => stop = -1
    BY <1>2, <1>3, <2>1 DEF Arms
  <2>3. base \in Int /\ base >= stop /\ base < profile.target
        /\ (~partial /\ profile.fraction > 0 => base < profile.partial)
    BY <1>3, <2>1, <2>2 DEF base
  <2>4. stop' >= stop
    BY <1>3, <1>7, <2>3
  <2>5. cut > 0 => profile.partial > stop
    BY <1>4, <2>1
  <2>w. ASSUME NEW price \in Int, rest > 0 => price >= stop
        PROVE  banked + rest * price >= locked
    <3>1. realized + cut * profile.partial + (left - cut) * price >= locked
      <4>1. left - cut > 0 => price >= stop
        BY <1>r, <2>w
      <4>2. left \in 0..2 /\ cut \in 0..left /\ stop \in Int /\ profile.partial \in Int
            /\ realized \in Int /\ locked \in Int
        BY <1>3, <1>4
      <4> QED
        BY <2>1, <2>5, <2>w, <4>1, <4>2, Worth, Zenon
    <3> QED
      BY <3>1, <1>r DEF banked
  <2>6. \A s \in StagesHit(high) : s[2] \in Int /\ s[2] < high /\ s \in profile.stages
    <3> SUFFICES ASSUME NEW s \in StagesHit(high) PROVE s[2] \in Int /\ s[2] < high /\ s \in profile.stages
      OBVIOUS
    <3>1. s \in profile.stages /\ high >= s[1]
      BY DEF StagesHit
    <3>2. s[2] < s[1]
      BY <1>10, <3>1 DEF Ordered
    <3> QED
      BY <1>2, <1>3, <3>1, <3>2
  <2>7. ASSUME rest > 0, worth(profile.target)
        PROVE  realized' >= locked' /\ outcome' # "open"
    <3>1. realized' = banked + rest * profile.target /\ locked' = locked /\ outcome' \in Reasons
      BY <2>7
    <3>2. profile.target >= stop /\ profile.target \in Int
      BY <1>3, <2>1
    <3>3. banked + rest * profile.target >= locked
      BY <3>2, <2>w
    <3> QED
      BY <3>1, <3>3 DEF Reasons
  <2>8. ASSUME rest > 0, worth(close)
        PROVE  realized' >= locked' /\ outcome' # "open"
    <3>1. realized' = banked + rest * close /\ locked' = locked /\ outcome' \in Reasons
      BY <2>8
    <3>2. close >= stop
      BY <1>2, <1>3
    <3>3. banked + rest * close >= locked
      BY <1>2, <3>2, <2>w
    <3> QED
      BY <3>1, <3>3 DEF Reasons
  <2>9. ASSUME ~(rest > 0 /\ high >= profile.target),
               realized' = banked, left' = rest, outcome' = (IF rest = 0 THEN "dropped" ELSE "open"),
               locked' = Higher(locked, banked + rest * stop'), outcome' = "open"
        PROVE  /\ left' > 0 /\ realized' + left' * stop' >= locked'
               /\ ~armed' /\ profile.breakEven # Never => stop' = -1
               /\ Bounded(profile.target)'
               /\ ~partial' /\ profile.fraction > 0 => Bounded(profile.partial)'
    <3>1. rest > 0 /\ high < profile.target
      BY <1>2, <1>3, <1>4, <2>9
    <3>2. banked + rest * stop' >= locked
      BY <1>7, <2>4, <2>w
    <3>3. realized' + left' * stop' >= locked'
      BY <1>3, <1>b, <1>p, <2>9, <3>2 DEF Higher
    <3>4. ASSUME ~armed', profile.breakEven # Never PROVE stop' = -1
      <4>1. ~armed /\ ~Arms(high)
        BY <1>5, <3>4
      <4>2. high < profile.breakEven
        BY <1>2, <1>3, <4>1 DEF Arms
      <4>3. \A s \in profile.stages : profile.breakEven <= s[1]
        BY <1>10, <3>4 DEF Ordered
      <4>4. StagesHit(high) = {}
        BY <1>2, <1>3, <4>2, <4>3 DEF StagesHit
      <4> QED
        BY <1>7, <2>1, <3>4, <4>1, <4>4
    <3>5. ASSUME NEW x \in Int, high < x, base < x, bar > 0 => lows[Lookback] < x
          PROVE  stop' < x /\ lows'[Lookback] < x
      <4>1. \A s \in StagesHit(high) : s[2] < x
        BY <1>2, <2>6, <3>5
      <4>2. stop' < x
        BY <1>7, <3>5, <4>1
      <4> QED
        BY <1>2, <3>5, <4>2
    <3>6. Bounded(profile.target)'
      BY <1>1, <1>3, <2>1, <2>3, <3>1, <3>5 DEF Bounded
    <3>7. ASSUME ~partial', profile.fraction > 0 PROVE Bounded(profile.partial)'
      <4>a. ~partial /\ ~(cut > 0)
        BY <1>5, <3>7
      <4>1. ~partial /\ cut = 0
        BY <1>3, <1>4, <4>a
      <4>2. high < profile.partial
        BY <1>1, <1>4, <3>7, <4>1
      <4>3. base < profile.partial /\ (bar > 0 => lows[Lookback] < profile.partial)
        BY <2>1, <2>3, <3>7, <4>1
      <4>4. stop' < profile.partial /\ lows'[Lookback] < profile.partial
        BY <1>3, <3>5, <4>2, <4>3
      <4> QED
        BY <1>1, <4>4 DEF Bounded
    <3> QED
      BY <2>9, <3>1, <3>3, <3>4, <3>6, <3>7
  <2>10. outcome' = "open" => /\ left' > 0 /\ realized' + left' * stop' >= locked'
                              /\ ~armed' /\ profile.breakEven # Never => stop' = -1
                              /\ Bounded(profile.target)'
                              /\ ~partial' /\ profile.fraction > 0 => Bounded(profile.partial)'
    BY <1>6, <2>7, <2>8, <2>9
  <2>11. outcome' \in Reasons => realized' >= locked'
    BY <1>6, <2>7, <2>8 DEF Reasons
  <2> QED
    BY <2>10, <2>11
<1>11. outcome' = "open" => left' > 0
  BY <1>4, <1>6 DEF Reasons
<1> QED
  BY <1>1, <1>9, <1>10, <1>11 DEF ExitInv, LockedProfit

(* Every bar keeps the invariant, and so does the end of the data.         *)
LEMMA ExitStep == ExitInv /\ [TradeNext]_tradeVars => ExitInv'
<1> SUFFICES ASSUME ExitInv, [TradeNext]_tradeVars PROVE ExitInv'
  OBVIOUS
<1>1. CASE ManageBar
  <2>1. PICK low \in Prices, high \in Prices, close \in Prices, late \in BOOLEAN :
          /\ low <= close /\ close <= high
          /\ lows' = [i \in 1..Lookback |-> IF i < Lookback THEN lows[i + 1] ELSE low]
          /\ IF low <= stop THEN StopHit ELSE Carry(high, close, late)
    BY <1>1 DEF ManageBar
  <2>2. lows' \in [1..Lookback -> Prices] /\ lows'[Lookback] = low
    <3>1. lows \in [1..Lookback -> Prices] /\ Lookback \in Nat \ {0}
      BY TradeAssumption DEF ExitInv, TradeTypeOK
    <3> QED
      BY <2>1, <3>1
  <2>3. CASE low <= stop
    BY <1>1, <2>1, <2>2, <2>3, StopHitStep
  <2>4. CASE ~(low <= stop)
    BY <1>1, <2>1, <2>2, <2>4, CarryStep
  <2> QED
    BY <2>3, <2>4
<1>2. CASE EndOfData
  <2>1. /\ outcome' = "dropped"
        /\ UNCHANGED <<profile, lastBar, bar, stop, armed, partial, left, staged, trailing,
                       lows, realized, locked>>
    BY <1>2 DEF EndOfData
  <2> QED
    BY <2>1 DEF ExitInv, TradeTypeOK, LockedProfit, Reasons
<1>3. CASE UNCHANGED tradeVars
  BY <1>3 DEF tradeVars, ExitInv, TradeTypeOK, LockedProfit, Bounded
<1> QED
  BY <1>1, <1>2, <1>3 DEF TradeNext

(* What a stop had secured when a bar began is not given up: for every     *)
(* profile in order, all prices, and any number of bars.                   *)
THEOREM ProfitStaysLocked == TradeSpec => []LockedProfit
<1>1. ExitInv => LockedProfit
  BY DEF ExitInv
<1> QED
  BY <1>1, ExitInitOK, ExitStep, PTL DEF TradeSpec

(***************************************************************************)
(* Numbers.                                                                *)
(***************************************************************************)
(* The integer quotient.                                                   *)
LEMMA DivBounds ==
  ASSUME NEW a \in Int, NEW n \in Nat \ {0}
  PROVE  a \div n \in Int /\ n * (a \div n) <= a /\ a < n * (a \div n) + n
  OBVIOUS

(* It grows with its argument.                                             *)
LEMMA DivMono ==
  ASSUME NEW a \in Int, NEW b \in Int, NEW n \in Nat \ {0}, a <= b
  PROVE  a \div n <= b \div n
  OBVIOUS

(***************************************************************************)
(* Areas of signals. The model remembers the last area only, as the code   *)
(* does; the invariant says there is an assignment of all signals so far   *)
(* to the areas they were emitted in.                                      *)
(***************************************************************************)
(* Where each signal's area began: at the signal itself, or where the area *)
(* of the signal before it began.  A new area begins only beyond the reset *)
(* or beyond the distance from the anchor of the last one; no area emits   *)
(* more than the cap.                                                      *)
AreaStarts(start) ==
  LET count == Len(signals) IN
  /\ start \in [1..count -> 1..count]
  /\ \A i \in 1..count :
       /\ start[i] <= i /\ i - start[i] < cap
       /\ i > 1 /\ start[i] # start[i - 1] =>
            \/ signals[i].index - signals[i - 1].index > ResetBars
            \/ signals[i].price - signals[start[i - 1]].price > PriceDistance
            \/ signals[start[i - 1]].price - signals[i].price > PriceDistance
       /\ start[start[i]] = start[i]
  /\ count = 0 => area = NoArea
  /\ count > 0 => /\ area.anchor = signals[start[count]].price
                  /\ area.emitted = count - start[count] + 1
                  /\ signals[count].index <= area.last

MatchInv == MatchTypeOK /\ \E start \in [1..Len(signals) -> 1..Len(signals)] : AreaStarts(start)

(* The history of signals as a function.                                   *)
LEMMA SignalsAre ==
  ASSUME MatchTypeOK
  PROVE  /\ Len(signals) \in Nat /\ DOMAIN signals = 1..Len(signals)
         /\ \A i \in 1..Len(signals) : signals[i].index \in 1..index /\ signals[i].price \in SignalPrices
                                       /\ signals[i].index \in Int /\ signals[i].price \in Int
<1>1. signals \in Seq([index : 1..index, price : SignalPrices]) /\ index \in 0..Bars
  BY DEF MatchTypeOK
<1>2. \A i \in 1..Len(signals) : signals[i] \in [index : 1..index, price : SignalPrices]
  BY <1>1, ElementOfSeq
<1>3. SignalPrices \subseteq Int /\ Bars \in Nat
  BY MatchAssumption
<1> QED
  <2>1. Len(signals) \in Nat /\ DOMAIN signals = 1..Len(signals)
    BY <1>1, LenProperties
  <2>2. index \in Nat
    BY <1>1, <1>3
  <2>3. ASSUME NEW i \in 1..Len(signals)
        PROVE  /\ signals[i].index \in 1..index /\ signals[i].price \in SignalPrices
               /\ signals[i].index \in Int /\ signals[i].price \in Int
    <3>1. signals[i].index \in 1..index /\ signals[i].price \in SignalPrices
      BY <1>2
    <3>2. signals[i].index \in Int
      BY <2>2, <3>1
    <3> QED
      BY <1>3, <3>1, <3>2
  <2> QED
    BY <2>1, <2>3

(* Signals that lie together come from two areas at most, and the earlier  *)
(* of them began before the first of the signals.                          *)
LEMMA AreasBound ==
  ASSUME MatchTypeOK, NEW start, AreaStarts(start)
  PROVE  ClusterBound
<1> SUFFICES ASSUME NEW first \in DOMAIN signals, NEW last \in DOMAIN signals,
                    first <= last, Cluster(first, last)
             PROVE  last - first + 1 < 2 * cap
  BY DEF ClusterBound
<1> DEFINE count == Len(signals)
<1>1. count \in Nat /\ first \in 1..count /\ last \in 1..count
  BY SignalsAre
<1>2. cap \in Nat \ {0} /\ ResetBars \in Nat /\ PriceDistance \in Nat
  BY MatchAssumption DEF MatchTypeOK
<1>3. \A i \in 1..count : signals[i].index \in Int /\ signals[i].price \in Int
  BY SignalsAre
<1>4. /\ start \in [1..count -> 1..count]
      /\ \A i \in 1..count :
           /\ start[i] <= i /\ i - start[i] < cap
           /\ i > 1 /\ start[i] # start[i - 1] =>
                \/ signals[i].index - signals[i - 1].index > ResetBars
                \/ signals[i].price - signals[start[i - 1]].price > PriceDistance
                \/ signals[start[i - 1]].price - signals[i].price > PriceDistance
           /\ start[start[i]] = start[i]
  BY DEF AreaStarts
<1> HIDE DEF count
<1> DEFINE l == start[last]
<1>5. l \in 1..count /\ l <= last /\ last - l < cap /\ start[l] = l
  BY <1>1, <1>4
<1>6. CASE l <= first
  <2> HIDE DEF l
  <2> QED
    BY <1>1, <1>2, <1>5, <1>6
<1>7. CASE l > first
  <2> HIDE DEF l
  <2>1. l > 1 /\ l - 1 \in 1..count /\ l - 1 \in first..(last - 1) /\ l \in first..last
    BY <1>1, <1>5, <1>7
  <2> DEFINE k == start[l - 1]
  <2>2. k \in 1..count /\ k <= l - 1 /\ l - 1 - k < cap
    BY <1>4, <2>1
  <2>3. k # start[l]
    BY <1>1, <1>5, <2>2
  <2>4. \/ signals[l].index - signals[l - 1].index > ResetBars
        \/ signals[l].price - signals[k].price > PriceDistance
        \/ signals[k].price - signals[l].price > PriceDistance
    BY <1>4, <1>5, <2>1, <2>3
  <2> HIDE DEF k
  <2>5. signals[l].index - signals[l - 1].index <= ResetBars
    <3>1. \A i \in first..(last - 1) : signals[i + 1].index - signals[i].index <= ResetBars
      BY DEF Cluster
    <3>2. l - 1 + 1 = l
      BY <1>1, <1>5
    <3> QED
      BY <2>1, <3>1, <3>2
  <2>6. k < first
    <3> SUFFICES ASSUME k >= first PROVE FALSE
      BY <1>1, <2>2
    <3>1. k \in first..last
      BY <1>1, <1>5, <2>2
    <3>2. signals[l].price - signals[k].price <= PriceDistance /\ signals[k].price - signals[l].price <= PriceDistance
      BY <2>1, <3>1 DEF Cluster
    <3> QED
      BY <1>2, <1>3, <1>5, <2>1, <2>2, <2>4, <2>5, <3>2
  <2> QED
    BY <1>1, <1>2, <1>5, <2>2, <2>6
<1> QED
  BY <1>1, <1>5, <1>6, <1>7

(* The bars of a block's timeframe that a base bar is in.                  *)
LEMMA StrideTyped ==
  ASSUME NEW n \in 1..Bars, NEW s \in Nat \ {0}
  PROVE  (n - 1) \div s \in 0..Bars
<1>1. Bars \in Nat /\ n - 1 \in Nat /\ n - 1 <= Bars
  BY MatchAssumption
<1> DEFINE q == (n - 1) \div s
<1>2. q \in Int /\ s * q <= n - 1 /\ n - 1 < s * q + s
  BY <1>1, DivBounds
<1> HIDE DEF q
<1>3. q >= 0
  BY <1>1, <1>2
<1>4. q <= s * q
  BY <1>2, <1>3
<1>5. s * q \in Int
  BY <1>2
<1> QED
  BY <1>1, <1>2, <1>3, <1>4, <1>5 DEF q

(* There is no area before the first signal.                               *)
LEMMA MatchInitOK == MatchInit => MatchInv
<1> SUFFICES ASSUME MatchInit PROVE MatchInv
  OBVIOUS
<1>1. /\ mode \in Modes /\ cap \in Caps /\ index = 0 /\ window = Empty /\ area = NoArea
      /\ signature = NoSignature /\ signals = <<>>
  BY DEF MatchInit
<1>2. 0 \in 0..Bars /\ cap \in Nat /\ Blocks \in Nat
  BY <1>1, MatchAssumption
<1>3. window \in [Ids -> 0..index]
  BY <1>1 DEF Empty
<1>4. area \in [anchor : SignalPrices \cup {0}, last : 0..index, emitted : 0..cap]
  BY <1>1, <1>2 DEF NoArea
<1>5. MatchTypeOK
  BY <1>1, <1>2, <1>3, <1>4 DEF MatchTypeOK
<1>6. Len(signals) = 0 /\ <<>> \in [1..Len(signals) -> 1..Len(signals)]
  BY <1>1
<1>7. AreaStarts(<<>>)
  BY <1>1, <1>6 DEF AreaStarts
<1> QED
  BY <1>5, <1>6, <1>7 DEF MatchInv

(* What a signal is given for an area: the last one, or one of its own.    *)
LEMMA NextAreaTyped ==
  ASSUME MatchTypeOK, NEW n \in Nat, n = index + 1, NEW price \in SignalPrices
  PROVE  /\ NextArea(n, price) \in [anchor : SignalPrices \cup {0}, last : 0..n, emitted : 0..cap]
         /\ NextArea(n, price).last = n
         /\ SameArea(n, price) => /\ NextArea(n, price).anchor = area.anchor
                                  /\ NextArea(n, price).emitted = area.emitted
         /\ ~SameArea(n, price) => NextArea(n, price).anchor = price /\ NextArea(n, price).emitted = 0
<1>1. /\ area \in [anchor : SignalPrices \cup {0}, last : 0..index, emitted : 0..cap]
      /\ cap \in Nat /\ n \in 0..n /\ index \in Nat /\ 0 \in 0..cap
  BY MatchAssumption DEF MatchTypeOK
<1>2. CASE SameArea(n, price)
  <2>1. NextArea(n, price) = [area EXCEPT !.last = n]
    BY <1>2 DEF NextArea
  <2> QED
    BY <1>1, <1>2, <2>1
<1>3. CASE ~SameArea(n, price)
  <2>1. NextArea(n, price) = [anchor |-> price, last |-> n, emitted |-> 0]
    BY <1>3 DEF NextArea
  <2> QED
    BY <1>1, <1>3, <2>1
<1> QED
  BY <1>2, <1>3

(* Every bar keeps the areas: a signal prolongs the last or begins one.    *)
LEMMA MatchStep == MatchInv /\ [OnBar]_matchVars => MatchInv'
<1> SUFFICES ASSUME MatchInv, [OnBar]_matchVars PROVE MatchInv'
  OBVIOUS
<1>1. CASE UNCHANGED matchVars
  BY <1>1 DEF matchVars, MatchInv, MatchTypeOK, AreaStarts
<1>2. CASE OnBar
  <2> DEFINE n == index'
             count == Len(signals)
  <2>1. /\ MatchTypeOK /\ n = index + 1 /\ index \in Nat /\ n \in 1..Bars /\ Bars \in Nat
        /\ mode' = mode /\ cap' = cap /\ cap \in Nat \ {0} /\ Blocks \in Nat
    BY <1>2, MatchAssumption DEF OnBar, MatchInv, MatchTypeOK
  <2>2. PICK start \in [1..count -> 1..count] : AreaStarts(start)
    BY DEF MatchInv
  <2>3. PICK price \in SignalPrices, active \in SUBSET Ids :
          LET w == Observed(n, active) IN
          IF Matches(w) /\ signature # Signature(n, active)
          THEN Suppress(n, price) \/ Emit(n, price, active)
          ELSE window' = w /\ UNCHANGED <<area, signature, signals>>
    BY <1>2 DEF OnBar
  <2>4. count \in Nat /\ price \in Int /\ signals \in Seq([index : 1..index, price : SignalPrices])
    BY <2>1, MatchAssumption, SignalsAre DEF MatchTypeOK
  <2>e. Empty \in [Ids -> 0..n]
    BY <2>1 DEF Empty
  <2>w. Observed(n, active) \in [Ids -> 0..n]
    <3> SUFFICES ASSUME NEW b \in Ids
                 PROVE  (IF b \in active THEN n ELSE IF n - window[b] >= WindowBars THEN 0 ELSE window[b]) \in 0..n
      BY DEF Observed
    <3>1. window[b] \in 0..index
      BY <2>1 DEF MatchTypeOK
    <3> QED
      BY <2>1, <3>1
  <2>s. Signature(n, active) \in [Ids -> (0..Bars) \X BOOLEAN]
    <3> SUFFICES ASSUME NEW b \in Ids PROVE <<(n - 1) \div Stride[b], b \in active>> \in (0..Bars) \X BOOLEAN
      BY DEF Signature
    <3>1. Stride[b] \in Nat \ {0}
      BY MatchAssumption
    <3>2. (n - 1) \div Stride[b] \in 0..Bars
      BY <2>1, <3>1, StrideTyped
    <3>3. (b \in active) \in BOOLEAN
      OBVIOUS
    <3> HIDE DEF n
    <3> QED
      BY <3>2, <3>3
  <2>a. /\ NextArea(n, price) \in [anchor : SignalPrices \cup {0}, last : 0..n, emitted : 0..cap]
        /\ NextArea(n, price).last = n
        /\ SameArea(n, price) => /\ NextArea(n, price).anchor = area.anchor
                                 /\ NextArea(n, price).emitted = area.emitted
        /\ ~SameArea(n, price) => NextArea(n, price).anchor = price /\ NextArea(n, price).emitted = 0
    BY <2>1, NextAreaTyped
  <2>q. \A s : s \in 1..index => s \in 1..n
    BY <2>1
  <2>5. CASE window' = Observed(n, active) /\ UNCHANGED <<area, signature, signals>>
    <3>1. area' \in [anchor : SignalPrices \cup {0}, last : 0..n, emitted : 0..cap]
      BY <2>1, <2>5 DEF MatchTypeOK
    <3>2. signals' \in Seq([index : 1..n, price : SignalPrices])
      <4>1. [index : 1..index, price : SignalPrices] \subseteq [index : 1..n, price : SignalPrices]
        BY <2>q
      <4> QED
        BY <2>4, <2>5, <4>1, SeqMonotonic
    <3>3. MatchTypeOK'
      BY <2>1, <2>5, <2>w, <3>1, <3>2 DEF MatchTypeOK
    <3>4. AreaStarts(start)'
      BY <2>1, <2>2, <2>5 DEF AreaStarts
    <3> QED
      BY <2>2, <2>5, <3>3, <3>4 DEF MatchInv
  <2>6. CASE Suppress(n, price)
    <3>1. /\ NextArea(n, price).emitted >= cap /\ window' = Empty /\ area' = NextArea(n, price)
          /\ signature' = signature /\ signals' = signals
      BY <2>6 DEF Suppress
    <3>2. SameArea(n, price) /\ count > 0
      <4>1. SameArea(n, price)
        BY <2>1, <2>a, <3>1
      <4>2. area # NoArea
        BY <4>1 DEF SameArea
      <4> QED
        BY <2>2, <2>4, <4>1, <4>2 DEF AreaStarts
    <3>3. signals' \in Seq([index : 1..n, price : SignalPrices])
      <4>1. [index : 1..index, price : SignalPrices] \subseteq [index : 1..n, price : SignalPrices]
        BY <2>q
      <4> QED
        BY <2>4, <3>1, <4>1, SeqMonotonic
    <3>4. MatchTypeOK'
      BY <2>1, <2>a, <2>e, <3>1, <3>3 DEF MatchTypeOK
    <3>5. signals[count].index <= n
      <4>1. count \in 1..count /\ signals[count].index \in 1..index
        BY <2>1, <2>4, <3>2, SignalsAre
      <4> QED
        BY <2>1, <4>1
    <3>6. AreaStarts(start)'
      BY <2>1, <2>2, <2>a, <3>1, <3>2, <3>5 DEF AreaStarts
    <3> QED
      BY <2>2, <3>1, <3>4, <3>6 DEF MatchInv
  <2>7. CASE Emit(n, price, active)
    <3> DEFINE new == [index |-> n, price |-> price]
               more == count + 1
               same == SameArea(n, price)
               begun == [i \in 1..more |-> IF i <= count THEN start[i] ELSE IF same THEN start[count] ELSE more]
    <3>1. /\ NextArea(n, price).emitted < cap /\ window' = Empty
          /\ area' = [NextArea(n, price) EXCEPT !.emitted = @ + 1]
          /\ signature' = Signature(n, active) /\ signals' = Append(signals, new)
      BY <2>7 DEF Emit
    <3>2. /\ signals' \in Seq([index : 1..n, price : SignalPrices]) /\ Len(signals') = more
          /\ \A i \in 1..count : signals'[i] = signals[i]
          /\ signals'[more] = new
      <4>1. [index : 1..index, price : SignalPrices] \subseteq [index : 1..n, price : SignalPrices]
        BY <2>q
      <4>2. signals \in Seq([index : 1..n, price : SignalPrices])
        BY <2>4, <4>1, SeqMonotonic
      <4>3. new \in [index : 1..n, price : SignalPrices]
        BY <2>1
      <4> QED
        BY <3>1, <4>2, <4>3, AppendProperties
    <3> DEFINE emitted == NextArea(n, price).emitted + 1
    <3>3. /\ area' \in [anchor : SignalPrices \cup {0}, last : 0..n, emitted : 0..cap]
          /\ area'.anchor = NextArea(n, price).anchor /\ area'.last = n
          /\ area'.emitted = emitted
      <4>1. NextArea(n, price).emitted \in 0..cap
        BY <2>a
      <4>2. emitted \in 0..cap
        BY <2>1, <3>1, <4>1
      <4>3. area' = [NextArea(n, price) EXCEPT !.emitted = emitted]
        BY <3>1
      <4> HIDE DEF emitted
      <4> QED
        BY <2>a, <4>2, <4>3
    <3>4. MatchTypeOK'
      BY <2>1, <2>e, <2>s, <3>1, <3>2, <3>3 DEF MatchTypeOK
    <3>5. same => count > 0
      <4>1. same => area # NoArea
        BY DEF SameArea
      <4> QED
        BY <2>2, <2>4, <4>1 DEF AreaStarts
    <3> HIDE DEF same
    <3>6. begun \in [1..more -> 1..more]
      <4> SUFFICES ASSUME NEW i \in 1..more
                   PROVE  (IF i <= count THEN start[i] ELSE IF same THEN start[count] ELSE more) \in 1..more
        OBVIOUS
      <4>a. \A j \in 1..count : j \in 1..more
        BY <2>4
      <4>1. \A j \in 1..count : start[j] \in 1..more
        BY <2>2, <4>a
      <4> QED
        BY <2>4, <3>5, <4>1
    <3>f. PICK f \in [1..more -> 1..more] : f = begun
      BY <3>6
    <3>7. AreaStarts(f)'
      <4>1. \A i \in 1..count : f[i] = start[i] /\ start[i] \in 1..count
        <5>1. \A i \in 1..count : i \in 1..more /\ i <= count
          BY <2>4
        <5> QED
          BY <2>2, <3>f, <5>1
      <4>2. f[more] = IF same THEN start[count] ELSE more
        BY <2>4, <3>f
      <4>3. \A i \in 1..more : i \in 1..count \/ i = more
        BY <2>4
      <4>4. same => /\ f[more] = start[count] /\ start[count] \in 1..count
                    /\ count \in 1..count /\ f[count] = start[count]
        BY <2>4, <3>5, <4>1, <4>2
      <4> HIDE DEF begun
      <4>5. ASSUME same
            PROVE  /\ area.anchor = signals[start[count]].price
                   /\ area'.anchor = signals'[f[more]].price
                   /\ area'.emitted = more - f[more] + 1
                   /\ more - f[more] < cap
        <5>1. area.anchor = signals[start[count]].price /\ area.emitted = count - start[count] + 1
          BY <2>2, <3>5, <4>5 DEF AreaStarts
        <5>2. NextArea(n, price).anchor = area.anchor /\ NextArea(n, price).emitted = area.emitted
          BY <2>a, <4>5 DEF same
        <5>3. area.emitted < cap /\ area.emitted \in Int /\ start[count] \in Int
          BY <2>1, <2>4, <3>1, <4>4, <4>5, <5>2 DEF MatchTypeOK
        <5>4. signals'[f[more]] = signals[start[count]]
          BY <3>2, <4>4, <4>5
        <5>5. area'.anchor = signals'[f[more]].price
          BY <3>3, <5>1, <5>2, <5>4
        <5>6. area'.emitted = area.emitted + 1
          BY <3>3, <5>2
        <5>7. f[more] = start[count]
          BY <4>4, <4>5
        <5>8. area.emitted + 1 = count + 1 - start[count] + 1 /\ count + 1 - start[count] < cap
          <6>1. \A c, s, e, k \in Int : e = c - s + 1 /\ e < k => e + 1 = c + 1 - s + 1 /\ c + 1 - s < k
            OBVIOUS
          <6>2. count \in Int /\ cap \in Int
            BY <2>1, <2>4
          <6> QED
            BY <5>1, <5>3, <6>1, <6>2
        <5> QED
          BY <5>1, <5>5, <5>6, <5>7, <5>8
      <4>6. ASSUME ~same
            PROVE  /\ f[more] = more
                   /\ area'.anchor = signals'[f[more]].price
                   /\ area'.emitted = more - f[more] + 1
                   /\ more - f[more] < cap
        <5>1. f[more] = more /\ NextArea(n, price).anchor = price /\ NextArea(n, price).emitted = 0
          BY <2>a, <4>2, <4>6 DEF same
        <5> QED
          BY <2>1, <2>4, <3>2, <3>3, <5>1
      <4>7. ASSUME ~same, count > 0
            PROVE  \/ signals'[more].index - signals'[more - 1].index > ResetBars
                   \/ signals'[more].price - signals'[f[more - 1]].price > PriceDistance
                   \/ signals'[f[more - 1]].price - signals'[more].price > PriceDistance
        <5>1. /\ area.anchor = signals[start[count]].price /\ signals[count].index <= area.last
              /\ area.emitted = count - start[count] + 1
          BY <2>2, <4>7 DEF AreaStarts
        <5>2. count \in 1..count /\ more - 1 = count /\ start[count] \in 1..count /\ start[count] <= count
          BY <2>2, <2>4, <4>1, <4>7 DEF AreaStarts
        <5>3. area # NoArea
          BY <2>4, <5>1, <5>2 DEF NoArea
        <5>4. \/ ~(n - area.last <= ResetBars)
              \/ ~(price - area.anchor <= PriceDistance) \/ ~(area.anchor - price <= PriceDistance)
          BY <4>7, <5>3 DEF same, SameArea
        <5>5. /\ signals'[more - 1] = signals[count] /\ f[more - 1] = start[count]
              /\ signals'[start[count]] = signals[start[count]]
              /\ signals'[more].index = n /\ signals'[more].price = price
          BY <3>2, <4>1, <5>2
        <5>6. /\ signals[count].index \in Int /\ signals[start[count]].price \in Int /\ area.last \in Int
              /\ ResetBars \in Int /\ PriceDistance \in Int
          BY <2>1, <5>2, SignalsAre, MatchAssumption DEF MatchTypeOK
        <5>7. n - area.last <= n - signals[count].index
          BY <2>1, <5>1, <5>6
        <5>8. \/ n - signals[count].index > ResetBars
              \/ price - signals[start[count]].price > PriceDistance
              \/ signals[start[count]].price - price > PriceDistance
          <6>1. \A m, l, i, r \in Int : ~(m - l <= r) /\ m - l <= m - i => m - i > r
            OBVIOUS
          <6>2. \A p, a, d \in Int : /\ ~(p - a <= d) => p - a > d
                                    /\ ~(a - p <= d) => a - p > d
            OBVIOUS
          <6>3. n \in Int /\ price \in Int
            BY <2>1, <2>4
          <6>4. ~(n - area.last <= ResetBars) => n - signals[count].index > ResetBars
            BY <5>6, <5>7, <6>1, <6>3
          <6>5. /\ ~(price - area.anchor <= PriceDistance) => price - signals[start[count]].price > PriceDistance
                /\ ~(area.anchor - price <= PriceDistance) => signals[start[count]].price - price > PriceDistance
            BY <5>1, <5>6, <6>2, <6>3
          <6> QED
            BY <5>4, <6>4, <6>5
        <5> QED
          BY <5>5, <5>8
      <4>8. ASSUME NEW i \in 1..more
            PROVE  /\ f[i] <= i /\ i - f[i] < cap
                   /\ i > 1 /\ f[i] # f[i - 1] =>
                        \/ signals'[i].index - signals'[i - 1].index > ResetBars
                        \/ signals'[i].price - signals'[f[i - 1]].price > PriceDistance
                        \/ signals'[f[i - 1]].price - signals'[i].price > PriceDistance
                   /\ f[f[i]] = f[i]
        <5>1. CASE i \in 1..count
          <6>1. /\ start[i] <= i /\ i - start[i] < cap
                /\ i > 1 /\ start[i] # start[i - 1] =>
                     \/ signals[i].index - signals[i - 1].index > ResetBars
                     \/ signals[i].price - signals[start[i - 1]].price > PriceDistance
                     \/ signals[start[i - 1]].price - signals[i].price > PriceDistance
                /\ start[start[i]] = start[i]
            BY <2>2, <5>1 DEF AreaStarts
          <6>2. i > 1 => i - 1 \in 1..count
            BY <2>4, <5>1
          <6> QED
            BY <3>2, <4>1, <5>1, <6>1, <6>2
        <5>2. CASE i = more /\ same
          <6>1. i - 1 = count /\ f[i] = f[i - 1]
            BY <2>4, <4>4, <5>2
          <6>2. start[start[count]] = start[count] /\ f[start[count]] = start[start[count]] /\ start[count] <= count
            BY <2>2, <4>1, <4>4, <5>2 DEF AreaStarts
          <6> QED
            BY <2>4, <4>4, <4>5, <5>2, <6>1, <6>2
        <5>3. CASE i = more /\ ~same
          <6>1. i > 1 => count > 0
            BY <2>4, <5>3
          <6>2. i - f[i] < cap /\ f[i] <= i /\ f[f[i]] = f[i]
            <7>1. f[i] = i /\ i \in Int
              BY <2>4, <4>6, <5>3
            <7> QED
              BY <2>1, <7>1
          <6> QED
            BY <4>7, <5>3, <6>1, <6>2
        <5> QED
          BY <4>3, <5>1, <5>2, <5>3
      <4>9. /\ area'.anchor = signals'[f[more]].price
            /\ area'.emitted = more - f[more] + 1
            /\ signals'[more].index <= area'.last
        BY <2>1, <3>2, <3>3, <4>5, <4>6
      <4>10. more # 0
        BY <2>4
      <4> QED
        BY <2>1, <3>2, <3>f, <4>8, <4>9, <4>10 DEF AreaStarts
    <3> QED
      BY <3>2, <3>4, <3>f, <3>7 DEF MatchInv
  <2> QED
    BY <2>3, <2>5, <2>6, <2>7
<1> QED
  BY <1>1, <1>2

(* The code remembers one area, but a cluster never has as many signals as *)
(* twice the cap: for every mode, window, cap, distance and number of bars.*)
THEOREM ClustersAreBounded == MatchSpec => []ClusterBound
<1>1. MatchInv => ClusterBound
  BY AreasBound DEF MatchInv
<1> QED
  BY <1>1, MatchInitOK, MatchStep, PTL DEF MatchSpec

(***************************************************************************)
(* Sets of numbers: induction over the naturals, by the smallest of a set, *)
(* and with it what a recursive function computes: a sum over trades, a    *)
(* power, an average.                                                      *)
(***************************************************************************)
(* A set of numbers that is not empty has a smallest one.                  *)
LEMMA HasMin ==
  ASSUME NEW S \in SUBSET Nat, S # {}
  PROVE  \E n \in S : \A m \in S : n <= m
<1> DEFINE R == OpToRel(<, Nat)
<1>1. R = {ss \in Nat \X Nat : ss[1] < ss[2]}
  BY DEF OpToRel
<1>2. IsWellFoundedOn(R, Nat)
  BY NatLessThanWellFounded
<1> HIDE DEF R
<1>3. PICK n \in S : \A m \in S : <<m, n>> \notin R
  BY <1>2, WFMin
<1>4. \A m \in S : ~(m < n)
  BY <1>1, <1>3
<1> QED
  BY <1>4
(* One that is bounded has a greatest one.                                 *)
LEMMA HasMax ==
  ASSUME NEW N \in Nat, NEW S \in SUBSET (0..N), S # {}
  PROVE  \E n \in S : \A m \in S : m <= n
<1> DEFINE D == {N - x : x \in S}
<1>1. D \in SUBSET Nat /\ D # {}
  <2>1. \A x \in S : N - x \in Nat
    OBVIOUS
  <2> QED
    BY <2>1
<1>2. PICK d \in D : \A e \in D : d <= e
  BY <1>1, HasMin
<1>3. PICK n \in S : d = N - n
  OBVIOUS
<1>4. \A m \in S : N - m \in D
  OBVIOUS
<1>5. \A m \in S : N - n <= N - m
  BY <1>2, <1>3, <1>4
<1> QED
  BY <1>5

(* f computes from `a` with the steps of g.                                *)
Computes(f, n, a, g) ==
  /\ f \in [0..n -> Int]
  /\ f[0] = a
  /\ \A k \in 1..n : f[k] = g[<<k, f[k - 1]>>]

(* What the steps of g compute exists.                                     *)
LEMMA ComputesExists ==
  ASSUME NEW N \in Nat, NEW a \in Int, NEW g \in [(1..N) \X Int -> Int]
  PROVE  \E f : Computes(f, N, a, g)
<1> DEFINE Bad == {n \in 0..N : ~\E f : Computes(f, n, a, g)}
<1> SUFFICES ASSUME Bad # {} PROVE FALSE
  BY N \in 0..N
<1>1. PICK n \in Bad : \A m \in Bad : n <= m
  <2> HIDE DEF Bad
  <2> QED BY HasMin, Bad \in SUBSET Nat DEF Bad
<1>2. n \in 0..N /\ ~\E f : Computes(f, n, a, g)
  OBVIOUS
<1>3. CASE n = 0
  <2>1. Computes([i \in 0..0 |-> a], 0, a, g)
    BY DEF Computes
  <2> QED
    BY <1>2, <1>3, <2>1
<1>4. CASE n # 0
  <2>1. n - 1 \in 0..N /\ n - 1 \notin Bad /\ n \in 1..N
    BY <1>1, <1>2, <1>4
  <2>2. PICK f : Computes(f, n - 1, a, g)
    BY <2>1
  <2> DEFINE h == [i \in 0..n |-> IF i = n THEN g[<<n, f[n - 1]>>] ELSE f[i]]
  <2>3. f \in [0..(n - 1) -> Int] /\ f[0] = a /\ \A k \in 1..(n - 1) : f[k] = g[<<k, f[k - 1]>>]
    BY <2>2 DEF Computes
  <2>4. f[n - 1] \in Int /\ <<n, f[n - 1]>> \in (1..N) \X Int
    BY <2>1, <2>3
  <2>5. g[<<n, f[n - 1]>>] \in Int
    BY <2>4
  <2>6. \A i \in 0..(n - 1) : h[i] = f[i] /\ h[i] \in Int
    BY <2>1, <2>3
  <2>7. h[n] = g[<<n, f[n - 1]>>]
    BY <2>1
  <2>8. h \in [0..n -> Int]
    BY <2>1, <2>3, <2>5
  <2> HIDE DEF h
  <2>9. \A k \in 1..n : h[k] = g[<<k, h[k - 1]>>]
    <3> SUFFICES ASSUME NEW k \in 1..n PROVE h[k] = g[<<k, h[k - 1]>>]
      OBVIOUS
    <3>1. k - 1 \in 0..(n - 1) /\ h[k - 1] = f[k - 1]
      BY <2>1, <2>6
    <3>2. CASE k = n
      BY <2>7, <3>1, <3>2
    <3>3. CASE k # n
      <4>1. k \in 1..(n - 1) /\ k \in 0..(n - 1)
        BY <2>1, <3>3
      <4> QED
        BY <2>3, <2>6, <3>1, <4>1
    <3> QED
      BY <3>2, <3>3
  <2>10. Computes(h, n, a, g)
    BY <2>1, <2>3, <2>6, <2>8, <2>9 DEF Computes
  <2> QED
    BY <1>2, <2>10
<1> QED
  BY <1>3, <1>4

(* f and h start alike and take the same steps.                            *)
Alike(f, h, n) ==
  f[0] = h[0] /\ \A k \in 1..n : f[k - 1] = h[k - 1] => f[k] = h[k]

(* Then they agree.                                                        *)
LEMMA AlikeAgree ==
  ASSUME NEW M \in Nat, NEW f, NEW h, Alike(f, h, M)
  PROVE  \A k \in 0..M : f[k] = h[k]
<1> USE DEF Alike
<1> DEFINE Bad == {n \in 0..M : f[n] # h[n]}
<1> SUFFICES ASSUME Bad # {} PROVE FALSE
  OBVIOUS
<1>1. PICK n \in Bad : \A m \in Bad : n <= m
  <2> HIDE DEF Bad
  <2> QED BY HasMin, Bad \in SUBSET Nat DEF Bad
<1>2. n \in 1..M /\ n - 1 \in 0..M /\ n - 1 \notin Bad
  BY <1>1
<1> QED
  BY <1>2

(***************************************************************************)
(* Trade guards.  That signals were blocked says nothing of the next one.  *)
(* StuckInv adds why they were: no trade is open and the drawdown halt     *)
(* holds, and the phantom trade it records adds a point to the equity      *)
(* curve that is like the last one.                                        *)
(***************************************************************************)
(* No signal was taken yet.                                                *)
LEMMA GuardsInitOK == GuardsInit => GuardsTypeOK
<1> SUFFICES ASSUME GuardsInit PROVE GuardsTypeOK
  OBVIOUS
<1>1. config \in Configs /\ now \in 0..Horizon /\ closed = <<>> /\ verdict = "none"
  BY GuardsAssumption DEF GuardsInit
<1>2. phantoms \in 0..now
  BY DEF GuardsInit
<1>3. closed \in Seq([entry : 1..Horizon, exit : 1..(Horizon + 1), gain : Gains \cup {0}])
  BY <1>1
<1> QED
  BY <1>1, <1>2, <1>3 DEF GuardsTypeOK

(* What a trade that is recorded, a phantom included, has for its times.   *)
LEMMA GuardsStep == GuardsTypeOK /\ [TakeSignal]_guardVars => GuardsTypeOK'
<1> SUFFICES ASSUME GuardsTypeOK, [TakeSignal]_guardVars PROVE GuardsTypeOK'
  OBVIOUS
<1> DEFINE Closed == [entry : 1..Horizon, exit : 1..(Horizon + 1), gain : Gains \cup {0}]
<1>1. CASE UNCHANGED guardVars
  BY <1>1 DEF guardVars, GuardsTypeOK
<1>2. CASE TakeSignal
  <2>1. PICK t \in (now + 1)..Horizon : now' = t /\ (BlockSignal(t) \/ EnterTrade(t)) /\ config' = config
    BY <1>2 DEF TakeSignal
  <2>2. t \in 1..Horizon /\ t \in Int /\ Horizon \in Int /\ closed \in Seq(Closed)
    BY GuardsAssumption DEF GuardsTypeOK
  <2>3. /\ verdict' \in {"none", "blocked", "entered"}
        /\ closed' = closed \/ \E r \in Closed : closed' = Append(closed, r)
    <3>1. CASE BlockSignal(t)
      <4>1. verdict' = "blocked" /\ (closed' = closed \/ closed' = Append(closed, Phantom(t)))
        BY <3>1 DEF BlockSignal
      <4>2. Phantom(t) \in Closed
        BY <2>2 DEF Phantom
      <4> HIDE DEF Closed
      <4> QED
        BY <4>1, <4>2
    <3>2. CASE EnterTrade(t)
      <4>1. verdict' = "entered"
            /\ (closed' = closed \/ \E e \in t..(Horizon + 1), g \in Gains :
                                      closed' = Append(closed, [entry |-> t, exit |-> e, gain |-> g]))
        BY <3>2 DEF EnterTrade
      <4>2. ASSUME NEW e \in t..(Horizon + 1), NEW g \in Gains
            PROVE  [entry |-> t, exit |-> e, gain |-> g] \in Closed
        BY <2>2
      <4> HIDE DEF Closed
      <4> QED
        BY <4>1, <4>2
    <3> QED
      BY <2>1, <3>1, <3>2
  <2>4. closed' \in Seq(Closed)
    <3> HIDE DEF Closed
    <3> QED
      BY <2>2, <2>3, AppendProperties
  <2>5. phantoms' \in 0..now'
    <3>1. phantoms' \in {0, phantoms, phantoms + 1}
      BY <2>1 DEF BlockSignal, EnterTrade
    <3>2. phantoms \in 0..now /\ now' \in (now + 1)..Horizon /\ now \in Nat
      BY <2>1, GuardsAssumption DEF GuardsTypeOK
    <3> QED
      BY <3>1, <3>2
  <2>6. now' \in 0..Horizon
    BY <2>1, <2>2
  <2> QED
    BY <2>1, <2>3, <2>4, <2>5, <2>6 DEF GuardsTypeOK
<1> QED
  BY <1>1, <1>2

(* The gain of the trades of c that are in S.                              *)
TotalOf(c, S) ==
  LET sum[i \in 0..Len(c)] ==
        IF i = 0 THEN 0 ELSE sum[i - 1] + (IF i \in S THEN c[i].gain ELSE 0)
  IN sum[Len(c)]

Trades == [entry : 1..Horizon, exit : 1..(Horizon + 1), gain : Gains \cup {0}]

(* It is what a sum over the trades computes.                              *)
LEMMA TotalIs ==
  ASSUME NEW c \in Seq(Trades), NEW S
  PROVE  \E f \in [0..Len(c) -> Int] :
           /\ f[0] = 0 /\ TotalOf(c, S) = f[Len(c)]
           /\ \A k \in 1..Len(c) : f[k] = f[k - 1] + (IF k \in S THEN c[k].gain ELSE 0)
<1> DEFINE n == Len(c)
           g == [x \in (1..n) \X Int |-> x[2] + (IF x[1] \in S THEN c[x[1]].gain ELSE 0)]
           Sum(f) == f = [i \in 0..n |->
                            IF i = 0 THEN 0 ELSE f[i - 1] + (IF i \in S THEN c[i].gain ELSE 0)]
           sum == CHOOSE f : Sum(f)
<1>1. n \in Nat /\ \A i \in 1..n : c[i].gain \in Int
  <2>1. n \in Nat /\ \A i \in 1..n : c[i] \in Trades
    OBVIOUS
  <2>2. Gains \cup {0} \subseteq Int
    BY GuardsAssumption
  <2>3. \A r \in Trades : r.gain \in Gains \cup {0}
    BY DEF Trades
  <2> QED BY <2>1, <2>2, <2>3
<1>2. g \in [(1..n) \X Int -> Int]
  <2> HIDE DEF n
  <2> QED BY <1>1
<1>3. PICK f : Computes(f, n, 0, g)
  <2>1. 0 \in Int
    OBVIOUS
  <2> HIDE DEF g, n
  <2> QED BY <1>1, <1>2, <2>1, ComputesExists, Zenon
<1>4. \A k \in 1..n : f[k] = f[k - 1] + (IF k \in S THEN c[k].gain ELSE 0)
  <2> SUFFICES ASSUME NEW k \in 1..n PROVE f[k] = f[k - 1] + (IF k \in S THEN c[k].gain ELSE 0)
    OBVIOUS
  <2> HIDE DEF n
  <2>1. k - 1 \in 0..n /\ f \in [0..n -> Int]
    BY <1>1, <1>3 DEF Computes
  <2>2. f[k] = g[<<k, f[k - 1]>>] /\ f[k - 1] \in Int
    <3> HIDE DEF g
    <3> QED BY <1>3, <2>1 DEF Computes
  <2> QED BY <2>2
<1>5. Sum(f)
  <2> HIDE DEF n, g
  <2> QED BY <1>1, <1>3, <1>4 DEF Computes
<1>6. Sum(sum)
  BY <1>5
<1>7. TotalOf(c, S) = sum[n]
  BY DEF TotalOf
<1> HIDE DEF sum, g
<1>8. sum[0] = 0 /\ \A k \in 1..n : sum[k] = sum[k - 1] + (IF k \in S THEN c[k].gain ELSE 0)
  <2> DEFINE F == [i \in 0..n |->
                      IF i = 0 THEN 0 ELSE sum[i - 1] + (IF i \in S THEN c[i].gain ELSE 0)]
  <2>1. sum = F
    BY <1>6
  <2> HIDE DEF n
  <2>2. F[0] = 0 /\ \A k \in 1..n : F[k] = sum[k - 1] + (IF k \in S THEN c[k].gain ELSE 0)
    BY <1>1
  <2> QED
    BY <2>1, <2>2
<1>9. \A k \in 0..n : f[k] = sum[k]
  <2>1. Alike(f, sum, n)
    BY <1>3, <1>4, <1>8 DEF Computes, Alike
  <2> HIDE DEF n
  <2> QED BY <1>1, <2>1, AlikeAgree, Zenon
<1>10. f \in [0..n -> Int] /\ f[0] = 0 /\ n \in 0..n
  BY <1>1, <1>3 DEF Computes
<1> HIDE DEF n
<1> QED
  BY <1>4, <1>7, <1>9, <1>10 DEF n

(* A trade without gain changes no total: what counts is which of the      *)
(* others are meant.                                                       *)
LEMMA TotalAppends ==
  ASSUME NEW c \in Seq(Trades), NEW r \in Trades, r.gain = 0, NEW S, NEW T,
         \A k \in 1..Len(c) : k \in S <=> k \in T
  PROVE  TotalOf(c, T) \in Int /\ TotalOf(Append(c, r), S) = TotalOf(c, T)
<1> DEFINE n == Len(c)
           d == Append(c, r)
<1>1. /\ n \in Nat /\ d \in Seq(Trades) /\ Len(d) = n + 1
      /\ d[n + 1] = r /\ \A k \in 1..n : d[k] = c[k]
  BY AppendProperties
<1>2. PICK f \in [0..n -> Int] :
        /\ f[0] = 0 /\ TotalOf(c, T) = f[n]
        /\ \A k \in 1..n : f[k] = f[k - 1] + (IF k \in T THEN c[k].gain ELSE 0)
  BY TotalIs
<1>3. PICK h \in [0..(n + 1) -> Int] :
        /\ h[0] = 0 /\ TotalOf(d, S) = h[n + 1]
        /\ \A k \in 1..(n + 1) : h[k] = h[k - 1] + (IF k \in S THEN d[k].gain ELSE 0)
  <2> HIDE DEF d, n
  <2>1. PICK h \in [0..Len(d) -> Int] :
          /\ h[0] = 0 /\ TotalOf(d, S) = h[Len(d)]
          /\ \A k \in 1..Len(d) : h[k] = h[k - 1] + (IF k \in S THEN d[k].gain ELSE 0)
    BY <1>1, TotalIs
  <2> QED
    BY <1>1, <2>1
<1> HIDE DEF d, n
<1>4. Alike(f, h, n)
  <2> SUFFICES ASSUME NEW k \in 1..n, f[k - 1] = h[k - 1] PROVE f[k] = h[k]
    BY <1>2, <1>3 DEF Alike
  <2>1. k \in 1..(n + 1) /\ d[k] = c[k] /\ (k \in S <=> k \in T)
    BY <1>1 DEF n
  <2> QED
    BY <1>2, <1>3, <2>1
<1>5. \A k \in 0..n : f[k] = h[k]
  <2>1. n \in Nat
    BY <1>1
  <2> QED BY ONLY <1>4, <2>1, AlikeAgree
<1>6. n + 1 \in 1..(n + 1) /\ n \in 0..n /\ n + 1 - 1 = n
  BY <1>1
<1>7. h[n + 1] = h[n + 1 - 1] + (IF n + 1 \in S THEN d[n + 1].gain ELSE 0)
  BY <1>3, <1>6
<1>8. h[n] \in Int /\ f[n] \in Int /\ h[n] = f[n]
  BY <1>2, <1>5, <1>6
<1>9. h[n + 1] = f[n]
  BY <1>1, <1>6, <1>7, <1>8
<1> QED
  BY <1>2, <1>3, <1>8, <1>9 DEF d

(* The trades of c up to i in the order of exits, and the equity after     *)
(* each of them when all are closed.                                       *)
BeforeIn(c, i) == {j \in DOMAIN c : \/ c[j].exit < c[i].exit
                                    \/ c[j].exit = c[i].exit /\ j <= i}
UptoRank(c, k) == {i \in DOMAIN c : Cardinality(BeforeIn(c, i)) <= k}
CurveOf(c) == [k \in 0..Len(c) |-> InitialEquity + TotalOf(c, UptoRank(c, k))]

(* A trade that exits last and brings nothing adds a point like the last.  *)
LEMMA CurveAppends ==
  ASSUME NEW c \in Seq(Trades), NEW r \in Trades, r.gain = 0,
         \A i \in DOMAIN c : c[i].exit <= r.exit
  PROVE  /\ CurveOf(c) \in [0..Len(c) -> Int]
         /\ CurveOf(Append(c, r)) \in [0..(Len(c) + 1) -> Int]
         /\ \A k \in 0..Len(c) : CurveOf(Append(c, r))[k] = CurveOf(c)[k]
         /\ CurveOf(Append(c, r))[Len(c) + 1] = CurveOf(c)[Len(c)]
         /\ CurveOf(c)[Len(c)] = InitialEquity + TotalOf(c, DOMAIN c)
<1> DEFINE n == Len(c)
           d == Append(c, r)
<1>1. /\ n \in Nat /\ d \in Seq(Trades) /\ Len(d) = n + 1 /\ InitialEquity \in Int
      /\ d[n + 1] = r /\ \A k \in 1..n : d[k] = c[k]
  BY AppendProperties, GuardsAssumption
<1>2. DOMAIN c = 1..n /\ DOMAIN d = 1..(n + 1)
  BY <1>1
<1>3. /\ r.exit \in Int /\ \A k \in 1..n : c[k].exit \in Int
      /\ \A k \in 1..n : c[k].exit <= r.exit
  <2>1. \A x \in Trades : x.exit \in Int
    BY GuardsAssumption DEF Trades
  <2>2. \A k \in 1..n : c[k] \in Trades
    OBVIOUS
  <2> QED
    BY <1>2, <2>1, <2>2
<1> HIDE DEF d, n
<1>4. ASSUME NEW i \in 1..n PROVE BeforeIn(d, i) = BeforeIn(c, i)
  <2>1. d[i] = c[i] /\ d[n + 1] = r /\ ~(n + 1 <= i)
    BY <1>1
  <2>2. ASSUME NEW j \in 1..n PROVE j \in BeforeIn(d, i) <=> j \in BeforeIn(c, i)
    BY <1>1, <1>2, <2>1 DEF BeforeIn
  <2>3. n + 1 \notin BeforeIn(d, i)
    BY <1>3, <2>1 DEF BeforeIn
  <2>4. 1..(n + 1) = (1..n) \cup {n + 1}
    BY <1>1
  <2> QED
    BY <1>2, <2>2, <2>3, <2>4 DEF BeforeIn
<1>5. BeforeIn(d, n + 1) = 1..(n + 1)
  <2> SUFFICES ASSUME NEW j \in 1..(n + 1) PROVE j \in BeforeIn(d, n + 1)
    BY <1>2 DEF BeforeIn
  <2>1. d[n + 1].exit \in Int /\ d[j].exit \in Int /\ d[j].exit <= d[n + 1].exit /\ j <= n + 1
    BY <1>1, <1>3
  <2> QED
    BY <1>2, <2>1 DEF BeforeIn
<1>6. \A k \in Nat : Cardinality(1..k) = k
  <2> SUFFICES ASSUME NEW k \in Nat PROVE Cardinality(1..k) = k
    OBVIOUS
  <2>1. 1 \in Int /\ k \in Int
    OBVIOUS
  <2>2. Cardinality(1..k) = IF 1 > k THEN 0 ELSE k - 1 + 1
    BY <2>1, FS_Interval
  <2> QED
    BY <2>2
<1>7. \A i \in 1..n : Cardinality(BeforeIn(c, i)) \in Int /\ Cardinality(BeforeIn(c, i)) <= n
  <2> SUFFICES ASSUME NEW i \in 1..n
               PROVE  Cardinality(BeforeIn(c, i)) \in Int /\ Cardinality(BeforeIn(c, i)) <= n
    OBVIOUS
  <2>1. IsFiniteSet(1..n) /\ BeforeIn(c, i) \subseteq 1..n
    BY <1>1, <1>2, FS_Interval DEF BeforeIn
  <2>2. IsFiniteSet(BeforeIn(c, i)) /\ Cardinality(BeforeIn(c, i)) <= Cardinality(1..n)
    BY <2>1, FS_Subset
  <2>3. Cardinality(BeforeIn(c, i)) \in Nat
    BY <2>2, FS_CardinalityType
  <2> QED
    BY <1>1, <1>6, <2>2, <2>3
<1>8. ASSUME NEW k \in Nat
      PROVE  \A i \in 1..n : i \in UptoRank(d, k) <=> i \in UptoRank(c, k)
  <2>1. \A i \in 1..n : i \in 1..(n + 1)
    BY <1>1
  <2> QED
    BY <1>2, <1>4, <2>1 DEF UptoRank
<1>9. UptoRank(c, n) = 1..n /\ \A i \in 1..n : i \in UptoRank(d, n + 1)
  <2>1. UptoRank(c, n) = 1..n
    BY <1>2, <1>7 DEF UptoRank
  <2>2. ASSUME NEW i \in 1..n PROVE i \in UptoRank(d, n + 1)
    <3>1. Cardinality(BeforeIn(d, i)) <= n + 1 /\ i \in 1..(n + 1)
      BY <1>1, <1>4, <1>7
    <3> QED
      BY <1>2, <3>1 DEF UptoRank
  <2> QED
    BY <2>1, <2>2
<1>10. ASSUME NEW S, NEW T, \A k \in 1..n : k \in S <=> k \in T
       PROVE  TotalOf(c, T) \in Int /\ TotalOf(d, S) = TotalOf(c, T)
  <2>1. \A k \in 1..Len(c) : k \in S <=> k \in T
    BY <1>10 DEF n
  <2> QED
    BY <2>1, TotalAppends, Zenon DEF d
<1>11. \A k \in 0..n : /\ TotalOf(c, UptoRank(c, k)) \in Int
                       /\ TotalOf(d, UptoRank(d, k)) = TotalOf(c, UptoRank(c, k))
  <2> SUFFICES ASSUME NEW k \in 0..n
               PROVE  /\ TotalOf(c, UptoRank(c, k)) \in Int
                      /\ TotalOf(d, UptoRank(d, k)) = TotalOf(c, UptoRank(c, k))
    OBVIOUS
  <2>1. k \in Nat
    BY <1>1
  <2> QED
    BY <1>8, <1>10, <2>1
<1>12. TotalOf(d, UptoRank(d, n + 1)) = TotalOf(c, UptoRank(c, n))
  <2>1. \A k \in 1..n : k \in UptoRank(d, n + 1) <=> k \in UptoRank(c, n)
    BY <1>9
  <2> QED
    BY <1>10, <2>1
<1>13. n \in 0..n /\ n + 1 \in 0..(n + 1) /\ \A k \in 0..(n + 1) : k \in 0..n \/ k = n + 1
  BY <1>1
<1>14. /\ CurveOf(c) = [k \in 0..n |-> InitialEquity + TotalOf(c, UptoRank(c, k))]
       /\ CurveOf(d) = [k \in 0..(n + 1) |-> InitialEquity + TotalOf(d, UptoRank(d, k))]
  BY <1>1 DEF CurveOf, n
<1>15. \A k \in 0..(n + 1) : TotalOf(d, UptoRank(d, k)) \in Int
  BY <1>11, <1>12, <1>13
<1>16. CurveOf(c) \in [0..n -> Int] /\ CurveOf(d) \in [0..(n + 1) -> Int]
  BY <1>1, <1>11, <1>14, <1>15
<1>17. \A k \in 0..n : CurveOf(d)[k] = CurveOf(c)[k]
  BY <1>1, <1>11, <1>14
<1>18. CurveOf(d)[n + 1] = CurveOf(c)[n]
  BY <1>12, <1>13, <1>14
<1>19. CurveOf(c)[n] = InitialEquity + TotalOf(c, DOMAIN c)
  BY <1>2, <1>9, <1>13, <1>14
<1> QED
  BY <1>16, <1>17, <1>18, <1>19 DEF n, d

(* The drawdown at the points p, for a limit.                              *)
PeakOf(p) == Max({p[k] : k \in DOMAIN p})
DrawnDown(p, N, limit) == (PeakOf(p) - p[N]) * 100 >= limit * PeakOf(p)

(* A point like the last does not lift it: no peak is new and none is      *)
(* forgotten.                                                              *)
LEMMA DrawdownStays ==
  ASSUME NEW N \in Nat, NEW p \in [0..N -> Int], NEW q \in [0..(N + 1) -> Int],
         \A k \in 0..N : q[k] = p[k], q[N + 1] = p[N],
         NEW limit, DrawnDown(p, N, limit)
  PROVE  DrawnDown(q, N + 1, limit)
<1>1. {p[k] : k \in DOMAIN p} = {q[k] : k \in DOMAIN q}
  <2>1. DOMAIN p = 0..N /\ DOMAIN q = 0..(N + 1) /\ N \in 0..N
    OBVIOUS
  <2>2. \A k \in 0..N : k \in 0..(N + 1) /\ p[k] = q[k]
    OBVIOUS
  <2>3. \A k \in 0..(N + 1) : k \in 0..N \/ k = N + 1
    OBVIOUS
  <2> QED
    BY <2>1, <2>2, <2>3
<1>2. PeakOf(p) = PeakOf(q)
  BY <1>1 DEF PeakOf
<1> QED
  BY <1>2 DEF DrawnDown

(* A halt of a time when no trade is open: what it depends on.             *)
LEMMA HaltsIs ==
  ASSUME NEW t \in 1..Horizon
  PROVE  GuardsTypeOK /\ Eligible(t) = DOMAIN closed
           => (Halted(t) <=> /\ config.drawdown # None
                             /\ DrawnDown(CurveOf(closed), Len(closed), config.drawdown))
<1> SUFFICES ASSUME GuardsTypeOK, Eligible(t) = DOMAIN closed
             PROVE  Halted(t) <=> /\ config.drawdown # None
                                  /\ DrawnDown(CurveOf(closed), Len(closed), config.drawdown)
  OBVIOUS
<1> DEFINE N == Len(closed)
           El == DOMAIN closed
<1>1. closed \in Seq(Trades) /\ N \in Nat /\ El = 1..N
  BY DEF GuardsTypeOK, Trades
<1> HIDE DEF N
<1>2. Cardinality(El) = N
  <2>1. 1 \in Int /\ N \in Int
    BY <1>1
  <2>2. Cardinality(1..N) = IF 1 > N THEN 0 ELSE N - 1 + 1
    BY <2>1, FS_Interval
  <2> QED
    BY <1>1, <2>2
<1>3. \A S : GainOf(S) = TotalOf(closed, S)
  BY DEF GainOf, TotalOf
<1>4. \A i \in El : Upto(El, i) = BeforeIn(closed, i)
  BY DEF Upto, BeforeIn
<1>5. Points(El) = CurveOf(closed)
  <2>1. ASSUME NEW k \in 0..N
        PROVE  Equity({i \in El : Cardinality(Upto(El, i)) <= k})
                 = InitialEquity + TotalOf(closed, UptoRank(closed, k))
    <3>1. {i \in El : Cardinality(Upto(El, i)) <= k} = UptoRank(closed, k)
      BY <1>4 DEF UptoRank
    <3> QED
      BY <1>3, <3>1 DEF Equity
  <2> QED
    BY <1>2, <2>1 DEF Points, CurveOf, N
<1>6. Equity(El) = CurveOf(closed)[N]
  <2>1. Phantom(t) \in Trades /\ Phantom(t).gain = 0 /\ Phantom(t).exit = t
    BY GuardsAssumption DEF Phantom, Trades
  <2>2. \A i \in DOMAIN closed : closed[i].exit <= Phantom(t).exit
    BY <2>1 DEF Eligible
  <2>3. CurveOf(closed)[Len(closed)] = InitialEquity + TotalOf(closed, DOMAIN closed)
    BY <1>1, <2>1, <2>2, CurveAppends
  <2> QED
    BY <1>3, <2>3 DEF Equity, N
<1> QED
  BY <1>5, <1>6 DEF Halted, DrawnDown, PeakOf, N

(* The types, and that a halt that met no open trade halts the last signal *)
(* and, as no trade is open since, every one to come.                      *)
StuckInv ==
  /\ GuardsTypeOK
  /\ phantoms > 0 => Eligible(now) = DOMAIN closed /\ Halted(now)

(* The phantom trade that a halt records leaves it where it is.            *)
LEMMA PhantomKeepsHalt ==
  ASSUME NEW t \in 1..Horizon, GuardsTypeOK, GuardsTypeOK', config' = config,
         Eligible(t) = DOMAIN closed, Halted(t), closed' = Append(closed, Phantom(t))
  PROVE  Eligible(t)' = DOMAIN closed' /\ Halted(t)'
<1> DEFINE N == Len(closed)
           r == Phantom(t)
<1>1. closed \in Seq(Trades) /\ N \in Nat /\ DOMAIN closed = 1..N /\ config \in Configs
  BY DEF GuardsTypeOK, Trades
<1>2. r \in Trades /\ r.gain = 0 /\ r.exit = t
  BY GuardsAssumption DEF Phantom, Trades
<1>3. \A i \in DOMAIN closed : closed[i].exit <= r.exit
  BY <1>2 DEF Eligible
<1> HIDE DEF N, r
<1>4. /\ closed' = Append(closed, r) /\ Len(closed') = N + 1 /\ DOMAIN closed' = 1..(N + 1)
      /\ closed'[N + 1] = r /\ \A i \in 1..N : closed'[i] = closed[i]
  <2>1. closed' = Append(closed, r)
    BY DEF r
  <2> QED
    BY <1>1, <1>2, <2>1, AppendProperties DEF N
<1>5. Eligible(t)' = DOMAIN closed'
  <2>1. ASSUME NEW i \in 1..(N + 1) PROVE closed'[i].exit <= t
    BY <1>1, <1>2, <1>3, <1>4, <2>1
  <2> QED
    BY <1>4, <2>1 DEF Eligible
<1>6. /\ CurveOf(closed) \in [0..N -> Int] /\ CurveOf(closed') \in [0..(N + 1) -> Int]
      /\ \A k \in 0..N : CurveOf(closed')[k] = CurveOf(closed)[k]
      /\ CurveOf(closed')[N + 1] = CurveOf(closed)[N]
  BY <1>1, <1>2, <1>3, <1>4, CurveAppends DEF N
<1>7. config.drawdown # None /\ DrawnDown(CurveOf(closed), N, config.drawdown)
  BY HaltsIs DEF N
<1>8. DrawnDown(CurveOf(closed'), N + 1, config.drawdown)
  BY <1>1, <1>6, <1>7, DrawdownStays
<1>9. (GuardsTypeOK /\ Eligible(t) = DOMAIN closed
         => (Halted(t) <=> /\ config.drawdown # None
                           /\ DrawnDown(CurveOf(closed), Len(closed), config.drawdown)))'
  BY HaltsIs, PTL
<1> QED
  BY <1>4, <1>5, <1>7, <1>8, <1>9

(* No signal was taken yet.                                                *)
LEMMA StuckInitOK == GuardsInit => StuckInv
BY GuardsInitOK DEF GuardsInit, StuckInv

(* A signal that comes while such a halt holds meets it.                   *)
LEMMA HaltMeets ==
  ASSUME StuckInv, phantoms > 0, NEW t \in (now + 1)..Horizon
  PROVE  Eligible(t) = DOMAIN closed /\ Halted(t)
<1>1. Eligible(now) = DOMAIN closed /\ Halted(now) /\ now \in Int /\ now < t /\ t \in Int
  BY GuardsAssumption DEF StuckInv, GuardsTypeOK
<1>2. \A i \in DOMAIN closed : closed[i].exit \in Int /\ closed[i].exit <= now
  <2>1. \A x \in Trades : x.exit \in Int
    BY GuardsAssumption DEF Trades
  <2>2. closed \in Seq(Trades)
    BY DEF StuckInv, GuardsTypeOK, Trades
  <2> QED
    BY <1>1, <2>1, <2>2 DEF Eligible
<1>3. \A i \in DOMAIN closed : closed[i].exit <= t
  <2> SUFFICES ASSUME NEW i \in DOMAIN closed PROVE closed[i].exit <= t
    OBVIOUS
  <2>1. closed[i].exit \in Int /\ closed[i].exit <= now
    BY <1>2
  <2> QED
    BY ONLY <1>1, <2>1
<1>4. Eligible(t) = DOMAIN closed
  BY <1>3 DEF Eligible
<1> QED
  BY <1>1, <1>4 DEF Halted

(* A signal that a halt blocks keeps it, and no other signal passes one.   *)
LEMMA StuckStep == StuckInv /\ [TakeSignal]_guardVars => StuckInv'
<1> SUFFICES ASSUME StuckInv, [TakeSignal]_guardVars PROVE StuckInv'
  OBVIOUS
<1>1. GuardsTypeOK /\ GuardsTypeOK'
  BY GuardsStep DEF StuckInv
<1>2. CASE UNCHANGED guardVars
  <2>1. UNCHANGED <<config, now, closed, verdict, phantoms>>
    BY <1>2 DEF guardVars
  <2>2. Halted(now)' <=> Halted(now)
    BY <2>1 DEF Halted, Eligible, Points, Upto, Equity, GainOf
  <2>3. Eligible(now)' = Eligible(now)
    BY <2>1 DEF Eligible
  <2> QED
    BY <1>1, <2>1, <2>2, <2>3 DEF StuckInv
<1>3. CASE TakeSignal
  <2>1. PICK t \in (now + 1)..Horizon : now' = t /\ (BlockSignal(t) \/ EnterTrade(t)) /\ config' = config
    BY <1>3 DEF TakeSignal
  <2>2. t \in 1..Horizon
    BY <1>1, <2>1, GuardsAssumption DEF GuardsTypeOK
  <2>3. phantoms > 0 => Eligible(t) = DOMAIN closed /\ Halted(t)
    BY HaltMeets
  <2>4. phantoms' > 0 => Eligible(t) = DOMAIN closed /\ Halted(t) /\ BlockSignal(t)
    BY <2>1, <2>3 DEF BlockSignal, EnterTrade
  <2>5. ASSUME phantoms' > 0 PROVE Eligible(t)' = DOMAIN closed' /\ Halted(t)'
    <3>1. closed' = Append(closed, Phantom(t))
      BY <2>4, <2>5 DEF BlockSignal, HaltsEntry
    <3> QED
      BY <1>1, <2>1, <2>2, <2>4, <2>5, <3>1, PhantomKeepsHalt
  <2>6. phantoms' > 0 => Eligible(now)' = DOMAIN closed' /\ Halted(now)'
    BY <2>1, <2>5
  <2> QED
    BY <1>1, <2>6 DEF StuckInv
<1> QED
  BY <1>2, <1>3

(* A drawdown halt that meets no open trade is final: for every limit,     *)
(* every gain and any number of signals.                                   *)
THEOREM DrawdownHaltsAreFinal == GuardsSpec => DrawdownHaltIsFinal
<1>1. StuckInv /\ [TakeSignal]_guardVars => [phantoms > 0 => verdict' = "blocked"]_guardVars
  <2> SUFFICES ASSUME StuckInv, TakeSignal, phantoms > 0 PROVE verdict' = "blocked"
    BY DEF guardVars
  <2>1. PICK t \in (now + 1)..Horizon : BlockSignal(t) \/ EnterTrade(t)
    BY DEF TakeSignal
  <2>2. Halted(t)
    BY HaltMeets
  <2> QED
    BY <2>1, <2>2 DEF BlockSignal, EnterTrade, Blocked, HaltsEntry
<1> QED
  BY <1>1, StuckInitOK, StuckStep, PTL DEF GuardsSpec, DrawdownHaltIsFinal
=============================================================================
