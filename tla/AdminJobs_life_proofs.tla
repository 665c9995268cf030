------------------------ MODULE AdminJobs_life_proofs ------------------------
(***************************************************************************)
(* More theorems about AdminJobs: requests to cancel and recorded errors   *)
(* are kept, outcomes are final, and the operator's view is JobLifecycle.  *)
(***************************************************************************)
EXTENDS AdminJobs_proofs

USE ConstantsAssumption

(* A request to cancel is in flight only for a row that is there, and a    *)
(* row that is not there has none.                                         *)
AskInv ==
  /\ \A c \in Cancellers : cancelling[c] \in Jobs => row[cancelling[c]].status # "absent"
  /\ \A j \in Jobs : row[j].status = "absent" => ~row[j].cancelRequested

(* Rows are not taken away. *)
LEMMA RowsStay ==
  ASSUME TypeOK, [Next]_vars, NEW j \in Jobs, row[j].status # "absent"
  PROVE  row'[j].status # "absent"
<1>1. row[j] \in Row
  BY DEF TypeOK
<1>2. CASE ~Inserting
  BY <1>1, <1>2, RowUpdates, KeysKept
<1>3. ASSUME NEW r \in Requests, CreateSave(r) \/ SaveReplyLost(r)
      PROVE  row'[j].status # "absent"
  <2>1. PICK i \in Jobs : row[i].status = "absent" /\ InsertRow(i, req[r].key)
    BY <1>3 DEF CreateSave, SaveReplyLost
  <2> QED BY <2>1 DEF InsertRow, TypeOK
<1> QED BY <1>2, <1>3 DEF Inserting

(* A write keeps the request, but for a completion. *)
LEMMA RequestKept ==
  ASSUME NEW r \in Row, NEW s, RowWrite(r, s), s.status \notin {"succeeded", "cancelled"}
  PROVE  s.cancelRequested = r.cancelRequested
<1>1. \A n \in Nat : /\ MarkFailed(r, n).cancelRequested = r.cancelRequested
                     /\ [Refresh(r) EXCEPT !.errors = n].cancelRequested = r.cancelRequested
  BY DEF Row, MarkFailed, Refresh
<1>2. CASE \E n \in Nat : s = MarkFailed(r, n) \/ s = [Refresh(r) EXCEPT !.errors = n]
  BY <1>1, <1>2
<1>3. \A b \in BOOLEAN : s # Complete(r, b)
  BY RowFields
<1>4. CASE s \in {r, ClaimRow(r), Refresh(r), Requeue(r), [r EXCEPT !.claim = "stale"]}
  BY <1>4 DEF Row, ClaimRow, Refresh, Requeue
<1>5. s # MarkCancelled(r)
  BY RowFields
<1> QED BY <1>2, <1>3, <1>4, <1>5 DEF RowWrite

(* A step that withdraws a request is a success. *)
LEMMA Withdrawn ==
  ASSUME NEW r \in Row, NEW s, RowUpdate(r, s), r.cancelRequested, ~s.cancelRequested
  PROVE  s.status = "succeeded"
<1>1. s # [r EXCEPT !.cancelRequested = TRUE]
  BY DEF Row
<1>2. s # MarkCancelled(r)
  BY DEF MarkCancelled, Row
<1>3. ASSUME NEW b \in BOOLEAN, s = Complete(r, b) PROVE s.status = "succeeded"
  BY <1>3, RowFields
<1>4. CASE \A b \in BOOLEAN : s # Complete(r, b)
  <2>1. \A n \in Nat : MarkFailed(r, n).status = "failed"
    BY RowFields
  <2>2. \A n \in Nat : [Refresh(r) EXCEPT !.errors = n].cancelRequested = r.cancelRequested
    BY DEF Row, Refresh
  <2>3. \A n \in Nat : MarkFailed(r, n).cancelRequested = r.cancelRequested
    BY RowFields
  <2>4. CASE \E n \in Nat : s = MarkFailed(r, n) \/ s = [Refresh(r) EXCEPT !.errors = n]
    BY <2>2, <2>3, <2>4
  <2>5. CASE s \in {r, ClaimRow(r), Refresh(r), Requeue(r), [r EXCEPT !.claim = "stale"]}
    <3>1. s.cancelRequested = r.cancelRequested
      BY <2>5 DEF Row, ClaimRow, Refresh, Requeue
    <3> QED BY <3>1
  <2> QED BY <1>1, <1>2, <1>4, <2>4, <2>5 DEF RowUpdate, RowWrite
<1> QED BY <1>3, <1>4

(* A cancellation in flight is new only for a row that was found. *)
LEMMA Cancellings ==
  ASSUME TypeOK, [Next]_vars, NEW c \in Cancellers, cancelling'[c] # cancelling[c]
  PROVE  \/ cancelling'[c] = NoJob
         \/ cancelling'[c] \in Jobs /\ row[cancelling'[c]].status # "absent"
<1>1. ASSUME NEW i \in Cancellers, NEW j \in Jobs, CancelRead(i, j)
      PROVE  cancelling'[c] = j /\ row[j].status # "absent"
  BY <1>1 DEF CancelRead, TypeOK
<1>2. ASSUME NEW i \in Cancellers, CancelWrite(i) \/ CancelRejected(i)
      PROVE  cancelling'[c] = NoJob
  <2>1. cancelling' = [cancelling EXCEPT ![i] = NoJob]
    BY <1>2 DEF CancelWrite, CancelRejected
  <2> QED BY <2>1 DEF TypeOK
<1>3. ~(\E e \in Execs : OwedStep(e) \/ RunnerStep(e))
  BY DEF OwedStep, RunnerStep, ClaimRead, ClaimCancel, ClaimUpdate, ClaimFetch, FailWrite,
         CompleteRead, CompleteWrite, CatchRead, CatchCancel, SetProgress, AddError,
         ThrowIfCancellationRequested, RunnerReturns, RunnerThrows
<1>4. ~(\E r \in Requests : CreateStep(r))
  BY DEF CreateStep, CreateBegin, CreateLookup, CreateSave, CreateConflict, CreateRefind
<1>5. CASE FaultStep
  <2>1. \E i \in Cancellers : CancelRejected(i)
    BY <1>5 DEF FaultStep, Crash, RecoverRejected, ClaimRejected, ClaimReplyLost, RunRejected,
                CompleteReplyLost, CreateRejected, SaveReplyLost
  <2> QED BY <1>2, <2>1
<1> QED
  BY <1>1, <1>2, <1>3, <1>4, <1>5 DEF Next, RecoverUpdate, RecoverFind, ClaimExpires, vars

LEMMA AskInvStep ==
  ASSUME TypeOK, AskInv, [Next]_vars
  PROVE  AskInv'
<1>0. \A j \in Jobs : row[j] \in Row
  BY DEF TypeOK
<1>1. ASSUME NEW c \in Cancellers, cancelling'[c] \in Jobs
      PROVE  row'[cancelling'[c]].status # "absent"
  BY <1>1, Cancellings, RowsStay DEF AskInv
<1>2. ASSUME NEW j \in Jobs, row'[j].status = "absent"
      PROVE  ~row'[j].cancelRequested
  <2>1. row[j].status = "absent" /\ ~row[j].cancelRequested
    BY <1>2, RowsStay DEF AskInv
  <2>2. CASE ~Inserting
    <3>1. \A c \in Cancellers : CancelWrite(c) => cancelling[c] # j
      BY <2>1 DEF AskInv, CancelWrite
    <3>2. RowWrite(row[j], row'[j])
      BY <2>2, <3>1, RowWritten
    <3> QED BY <1>0, <1>2, <2>1, <3>2, RequestKept
  <2>3. ASSUME NEW r \in Requests, CreateSave(r) \/ SaveReplyLost(r)
        PROVE  ~row'[j].cancelRequested
    <3>1. PICK i \in Jobs : InsertRow(i, req[r].key)
      BY <2>3 DEF CreateSave, SaveReplyLost
    <3> QED BY <2>1, <3>1 DEF InsertRow, TypeOK
  <2> QED BY <2>2, <2>3 DEF Inserting
<1> QED BY <1>1, <1>2 DEF AskInv

LEMMA AskInvariance == Spec => []AskInv
<1>1. Init => AskInv
  BY DEF Init, AskInv, AbsentRow
<1>2. TypeOK /\ AskInv /\ [Next]_vars => AskInv'
  BY AskInvStep
<1> QED BY <1>1, <1>2, TypeCorrect, PTL DEF Spec

(* A recorded request to cancel is withdrawn by nothing but the success of *)
(* the run it came too late for, leases kept or not (completePersistedJob).*)
THEOREM RequestsSurvive == Spec => CancellationSurvives
<1>1. ASSUME TypeOK, AskInv, [Next]_vars, NEW j \in Jobs,
             row[j].cancelRequested, ~row'[j].cancelRequested
      PROVE  row'[j].status = "succeeded"
  <2>0. row[j] \in Row /\ row[j].status # "absent"
    BY <1>1 DEF TypeOK, AskInv
  <2>1. CASE ~Inserting
    <3>1. RowUpdate(row[j], row'[j])
      BY <1>1, <2>1, RowUpdates
    <3> QED BY <1>1, <2>0, <3>1, Withdrawn
  <2>2. ASSUME NEW r \in Requests, CreateSave(r) \/ SaveReplyLost(r)
        PROVE  row'[j] = row[j]
    <3>1. PICK i \in Jobs : row[i].status = "absent" /\ InsertRow(i, req[r].key)
      BY <2>2 DEF CreateSave, SaveReplyLost
    <3> QED BY <2>0, <3>1 DEF InsertRow, TypeOK
  <2> QED BY <1>1, <2>1, <2>2 DEF Inserting
<1>2. TypeOK /\ AskInv /\ [Next]_vars =>
        [\A j \in Jobs : row[j].cancelRequested /\ ~row'[j].cancelRequested =>
           row'[j].status = "succeeded"]_vars
  BY <1>1
<1> QED
  BY <1>2, TypeCorrect, AskInvariance, PTL DEF Spec, CancellationSurvives

-----------------------------------------------------------------------------
(* What one step may do to a job while leases outlast runs: the operator's *)
(* view of it takes a step or none, its errors and its outcome are kept.   *)
Lives(j) == Life!Step(j) \/ Life!Same(j)
Kept(j) ==
  /\ row'[j].errors >= row[j].errors
  /\ row[j].status \in {"cancelled", "failed"} => row'[j].status = row[j].status

(* The execution that holds a job knows every error recorded for it. *)
ErrorsInv ==
  \A e \in Execs : Holds(e) /\ exec[e].pc # "claimFetch" => exec[e].errors >= RowOf(e).errors

(* A row that is not there has no errors. *)
ListInv == ErrorsInv /\ \A j \in Jobs : row[j].status = "absent" => row[j].errors = 0

LifeInv == TypeOK /\ RunInv /\ AskInv /\ ListInv

(* The cases of the refinement mapping. *)
LEMMA LifeSame ==
  ASSUME NEW j \in Jobs,
         row'[j].status = row[j].status,
         row'[j].cancelRequested = row[j].cancelRequested,
         row[j].status = "running" =>
           \A e \in Execs : JobOf[e] = j => (Holds(e)' <=> Holds(e))
  PROVE  Lives(j)
BY DEF Lives, Life!Same, Life!Becomes, LifePhase, LifeAsked, LifeRunner

LEMMA LifeSettled ==
  ASSUME NEW j \in Jobs,
         row[j].status \in Terminal, row'[j].status \in Terminal,
         row'[j].cancelRequested = row[j].cancelRequested
  PROVE  Lives(j)
BY DEF Lives, Life!Same, Life!Becomes, LifePhase, LifeAsked, LifeRunner, PhaseOf, Terminal

LEMMA LifeSettle ==
  ASSUME NEW e \in Execs, NEW j \in Jobs, JobOf[e] = j, Holds(e),
         row[j].status = "running", row'[j].status \in Terminal,
         row'[j].cancelRequested \in BOOLEAN
  PROVE  Lives(j)
<1>1. LifeRunner[j] # {} /\ LifePhase[j] = "running"
  BY DEF LifeRunner, LifePhase, PhaseOf, Terminal
<1>2. LifeRunner'[j] = {} /\ LifePhase'[j] = "settled" /\ LifeAsked'[j] \in BOOLEAN
  BY DEF LifeRunner, LifePhase, LifeAsked, PhaseOf, Terminal
<1> QED BY <1>1, <1>2 DEF Lives, Life!Step, Life!Settle, Life!Becomes

LEMMA LifeDie ==
  ASSUME NEW j \in Jobs, row[j].status = "running", row'[j].status = "running",
         row'[j].cancelRequested = row[j].cancelRequested,
         \A e \in Execs : JobOf[e] = j => ~Holds(e)'
  PROVE  Lives(j)
<1>1. LifePhase[j] = "running" /\ LifePhase'[j] = "running" /\ LifeRunner'[j] = {}
  BY DEF LifeRunner, LifePhase, PhaseOf, Terminal
<1>2. LifeAsked'[j] = LifeAsked[j]
  BY DEF LifeAsked
<1> QED BY <1>1, <1>2 DEF Lives, Life!Step, Life!Die, Life!Becomes

LEMMA LifeStart ==
  ASSUME NEW j \in Jobs, Claimable(row[j]), row'[j].status = "running",
         ~row'[j].cancelRequested, row'[j].cancelRequested \in BOOLEAN,
         \/ \A e \in Execs : JobOf[e] = j => ~Holds(e)'
         \/ \E e \in Execs : /\ JobOf[e] = j /\ Holds(e)'
                             /\ \A f \in Execs : JobOf[f] = j /\ f # e => ~Holds(f)'
  PROVE  Lives(j)
<1>1. /\ LifePhase[j] = "queued" /\ ~LifeAsked[j]
      /\ LifePhase'[j] = "running" /\ LifeAsked'[j] = FALSE
  BY DEF LifePhase, LifeAsked, PhaseOf, Terminal, Claimable
<1>2. LifeRunner'[j] = {} \/ \E e \in Execs : LifeRunner'[j] = {e}
  BY DEF LifeRunner
<1> QED BY <1>1, <1>2 DEF Lives, Life!Step, Life!Start, Life!Becomes

LEMMA LifeRequeue ==
  ASSUME NEW j \in Jobs, row[j].status = "running", row'[j].status = "queued",
         row'[j].cancelRequested = row[j].cancelRequested,
         \A e \in Execs : JobOf[e] = j => ~Holds(e)
  PROVE  Lives(j)
<1>1. /\ LifePhase[j] = "running" /\ LifeRunner[j] = {}
      /\ LifePhase'[j] = "queued" /\ LifeRunner'[j] = {}
  BY DEF LifeRunner, LifePhase, PhaseOf, Terminal
<1>2. LifeAsked'[j] = LifeAsked[j]
  BY DEF LifeAsked
<1> QED BY <1>1, <1>2 DEF Lives, Life!Step, Life!Requeue, Life!Becomes

LEMMA LifeCancel ==
  ASSUME NEW j \in Jobs, row[j].status = "queued", row'[j].status = "cancelled",
         row[j].cancelRequested = TRUE, row'[j].cancelRequested = TRUE
  PROVE  Lives(j)
<1>1. /\ LifePhase[j] = "queued" /\ LifeAsked[j]
      /\ LifePhase'[j] = "settled" /\ LifeAsked'[j] = TRUE /\ LifeRunner'[j] = {}
  BY DEF LifeRunner, LifePhase, LifeAsked, PhaseOf, Terminal
<1> QED BY <1>1 DEF Lives, Life!Step, Life!Cancel, Life!Becomes

LEMMA LifeCreate ==
  ASSUME NEW j \in Jobs, row[j].status = "absent", row'[j].status = "queued",
         row'[j].cancelRequested = FALSE
  PROVE  Lives(j)
<1>1. /\ LifePhase[j] = "absent"
      /\ LifePhase'[j] = "queued" /\ LifeAsked'[j] = FALSE /\ LifeRunner'[j] = {}
  BY DEF LifeRunner, LifePhase, LifeAsked, PhaseOf, Terminal
<1> QED BY <1>1 DEF Lives, Life!Step, Life!Create, Life!Becomes

LEMMA LifeAsk ==
  ASSUME NEW j \in Jobs, row[j].status # "absent", row'[j].status = row[j].status,
         row'[j].cancelRequested = TRUE, exec' = exec
  PROVE  Lives(j)
<1>1. /\ LifePhase[j] # "absent" /\ LifePhase'[j] = LifePhase[j]
      /\ LifeAsked'[j] = TRUE
  BY DEF LifePhase, LifeAsked, PhaseOf, Terminal
<1>2. LifeRunner'[j] = LifeRunner[j]
  BY DEF LifeRunner, Holds
<1> QED BY <1>1, <1>2 DEF Lives, Life!Step, Life!Ask, Life!Becomes

-----------------------------------------------------------------------------
(* A step of one execution leaves the other jobs alone. *)
OnlyBy(e) ==
  /\ \A f \in Execs : f # e => exec'[f] = exec[f]
  /\ \A j \in Jobs : j # JobOf[e] => row'[j] = row[j]

LEMMA OthersLive ==
  ASSUME LifeInv, NEW e \in Execs, OnlyBy(e), NEW j \in Jobs, j # JobOf[e]
  PROVE  Lives(j) /\ Kept(j)
<1>1. \A f \in Execs : JobOf[f] = j => (Holds(f)' <=> Holds(f))
  BY DEF OnlyBy, Holds
<1>2. row'[j] = row[j]
  BY DEF OnlyBy
<1>3. row[j].errors \in Nat
  BY DEF LifeInv, TypeOK, Row
<1> QED BY <1>1, <1>2, <1>3, LifeSame DEF Kept

(* Whoever holds a job has a row that runs, or that its own completion     *)
(* settled; nobody else holds it.                                          *)
LEMMA Held ==
  ASSUME LifeInv, NEW e \in Execs, Holds(e)
  PROVE  /\ JobOf[e] \in Jobs /\ row[JobOf[e]] \in Row
         /\ \A f \in Execs : JobOf[f] = JobOf[e] /\ f # e => ~Holds(f)
         /\ row[JobOf[e]].status \in {"running", "succeeded", "cancelled"}
         /\ exec[e].pc \notin CatchingPc => row[JobOf[e]].status = "running"
         /\ row[JobOf[e]].status = "cancelled" => exec[e].pc = "catchCancel"
         /\ row[JobOf[e]].errors \in Nat /\ exec[e].errors \in Nat
         /\ row[JobOf[e]].cancelRequested \in BOOLEAN /\ exec[e].cancel \in BOOLEAN
         /\ exec[e].pc # "claimFetch" => exec[e].errors >= row[JobOf[e]].errors
BY DEF LifeInv, TypeOK, RunInv, ClaimInv, Entitled, RowOf, ListInv, ErrorsInv, Row, Exec,
       CatchingPc, Holds, HoldingPc

LEMMA OwedLives ==
  ASSUME ~SlowRuns, LifeInv, NEW e \in Execs, OwedStep(e), NEW j \in Jobs
  PROVE  Lives(j) /\ Kept(j)
<1>0. /\ JobOf[e] \in Jobs /\ exec \in [Execs -> Exec] /\ row \in [Jobs -> Row]
      /\ row[JobOf[e]] \in Row /\ exec[e] \in Exec
      /\ row[JobOf[e]].errors \in Nat /\ exec[e].errors \in Nat
      /\ exec[e].cancel \in BOOLEAN /\ row[JobOf[e]].cancelRequested \in BOOLEAN
  BY DEF LifeInv, TypeOK, Exec, Row
<1>1. CASE j # JobOf[e]
  <2>1. OnlyBy(e)
    BY <1>0 DEF OnlyBy, OwedStep, ClaimRead, ClaimCancel, ClaimUpdate, ClaimFetch, FailWrite,
                CompleteRead, CompleteWrite, CatchRead, CatchCancel, Goto, Leave
  <2> QED BY <1>1, <2>1, OthersLive
<1>2. CASE j = JobOf[e]
  <2>1. CASE ClaimRead(e) \/ ClaimFetch(e) \/ CompleteRead(e) \/ CatchRead(e)
    <3>1. row' = row
      BY <2>1 DEF ClaimRead, ClaimFetch, CompleteRead, CatchRead
    <3>2. Holds(e)' <=> Holds(e)
      BY <1>0, <2>1 DEF ClaimRead, ClaimFetch, CompleteRead, CatchRead, Goto, Holds, HoldingPc, Exec
    <3>3. \A f \in Execs : f # e => exec'[f] = exec[f]
      BY <1>0, <2>1 DEF ClaimRead, ClaimFetch, CompleteRead, CatchRead, Goto
    <3>4. \A f \in Execs : JobOf[f] = j => (Holds(f)' <=> Holds(f))
      BY <3>2, <3>3 DEF Holds
    <3> QED BY <1>0, <1>2, <3>1, <3>4, LifeSame DEF Kept
  <2>2. CASE ClaimCancel(e)
    <3>1. row'[j] = MarkCancelled(row[j])
      BY <1>0, <1>2, <2>2 DEF ClaimCancel
    <3>2. /\ row'[j].status = "cancelled" /\ row'[j].errors = row[j].errors
          /\ row'[j].cancelRequested = row[j].cancelRequested
      BY <1>0, <1>2, <3>1, RowFields
    <3>3. row[j].cancelRequested = TRUE /\ row[j].status \in {"queued", "cancelled"}
      BY <1>0, <1>2, <2>2 DEF LifeInv, RunInv, CancelInv, ClaimCancel, RowOf
    <3>4. Kept(j)
      BY <1>0, <1>2, <3>2, <3>3 DEF Kept
    <3>5. CASE row[j].status = "queued"
      <4>1. row'[j].cancelRequested = TRUE
        BY <3>2, <3>3
      <4> QED BY <3>2, <3>3, <3>4, <3>5, <4>1, LifeCancel
    <3>6. CASE row[j].status = "cancelled"
      BY <3>2, <3>4, <3>6, LifeSettled DEF Terminal
    <3> QED BY <3>3, <3>5, <3>6
  <2>3. CASE ClaimUpdate(e)
    <3>1. CASE Claimable(RowOf(e))
      <4>1. \A f \in Execs : JobOf[f] = j => ~Holds(f)
        BY <1>2, <3>1, Held DEF Claimable, RowOf
      <4>2. /\ row'[j] = ClaimRow(row[j])
            /\ exec'[e].pc = "claimFetch"
            /\ \A f \in Execs : f # e => exec'[f] = exec[f]
        BY <1>0, <1>2, <2>3, <3>1 DEF ClaimUpdate, Goto, Exec
      <4>3. Holds(e)' /\ \A f \in Execs : JobOf[f] = j /\ f # e => ~Holds(f)'
        BY <4>1, <4>2 DEF Holds, HoldingPc
      <4>4. /\ row'[j].status = "running" /\ row'[j].errors = row[j].errors
            /\ row'[j].cancelRequested = row[j].cancelRequested
        BY <1>0, <1>2, <4>2, RowFields
      <4>5. Claimable(row[j]) /\ row[j].status = "queued" /\ ~row[j].cancelRequested
        BY <1>2, <3>1 DEF Claimable, RowOf
      <4> QED BY <1>0, <1>2, <4>3, <4>4, <4>5, LifeStart DEF Kept
    <3>2. CASE ~Claimable(RowOf(e))
      <4>1. /\ row' = row
            /\ exec'[e].pc = "idle" /\ \A f \in Execs : f # e => exec'[f] = exec[f]
        BY <1>0, <2>3, <3>2 DEF ClaimUpdate, Leave, IdleExec
      <4>2. \A f \in Execs : JobOf[f] = j => (Holds(f)' <=> Holds(f))
        BY <2>3, <4>1 DEF ClaimUpdate, Holds, HoldingPc
      <4> QED BY <1>0, <1>2, <4>1, <4>2, LifeSame DEF Kept
    <3> QED BY <3>1, <3>2
  <2>4. CASE FailWrite(e)
    <3>1. row'[j] = MarkFailed(row[j], exec[e].errors + 1) /\ exec[e].errors + 1 \in Nat
      BY <1>0, <1>2, <2>4 DEF FailWrite
    <3>2. /\ row'[j].status = "failed" /\ row'[j].errors = exec[e].errors + 1
          /\ row'[j].cancelRequested = row[j].cancelRequested
      BY <1>0, <1>2, <3>1, RowFields
    <3>3. Holds(e) /\ exec[e].pc \notin {"claimFetch", "catchCancel"}
      BY <2>4 DEF FailWrite, Holds, HoldingPc
    <3>4. row[j].status \in {"running", "succeeded"} /\ exec[e].errors >= row[j].errors
      BY <1>2, <3>3, Held
    <3> QED
      BY <1>0, <1>2, <3>2, <3>3, <3>4, LifeSettle, LifeSettled DEF Kept, Terminal
  <2>5. CASE CompleteWrite(e)
    <3>1. row'[j] = Complete(row[j], exec[e].cancel)
      BY <1>0, <1>2, <2>5 DEF CompleteWrite
    <3>2. /\ row'[j].status \in Terminal /\ row'[j].errors = row[j].errors
          /\ row'[j].cancelRequested \in BOOLEAN
      BY <1>0, <1>2, <3>1, RowFields DEF Terminal
    <3>3. Holds(e) /\ row[j].status = "running"
      BY <1>2, <2>5, Held DEF CompleteWrite, Holds, HoldingPc, CatchingPc
    <3> QED BY <1>0, <1>2, <3>2, <3>3, LifeSettle DEF Kept
  <2>6. CASE CatchCancel(e)
    <3>1. row'[j] = MarkCancelled(row[j])
      BY <1>0, <1>2, <2>6 DEF CatchCancel
    <3>2. /\ row'[j].status = "cancelled" /\ row'[j].errors = row[j].errors
          /\ row'[j].cancelRequested = row[j].cancelRequested
      BY <1>0, <1>2, <3>1, RowFields
    <3>3. Holds(e) /\ row[j].status \in {"running", "succeeded", "cancelled"}
      BY <1>2, <2>6, Held DEF CatchCancel, Holds, HoldingPc
    <3> QED
      BY <1>0, <1>2, <3>2, <3>3, LifeSettle, LifeSettled DEF Kept, Terminal
  <2> QED BY <2>1, <2>2, <2>3, <2>4, <2>5, <2>6 DEF OwedStep
<1> QED BY <1>1, <1>2

LEMMA RunnerLives ==
  ASSUME LifeInv, NEW e \in Execs, RunnerStep(e), NEW j \in Jobs
  PROVE  Lives(j) /\ Kept(j)
<1>0. /\ JobOf[e] \in Jobs /\ exec \in [Execs -> Exec] /\ row \in [Jobs -> Row]
      /\ row[JobOf[e]] \in Row /\ exec[e] \in Exec
      /\ row[JobOf[e]].errors \in Nat /\ exec[e].errors \in Nat
  BY DEF LifeInv, TypeOK, Exec, Row
<1>1. CASE j # JobOf[e]
  <2>1. OnlyBy(e)
    BY <1>0 DEF OnlyBy, RunnerStep, SetProgress, AddError, ThrowIfCancellationRequested,
                RunnerReturns, RunnerThrows, Goto
  <2> QED BY <1>1, <2>1, OthersLive
<1>2. CASE j = JobOf[e]
  <2>1. Holds(e) /\ exec[e].errors >= row[j].errors
    BY <1>2, Held DEF RunnerStep, SetProgress, AddError, ThrowIfCancellationRequested,
                      RunnerReturns, RunnerThrows, Runs, Holds, HoldingPc
  <2>2. Holds(e)'
    BY <1>0 DEF RunnerStep, SetProgress, AddError, ThrowIfCancellationRequested,
                RunnerReturns, RunnerThrows, Runs, Goto, CatchPc, Holds, HoldingPc, Exec
  <2>3. \A f \in Execs : f # e => exec'[f] = exec[f]
    BY <1>0 DEF RunnerStep, SetProgress, AddError, ThrowIfCancellationRequested,
                RunnerReturns, RunnerThrows, Goto
  <2>4. \A f \in Execs : JobOf[f] = j => (Holds(f)' <=> Holds(f))
    BY <2>1, <2>2, <2>3 DEF Holds
  <2>5. /\ row'[j].status = row[j].status
        /\ row'[j].cancelRequested = row[j].cancelRequested
        /\ row'[j].errors >= row[j].errors
    <3>1. CASE SetProgress(e)
      <4>1. row'[j] = Refresh(row[j])
        BY <1>0, <1>2, <3>1 DEF SetProgress
      <4> QED BY <1>0, <1>2, <4>1, RowFields
    <3>2. CASE AddError(e)
      <4>1. row'[j] = [Refresh(row[j]) EXCEPT !.errors = exec[e].errors + 1]
        BY <1>0, <1>2, <3>2 DEF AddError
      <4>2. /\ row'[j].status = row[j].status
            /\ row'[j].cancelRequested = row[j].cancelRequested
            /\ row'[j].errors = exec[e].errors + 1
        BY <1>0, <1>2, <4>1 DEF Refresh, Row
      <4> QED BY <1>0, <1>2, <2>1, <4>2
    <3>3. CASE row' = row
      BY <1>0, <1>2, <3>3
    <3> QED BY <3>1, <3>2, <3>3 DEF RunnerStep, ThrowIfCancellationRequested, RunnerReturns,
                                   RunnerThrows
  <2> QED BY <2>4, <2>5, LifeSame DEF Kept
<1> QED BY <1>1, <1>2

LEMMA InsertLives ==
  ASSUME LifeInv, NEW r \in Requests, NEW i \in Jobs, row[i].status = "absent",
         InsertRow(i, req[r].key), NEW j \in Jobs,
         \A f \in Execs : Holds(f)' <=> Holds(f)
  PROVE  Lives(j) /\ Kept(j)
<1>0. row \in [Jobs -> Row] /\ row[j].errors \in Nat
  BY DEF LifeInv, TypeOK, Row
<1>1. CASE j = i
  <2>1. /\ row'[j].status = "queued" /\ row'[j].errors = 0
        /\ row'[j].cancelRequested = FALSE
    BY <1>0, <1>1 DEF InsertRow
  <2>2. row[j].status = "absent" /\ row[j].errors = 0
    BY <1>1 DEF LifeInv, ListInv
  <2>3. Kept(j)
    BY <2>1, <2>2 DEF Kept
  <2>4. Lives(j)
    BY <2>1, <2>2, LifeCreate, Zenon
  <2> QED BY <2>3, <2>4
<1>2. CASE j # i
  <2>1. row'[j] = row[j]
    BY <1>0, <1>2 DEF InsertRow
  <2> QED BY <1>0, <2>1, LifeSame DEF Kept
<1> QED BY <1>1, <1>2

LEMMA FaultLives ==
  ASSUME ~SlowRuns, LifeInv, FaultStep, NEW j \in Jobs
  PROVE  Lives(j) /\ Kept(j)
<1>0. /\ exec \in [Execs -> Exec] /\ row \in [Jobs -> Row] /\ row[j] \in Row
      /\ row[j].errors \in Nat /\ row[j].cancelRequested \in BOOLEAN
      /\ \A e \in Execs : JobOf[e] \in Jobs /\ exec[e] \in Exec /\ exec[e].cancel \in BOOLEAN
  BY DEF LifeInv, TypeOK, Exec, Row
<1>1. ASSUME row' = row, \A f \in Execs : exec'[f].pc = "idle" \/ exec'[f].pc = exec[f].pc
      PROVE  Lives(j) /\ Kept(j)
  <2>1. Kept(j)
    BY <1>0, <1>1 DEF Kept
  <2>2. CASE \E e \in Execs : JobOf[e] = j /\ Holds(e)
    <3>1. PICK e \in Execs : JobOf[e] = j /\ Holds(e)
      BY <2>2
    <3>2. \A f \in Execs : JobOf[f] = j /\ f # e => ~Holds(f)
      BY <3>1, Held
    <3>3. \A f \in Execs : JobOf[f] = j /\ f # e => ~Holds(f)'
      BY <1>1, <3>2 DEF Holds, HoldingPc
    <3>4. CASE Holds(e)'
      BY <1>1, <2>1, <3>1, <3>2, <3>3, <3>4, LifeSame
    <3>5. CASE ~Holds(e)' /\ row[j].status = "running"
      BY <1>1, <2>1, <3>3, <3>5, LifeDie
    <3>6. CASE row[j].status # "running"
      BY <1>1, <2>1, <3>6, LifeSame
    <3> QED BY <3>4, <3>5, <3>6
  <2>3. CASE \A e \in Execs : JobOf[e] = j => ~Holds(e)
    <3>1. \A e \in Execs : JobOf[e] = j => ~Holds(e)'
      BY <1>1, <2>3 DEF Holds, HoldingPc
    <3> QED BY <1>1, <2>1, <2>3, <3>1, LifeSame
  <2> QED BY <2>2, <2>3
<1>2. ASSUME NEW w \in Workers, Crash(w) PROVE Lives(j) /\ Kept(j)
  <2>1. \A f \in Execs : exec'[f].pc = "idle" \/ exec'[f].pc = exec[f].pc
    BY <1>2 DEF Crash, IdleExec
  <2> QED BY <1>1, <1>2, <2>1 DEF Crash
<1>3. ASSUME NEW e \in Execs, ClaimRejected(e) PROVE Lives(j) /\ Kept(j)
  <2>1. \A f \in Execs : exec'[f].pc = "idle" \/ exec'[f].pc = exec[f].pc
    BY <1>0, <1>3 DEF ClaimRejected, Leave, IdleExec
  <2> QED BY <1>1, <1>3, <2>1 DEF ClaimRejected
<1>4. ASSUME NEW e \in Execs, ClaimReplyLost(e), j # JobOf[e] PROVE Lives(j) /\ Kept(j)
  <2>1. OnlyBy(e)
    BY <1>0, <1>4 DEF OnlyBy, ClaimReplyLost, Leave
  <2> QED BY <1>4, <2>1, OthersLive
<1>5. ASSUME NEW e \in Execs, ClaimReplyLost(e), j = JobOf[e] PROVE Lives(j) /\ Kept(j)
  <2>1. Claimable(row[j]) /\ row[j].status = "queued" /\ ~row[j].cancelRequested
    BY <1>5 DEF ClaimReplyLost, Claimable, RowOf
  <2>2. \A f \in Execs : JobOf[f] = j => ~Holds(f)
    BY <2>1, Held
  <2>3. /\ row'[j] = ClaimRow(row[j])
        /\ exec'[e].pc = "idle"
        /\ \A f \in Execs : f # e => exec'[f] = exec[f]
    BY <1>0, <1>5 DEF ClaimReplyLost, Leave, IdleExec
  <2>4. \A f \in Execs : JobOf[f] = j => ~Holds(f)'
    BY <2>2, <2>3 DEF Holds, HoldingPc
  <2>5. /\ row'[j].status = "running" /\ row'[j].errors = row[j].errors
        /\ row'[j].cancelRequested = row[j].cancelRequested
    BY <1>0, <2>3, RowFields
  <2> QED BY <1>0, <2>1, <2>4, <2>5, LifeStart DEF Kept
<1>6. ASSUME NEW e \in Execs, RunRejected(e) PROVE Lives(j) /\ Kept(j)
  <2>1. row' = row /\ Holds(e)
    BY <1>6 DEF RunRejected, Holds, HoldingPc
  <2>2. /\ exec'[e].pc \in {"catchRead", "catchCancel"}
        /\ \A f \in Execs : f # e => exec'[f] = exec[f]
    BY <1>0, <1>6 DEF RunRejected, CatchPc, Exec
  <2>3. \A f \in Execs : Holds(f)' <=> Holds(f)
    BY <2>1, <2>2 DEF Holds, HoldingPc
  <2> QED BY <1>0, <2>1, <2>3, LifeSame DEF Kept
<1>7. ASSUME NEW e \in Execs, CompleteReplyLost(e), j # JobOf[e] PROVE Lives(j) /\ Kept(j)
  <2>1. OnlyBy(e)
    BY <1>0, <1>7 DEF OnlyBy, CompleteReplyLost, Goto
  <2> QED BY <1>7, <2>1, OthersLive
<1>8. ASSUME NEW e \in Execs, CompleteReplyLost(e), j = JobOf[e] PROVE Lives(j) /\ Kept(j)
  <2>1. row'[j] = Complete(row[j], exec[e].cancel)
    BY <1>0, <1>8 DEF CompleteReplyLost
  <2>2. /\ row'[j].status \in Terminal /\ row'[j].errors = row[j].errors
        /\ row'[j].cancelRequested \in BOOLEAN
    BY <1>0, <2>1, RowFields DEF Terminal
  <2>3. Holds(e) /\ row[j].status = "running"
    BY <1>8, Held DEF CompleteReplyLost, Holds, HoldingPc, CatchingPc
  <2> QED BY <1>0, <1>8, <2>2, <2>3, LifeSettle DEF Kept
<1>9. ASSUME NEW r \in Requests, SaveReplyLost(r) PROVE Lives(j) /\ Kept(j)
  <2>1. PICK i \in Jobs : row[i].status = "absent" /\ InsertRow(i, req[r].key)
    BY <1>9 DEF SaveReplyLost
  <2>2. \A f \in Execs : Holds(f)' <=> Holds(f)
    BY <1>9 DEF SaveReplyLost, Holds
  <2> QED BY <2>1, <2>2, InsertLives
<1>10. ASSUME UNCHANGED <<row, exec>> PROVE Lives(j) /\ Kept(j)
  BY <1>1, <1>10
<1> QED
  BY <1>2, <1>3, <1>4, <1>5, <1>6, <1>7, <1>8, <1>9, <1>10
     DEF FaultStep, RecoverRejected, CreateRejected, CancelRejected

LEMMA EveryJobLives ==
  ASSUME ~SlowRuns, LifeInv, [Next]_vars, NEW j \in Jobs
  PROVE  Lives(j) /\ Kept(j)
<1>0. /\ exec \in [Execs -> Exec] /\ row \in [Jobs -> Row] /\ row[j] \in Row
      /\ row[j].errors \in Nat /\ row[j].cancelRequested \in BOOLEAN
  BY DEF LifeInv, TypeOK, Row
<1>1. ASSUME row'[j].status = row[j].status, row'[j].cancelRequested = row[j].cancelRequested,
             row'[j].errors = row[j].errors, \A f \in Execs : Holds(f)' <=> Holds(f)
      PROVE  Lives(j) /\ Kept(j)
  BY <1>0, <1>1, LifeSame DEF Kept
<1>2. ASSUME UNCHANGED <<row, exec>> PROVE Lives(j) /\ Kept(j)
  BY <1>1, <1>2 DEF Holds
<1>3. ASSUME NEW r \in Requests, CreateSave(r) PROVE Lives(j) /\ Kept(j)
  <2>1. PICK i \in Jobs, e \in Execs :
          /\ row[i].status = "absent" /\ InsertRow(i, req[r].key)
          /\ exec[e].pc = "idle" /\ exec' = [exec EXCEPT ![e] = Scheduled(TRUE)]
    BY <1>3 DEF CreateSave
  <2>2. \A f \in Execs : Holds(f)' <=> Holds(f)
    BY <1>0, <2>1 DEF Holds, HoldingPc, Scheduled
  <2> QED BY <2>1, <2>2, InsertLives
<1>4. ASSUME NEW c \in Cancellers, CancelWrite(c) PROVE Lives(j) /\ Kept(j)
  <2>1. CASE cancelling[c] = j
    <3>1. row'[j] = [row[j] EXCEPT !.cancelRequested = TRUE] /\ exec' = exec
      BY <1>0, <1>4, <2>1 DEF CancelWrite
    <3>2. /\ row'[j].status = row[j].status /\ row'[j].errors = row[j].errors
          /\ row'[j].cancelRequested = TRUE
      BY <1>0, <3>1 DEF Row
    <3>3. row[j].status # "absent"
      BY <1>4, <2>1 DEF LifeInv, AskInv
    <3>4. Kept(j)
      BY <1>0, <3>2 DEF Kept
    <3>5. Lives(j)
      BY <3>1, <3>2, <3>3, LifeAsk, Zenon
    <3> QED BY <3>4, <3>5
  <2>2. CASE cancelling[c] # j
    BY <1>0, <1>1, <1>4, <2>2 DEF CancelWrite, Holds
  <2> QED BY <2>1, <2>2
<1>5. ASSUME NEW w \in Workers, RecoverUpdate(w) PROVE Lives(j) /\ Kept(j)
  <2>1. CASE Requeueable(row[j])
    <3>1. row'[j] = Requeue(row[j]) /\ row[j].status = "running" /\ row[j].claim # "fresh"
      BY <1>5, <2>1 DEF RecoverUpdate, Requeueable
    <3>2. \A e \in Execs : JobOf[e] = j => ~Holds(e)
      BY <3>1 DEF LifeInv, RunInv, ClaimInv, Entitled, RowOf
    <3>3. /\ row'[j].status = "queued" /\ row'[j].errors = row[j].errors
          /\ row'[j].cancelRequested = row[j].cancelRequested
      BY <1>0, <3>1, RowFields
    <3> QED BY <1>0, <3>1, <3>2, <3>3, LifeRequeue DEF Kept
  <2>2. CASE ~Requeueable(row[j])
    BY <1>1, <1>5, <2>2 DEF RecoverUpdate, Holds
  <2> QED BY <2>1, <2>2
<1>6. ASSUME NEW w \in Workers, RecoverFind(w) PROVE Lives(j) /\ Kept(j)
  <2>1. PICK S \in SUBSET Schedulable(w) :
          exec' = [e \in Execs |-> IF e \in S THEN Scheduled(FALSE) ELSE exec[e]]
    BY <1>6 DEF RecoverFind
  <2>2. \A f \in Execs : Holds(f)' <=> Holds(f)
    BY <2>1 DEF Holds, HoldingPc, Scheduled, Schedulable
  <2> QED BY <1>1, <1>6, <2>2 DEF RecoverFind
<1>7. ASSUME NEW i \in Jobs, ClaimExpires(i) PROVE Lives(j) /\ Kept(j)
  <2>1. /\ row'[j].status = row[j].status /\ row'[j].errors = row[j].errors
        /\ row'[j].cancelRequested = row[j].cancelRequested
    BY <1>0, <1>7 DEF ClaimExpires, Row
  <2> QED BY <1>1, <1>7, <2>1 DEF ClaimExpires, Holds
<1>8. CASE \E r \in Requests : CreateStep(r)
  BY <1>2, <1>3, <1>8 DEF CreateStep, CreateBegin, CreateLookup, CreateConflict, CreateRefind
<1> QED
  BY <1>2, <1>4, <1>5, <1>6, <1>7, <1>8, OwedLives, RunnerLives, FaultLives
     DEF Next, CancelRead, vars

-----------------------------------------------------------------------------
(* Only the execution that holds a job writes its errors. *)
LEMMA ErrorWrites ==
  ASSUME TypeOK, [Next]_vars, NEW j \in Jobs, row'[j].errors # row[j].errors
  PROVE  \/ \E e \in Execs : JobOf[e] = j /\ (FailWrite(e) \/ AddError(e))
         \/ row[j].status = "absent" /\ row'[j].status = "queued"
<1>0. /\ row \in [Jobs -> Row] /\ row[j] \in Row
      /\ \A e \in Execs : JobOf[e] \in Jobs /\ exec[e].cancel \in BOOLEAN
  BY DEF TypeOK, Exec
<1>1. ASSUME NEW e \in Execs, OwedStep(e) \/ RunnerStep(e)
      PROVE  JobOf[e] = j /\ (FailWrite(e) \/ AddError(e))
  <2>1. CASE JobOf[e] = j
    <3>1. row' # row
      OBVIOUS
    <3>2. ~(ClaimCancel(e) \/ CatchCancel(e))
      <4>1. row'[j] # MarkCancelled(row[j])
        BY <1>0, RowFields
      <4> QED BY <1>0, <2>1, <4>1 DEF ClaimCancel, CatchCancel
    <3>3. ~ClaimUpdate(e)
      <4>1. row'[j] # ClaimRow(row[j])
        BY <1>0, RowFields
      <4> QED BY <1>0, <2>1, <3>1, <4>1 DEF ClaimUpdate
    <3>4. ~CompleteWrite(e)
      <4>1. row'[j] # Complete(row[j], exec[e].cancel)
        BY <1>0, RowFields
      <4> QED BY <1>0, <2>1, <4>1 DEF CompleteWrite
    <3>5. ~SetProgress(e)
      <4>1. row'[j] # Refresh(row[j])
        BY <1>0, RowFields
      <4> QED BY <1>0, <2>1, <4>1 DEF SetProgress
    <3> QED
      BY <1>1, <2>1, <3>1, <3>2, <3>3, <3>4, <3>5
         DEF OwedStep, RunnerStep, ClaimRead, ClaimFetch, CompleteRead, CatchRead,
             ThrowIfCancellationRequested, RunnerReturns, RunnerThrows
  <2>2. CASE JobOf[e] # j
    BY <1>0, <1>1, <2>2
       DEF OwedStep, RunnerStep, ClaimRead, ClaimCancel, ClaimUpdate, ClaimFetch, FailWrite,
           CompleteRead, CompleteWrite, CatchRead, CatchCancel, SetProgress, AddError,
           ThrowIfCancellationRequested, RunnerReturns, RunnerThrows
  <2> QED BY <2>1, <2>2
<1>2. ASSUME NEW r \in Requests, CreateSave(r) \/ SaveReplyLost(r)
      PROVE  row[j].status = "absent" /\ row'[j].status = "queued"
  <2>1. PICK i \in Jobs : row[i].status = "absent" /\ InsertRow(i, req[r].key)
    BY <1>2 DEF CreateSave, SaveReplyLost
  <2> QED BY <1>0, <2>1 DEF InsertRow
<1>3. ~(\E c \in Cancellers : CancelWrite(c))
  <2>1. row'[j] # [row[j] EXCEPT !.cancelRequested = TRUE]
    BY <1>0 DEF Row
  <2> QED BY <1>0, <2>1 DEF CancelWrite
<1>4. ~(\E w \in Workers : RecoverUpdate(w))
  <2>1. row'[j] # Requeue(row[j])
    BY <1>0, RowFields
  <2> QED BY <1>0, <2>1 DEF RecoverUpdate
<1>5. ~(\E i \in Jobs : ClaimExpires(i))
  <2>1. row'[j] # [row[j] EXCEPT !.claim = "stale"]
    BY <1>0 DEF Row
  <2> QED BY <1>0, <2>1 DEF ClaimExpires
<1>6. ~(\E e \in Execs : ClaimReplyLost(e) \/ CompleteReplyLost(e))
  <2>1. row'[j] # ClaimRow(row[j])
    BY <1>0, RowFields
  <2>2. \A e \in Execs : row'[j] # Complete(row[j], exec[e].cancel)
    BY <1>0, RowFields
  <2> QED BY <1>0, <2>1, <2>2 DEF ClaimReplyLost, CompleteReplyLost
<1>7. CASE \E r \in Requests : CreateStep(r)
  BY <1>2, <1>7 DEF CreateStep, CreateBegin, CreateLookup, CreateConflict, CreateRefind
<1>8. CASE FaultStep
  BY <1>2, <1>6, <1>8 DEF FaultStep, Crash, RecoverRejected, ClaimRejected, RunRejected,
                          CreateRejected, CancelRejected
<1> QED
  BY <1>1, <1>3, <1>4, <1>5, <1>7, <1>8 DEF Next, CancelRead, RecoverFind, vars

(* An execution's list is the one it fetched and what it added. *)
LEMMA ContextKept ==
  ASSUME LifeInv, [Next]_vars, NEW e \in Execs, Holds(e)', exec'[e].pc # "claimFetch"
  PROVE  \/ ClaimFetch(e)
         \/ /\ Holds(e) /\ exec[e].pc # "claimFetch"
            /\ exec'[e].errors >= exec[e].errors
<1>0. exec \in [Execs -> Exec] /\ exec[e] \in Exec /\ exec[e].errors \in Nat
  BY DEF LifeInv, TypeOK, Exec
<1>1. CASE exec'[e] = exec[e]
  BY <1>0, <1>1 DEF Holds
<1>2. ASSUME NEW f \in Execs, OwedStep(f) \/ RunnerStep(f), f # e PROVE exec'[e] = exec[e]
  BY <1>0, <1>2
     DEF OwedStep, RunnerStep, ClaimRead, ClaimCancel, ClaimUpdate, ClaimFetch, FailWrite,
         CompleteRead, CompleteWrite, CatchRead, CatchCancel, SetProgress, AddError,
         ThrowIfCancellationRequested, RunnerReturns, RunnerThrows, Goto, Leave
<1>3. ASSUME OwedStep(e)
      PROVE  \/ ClaimFetch(e)
             \/ /\ Holds(e) /\ exec[e].pc # "claimFetch"
                /\ exec'[e].errors >= exec[e].errors
  <2>1. CASE ClaimRead(e)
    BY <1>0, <2>1 DEF ClaimRead, Goto, Holds, HoldingPc, Exec
  <2>2. CASE ClaimCancel(e) \/ FailWrite(e) \/ CompleteWrite(e) \/ CatchCancel(e)
    BY <1>0, <2>2 DEF ClaimCancel, FailWrite, CompleteWrite, CatchCancel, Leave, IdleExec,
                      Holds, HoldingPc
  <2>3. CASE ClaimUpdate(e)
    BY <1>0, <2>3 DEF ClaimUpdate, Goto, Leave, IdleExec, Holds, HoldingPc, Exec
  <2>4. CASE CompleteRead(e) \/ CatchRead(e)
    BY <1>0, <2>4 DEF CompleteRead, CatchRead, Goto, Holds, HoldingPc, Exec
  <2> QED BY <1>3, <2>1, <2>2, <2>3, <2>4 DEF OwedStep
<1>4. ASSUME RunnerStep(e)
      PROVE  Holds(e) /\ exec[e].pc # "claimFetch" /\ exec'[e].errors >= exec[e].errors
  <2>1. exec[e].pc = "running"
    BY <1>4 DEF RunnerStep, SetProgress, AddError, ThrowIfCancellationRequested,
                RunnerReturns, RunnerThrows, Runs
  <2>2. exec'[e].errors \in {exec[e].errors, exec[e].errors + 1}
    <3>1. CASE SetProgress(e)
      BY <3>1 DEF SetProgress
    <3>2. CASE AddError(e)
      BY <1>0, <3>2 DEF AddError, Exec
    <3>3. CASE ThrowIfCancellationRequested(e)
      BY <1>0, <3>3 DEF ThrowIfCancellationRequested, Exec
    <3>4. CASE RunnerReturns(e) \/ RunnerThrows(e)
      BY <1>0, <3>4 DEF RunnerReturns, RunnerThrows, Goto, Exec
    <3> QED BY <1>4, <3>1, <3>2, <3>3, <3>4 DEF RunnerStep
  <2> QED BY <1>0, <2>1, <2>2 DEF Holds, HoldingPc
<1>5. CASE \E r \in Requests : CreateStep(r)
  <2>1. \A f \in Execs : exec' = [exec EXCEPT ![f] = Scheduled(TRUE)] => exec'[e] = exec[e]
    BY <1>0 DEF Scheduled, Holds, HoldingPc
  <2> QED
    BY <1>1, <1>5, <2>1 DEF CreateStep, CreateBegin, CreateLookup, CreateSave, CreateConflict,
                            CreateRefind
<1>6. ASSUME NEW w \in Workers, RecoverFind(w) PROVE exec'[e] = exec[e]
  <2>1. PICK S \in SUBSET Schedulable(w) :
          exec' = [f \in Execs |-> IF f \in S THEN Scheduled(FALSE) ELSE exec[f]]
    BY <1>6 DEF RecoverFind
  <2> QED BY <2>1 DEF Scheduled, Holds, HoldingPc
<1>7. CASE FaultStep
  <2>1. ASSUME NEW w \in Workers, Crash(w) PROVE exec'[e] = exec[e]
    BY <2>1 DEF Crash, IdleExec, Holds, HoldingPc
  <2>2. ASSUME NEW f \in Execs, ClaimRejected(f) \/ ClaimReplyLost(f) PROVE exec'[e] = exec[e]
    BY <1>0, <2>2 DEF ClaimRejected, ClaimReplyLost, Leave, IdleExec, Holds, HoldingPc
  <2>3. ASSUME NEW f \in Execs, RunRejected(f) \/ CompleteReplyLost(f), f # e
        PROVE  exec'[e] = exec[e]
    BY <1>0, <2>3 DEF RunRejected, CompleteReplyLost, Goto
  <2>4. ASSUME RunRejected(e) \/ CompleteReplyLost(e)
        PROVE  Holds(e) /\ exec[e].pc # "claimFetch" /\ exec'[e].errors >= exec[e].errors
    <3>1. Holds(e) /\ exec[e].pc # "claimFetch"
      BY <2>4 DEF RunRejected, CompleteReplyLost, Holds, HoldingPc
    <3>2. exec'[e].errors \in {exec[e].errors, exec[e].errors + 1}
      BY <1>0, <2>4 DEF RunRejected, CompleteReplyLost, Goto, Exec
    <3> QED BY <1>0, <3>1, <3>2
  <2> QED
    BY <1>1, <1>7, <2>1, <2>2, <2>3, <2>4
       DEF FaultStep, RecoverRejected, CreateRejected, SaveReplyLost, CancelRejected
<1> QED
  BY <1>1, <1>2, <1>3, <1>4, <1>5, <1>6, <1>7
     DEF Next, CancelRead, CancelWrite, RecoverUpdate, ClaimExpires, vars

LEMMA ListInvStep ==
  ASSUME LifeInv, [Next]_vars, TypeOK'
  PROVE  ListInv'
<1>0. /\ exec \in [Execs -> Exec] /\ row \in [Jobs -> Row]
      /\ \A j \in Jobs : row[j] \in Row /\ row[j].errors \in Nat
      /\ \A e \in Execs : JobOf[e] \in Jobs /\ exec[e] \in Exec /\ exec[e].errors \in Nat
  BY DEF LifeInv, TypeOK, Exec, Row
<1>1. ASSUME NEW e \in Execs, Holds(e)', exec'[e].pc # "claimFetch"
      PROVE  exec'[e].errors >= row'[JobOf[e]].errors
  <2>1. CASE ClaimFetch(e)
    BY <1>0, <2>1 DEF ClaimFetch, RowOf
  <2>2. CASE ~ClaimFetch(e)
    <3>1. /\ Holds(e) /\ exec[e].pc # "claimFetch"
          /\ exec'[e].errors >= exec[e].errors
      BY <1>1, <2>2, ContextKept
    <3>2. exec[e].errors >= row[JobOf[e]].errors
      BY <3>1, Held
    <3>3. CASE row'[JobOf[e]].errors = row[JobOf[e]].errors
      <4>1. exec'[e].errors \in Nat
        BY DEF TypeOK, Exec
      <4> QED BY <1>0, <3>1, <3>2, <3>3, <4>1
    <3>4. CASE row'[JobOf[e]].errors # row[JobOf[e]].errors
      <4>1. PICK f \in Execs : JobOf[f] = JobOf[e] /\ (FailWrite(f) \/ AddError(f))
        BY <1>0, <3>1, <3>4, ErrorWrites, Held DEF LifeInv
      <4>2. f = e
        BY <3>1, <4>1, Held DEF FailWrite, AddError, Runs, Holds, HoldingPc
      <4>3. ~FailWrite(e)
        BY <1>0, <1>1 DEF FailWrite, Leave, IdleExec, Holds, HoldingPc
      <4>4. /\ row'[JobOf[e]].errors = exec[e].errors + 1
            /\ exec'[e].errors = exec[e].errors + 1
        <5>1. AddError(e)
          BY <4>1, <4>2, <4>3
        <5>2. row'[JobOf[e]] = [Refresh(row[JobOf[e]]) EXCEPT !.errors = exec[e].errors + 1]
          BY <1>0, <5>1 DEF AddError
        <5>3. row'[JobOf[e]].errors = exec[e].errors + 1
          BY <1>0, <5>2 DEF Refresh, Row
        <5> QED BY <1>0, <5>1, <5>3 DEF AddError, Exec
      <4> QED BY <1>0, <4>4
    <3> QED BY <3>3, <3>4
  <2> QED BY <2>1, <2>2
<1>2. ASSUME NEW j \in Jobs, row'[j].status = "absent" PROVE row'[j].errors = 0
  <2>1. row[j].status = "absent" /\ row[j].errors = 0
    BY <1>2, RowsStay DEF LifeInv, ListInv
  <2>2. \A e \in Execs : JobOf[e] = j => ~Holds(e)
    BY <2>1, Held
  <2>3. \A e \in Execs : JobOf[e] = j => ~FailWrite(e) /\ ~AddError(e)
    BY <2>2 DEF FailWrite, AddError, Runs, Holds, HoldingPc
  <2> QED BY <1>2, <2>1, <2>3, ErrorWrites DEF LifeInv
<1> QED BY <1>1, <1>2 DEF ListInv, ErrorsInv, RowOf

-----------------------------------------------------------------------------
LEMMA LifeInvariance == ~SlowRuns => (Spec => []LifeInv)
<1> SUFFICES ASSUME ~SlowRuns PROVE Spec => []LifeInv
  OBVIOUS
<1>1. Init => RunInv /\ AskInv /\ ListInv
  BY DEF Init, RunInv, ClaimInv, CancelInv, CancelledWasRequested, AskInv, ListInv, ErrorsInv,
         Holds, HoldingPc, RowOf, AbsentRow, IdleExec
<1>2. TypeOK /\ TypeOK' /\ (RunInv /\ AskInv /\ ListInv) /\ [Next]_vars =>
        RunInv' /\ AskInv' /\ ListInv'
  BY RunInvStep, AskInvStep, ListInvStep DEF LifeInv
<1> QED
  BY <1>1, <1>2, TypeCorrect, PTL DEF Spec, LifeInv

(* Whoever cancels a job saw a request that still stands: the copies of    *)
(* the flag in runPersistedJob and claimPersistedJob are never ahead.      *)
THEOREM RequestsStand == ~SlowRuns => (Spec => []CancelInv)
<1> SUFFICES ASSUME ~SlowRuns PROVE Spec => []CancelInv
  OBVIOUS
<1>1. LifeInv => CancelInv
  BY DEF LifeInv, RunInv
<1> QED BY <1>1, LifeInvariance, PTL

(* The execution that holds a job knows every error recorded for it        *)
(* (createPersistedContext, whose writes replace the list).                *)
THEOREM ErrorsKnown == ~SlowRuns => (Spec => []ErrorsInv)
<1> SUFFICES ASSUME ~SlowRuns PROVE Spec => []ErrorsInv
  OBVIOUS
<1>1. LifeInv => ErrorsInv
  BY DEF LifeInv, ListInv
<1> QED BY <1>1, LifeInvariance, PTL

(* Recorded errors are never dropped, by failPersistedJob or addError. *)
THEOREM ErrorsStay == ~SlowRuns => (Spec => ErrorsKept)
<1> SUFFICES ASSUME ~SlowRuns PROVE Spec => ErrorsKept
  OBVIOUS
<1>1. LifeInv /\ [Next]_vars => [\A j \in Jobs : row'[j].errors >= row[j].errors]_vars
  BY EveryJobLives DEF Kept
<1> QED BY <1>1, LifeInvariance, PTL DEF Spec, ErrorsKept

(* "cancelled" and "failed" are final, whatever crashes and lost replies   *)
(* the settling statements meet.                                           *)
THEOREM OutcomeStays == ~SlowRuns => (Spec => OutcomeFinal)
<1> SUFFICES ASSUME ~SlowRuns PROVE Spec => OutcomeFinal
  OBVIOUS
<1>1. LifeInv /\ [Next]_vars =>
        [\A j \in Jobs : row[j].status \in {"cancelled", "failed"} =>
           row'[j].status = row[j].status]_vars
  BY EveryJobLives DEF Kept
<1> QED BY <1>1, LifeInvariance, PTL DEF Spec, OutcomeFinal

(* Table, executions, requests and recovery together are the lifecycle an  *)
(* operator relies on, for any number of processes and jobs.               *)
THEOREM RefinesLifecycle == ~SlowRuns => (Spec => ImplementsLifecycle)
<1> SUFFICES ASSUME ~SlowRuns PROVE Spec => ImplementsLifecycle
  OBVIOUS
<1>1. Init => Life!Init
  <2> SUFFICES ASSUME Init PROVE Life!Init
    OBVIOUS
  <2>1. \A j \in Jobs : /\ PhaseOf(row[j].status) = "absent"
                        /\ row[j].cancelRequested = FALSE
                        /\ row[j].status # "running"
    BY DEF Init, AbsentRow, PhaseOf, Terminal
  <2> QED BY <2>1 DEF Life!Init, LifePhase, LifeAsked, LifeRunner
<1>2. LifeInv /\ [Next]_vars => [Life!Next]_(Life!lifeVars)
  <2> SUFFICES ASSUME LifeInv, [Next]_vars PROVE Life!Next
    OBVIOUS
  <2>1. \A j \in Jobs : Life!Step(j) \/ Life!Same(j)
    BY EveryJobLives DEF Lives
  <2>2. /\ LifePhase' = [j \in Jobs |-> LifePhase'[j]]
        /\ LifeAsked' = [j \in Jobs |-> LifeAsked'[j]]
        /\ LifeRunner' = [j \in Jobs |-> LifeRunner'[j]]
    BY DEF LifePhase, LifeAsked, LifeRunner
  <2> QED BY <2>1, <2>2 DEF Life!Next
<1> QED
  BY <1>1, <1>2, LifeInvariance, PTL DEF Spec, ImplementsLifecycle, Life!Spec

=============================================================================
