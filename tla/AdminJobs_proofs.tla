--------------------------- MODULE AdminJobs_proofs ---------------------------
(***************************************************************************)
(* Theorems about AdminJobs for any number of processes, jobs, requests    *)
(* and executions.                                                         *)
(***************************************************************************)
EXTENDS AdminJobs, TLAPS

USE ConstantsAssumption

(* The writes to a row keep it a row. *)
LEMMA RowWrites ==
  /\ \A r \in Row : /\ MarkCancelled(r) \in Row
                    /\ Refresh(r) \in Row
                    /\ ClaimRow(r) \in Row
                    /\ Requeue(r) \in Row
                    /\ [r EXCEPT !.cancelRequested = TRUE] \in Row
                    /\ [r EXCEPT !.claim = "stale"] \in Row
  /\ \A r \in Row, n \in Nat : /\ MarkFailed(r, n) \in Row
                              /\ [Refresh(r) EXCEPT !.errors = n] \in Row
  /\ \A r \in Row, b \in BOOLEAN : Complete(r, b) \in Row
BY DEF Row, Status, Terminal, Claim, MarkCancelled, MarkFailed, Refresh, ClaimRow,
       Complete, Requeue

(* So do the updates of an execution's context. *)
LEMMA ExecWrites ==
  /\ \A x \in Exec, pc \in ExecPc : [x EXCEPT !.pc = pc] \in Exec
  /\ \A x \in Exec, n \in Nat : [x EXCEPT !.errors = n] \in Exec
BY DEF Exec, ExecPc

LEMMA Idle ==
  /\ AbsentRow \in Row /\ IdleExec \in Exec /\ IdleReq \in Req
  /\ Scheduled(TRUE) \in Exec /\ Scheduled(FALSE) \in Exec
BY DEF Row, Status, Claim, AbsentRow, Exec, ExecPc, IdleExec, Scheduled, Req, ReqPc,
       IdleReq

LEMMA InsertType ==
  ASSUME TypeOK, NEW j \in Jobs, NEW r \in Requests, InsertRow(j, req[r].key)
  PROVE  row' \in [Jobs -> Row]
<1>1. req[r].key \in Keys \cup {NoKey}
  BY DEF TypeOK, Req
<1> QED BY <1>1 DEF TypeOK, InsertRow, Row, Status, Claim

(* Every variable keeps its type. *)
THEOREM TypeCorrect == Spec => []TypeOK
<1>1. Init => TypeOK
  BY Idle DEF Init, TypeOK
<1>2. TypeOK /\ [Next]_vars => TypeOK'
  <2> SUFFICES ASSUME TypeOK, [Next]_vars PROVE TypeOK'
    OBVIOUS
  <2> USE DEF TypeOK
  <2>1. ASSUME NEW e \in Execs, OwedStep(e) \/ RunnerStep(e) PROVE TypeOK'
    <3> DEFINE j == JobOf[e]
    <3>0. /\ j \in Jobs /\ row[j] \in Row /\ exec[e] \in Exec
          /\ exec[e].errors \in Nat /\ exec[e].errors + 1 \in Nat
          /\ exec[e].cancel \in BOOLEAN /\ RowOf(e) \in Row
          /\ RowOf(e).cancelRequested \in BOOLEAN /\ RowOf(e).errors \in Nat
          /\ (RowOf(e).cancelRequested \/ exec[e].cancel) \in BOOLEAN
      BY DEF Exec, Row, RowOf
    <3>1. CASE ClaimRead(e)
      BY <3>0, <3>1, ExecWrites DEF ClaimRead, Goto, ExecPc
    <3>2. CASE ClaimCancel(e)
      BY <3>0, <3>2, RowWrites, Idle DEF ClaimCancel, Leave
    <3>3. CASE ClaimUpdate(e)
      <4>1. CASE Claimable(RowOf(e))
        <5>1. row' \in [Jobs -> Row]
          BY <3>0, <3>3, <4>1, RowWrites DEF ClaimUpdate
        <5>2. exec' \in [Execs -> Exec]
          BY <3>0, <3>3, <4>1, ExecWrites DEF ClaimUpdate, Goto, ExecPc
        <5> QED BY <3>3, <5>1, <5>2 DEF ClaimUpdate
      <4>2. CASE ~Claimable(RowOf(e))
        BY <3>0, <3>3, <4>2, Idle DEF ClaimUpdate, Leave
      <4> QED BY <4>1, <4>2
    <3>4. CASE ClaimFetch(e)
      <4>1. exec' \in [Execs -> Exec]
        BY <3>0, <3>4 DEF ClaimFetch, Exec, ExecPc
      <4> QED BY <3>4, <4>1 DEF ClaimFetch
    <3>5. CASE FailWrite(e)
      BY <3>0, <3>5, RowWrites, Idle DEF FailWrite, Leave
    <3>6. CASE CompleteRead(e)
      <4>1. exec' \in [Execs -> Exec]
        BY <3>0, <3>6 DEF CompleteRead, Exec, ExecPc
      <4> QED BY <3>6, <4>1 DEF CompleteRead
    <3>7. CASE CompleteWrite(e)
      BY <3>0, <3>7, RowWrites, Idle DEF CompleteWrite, Leave
    <3>8. CASE CatchRead(e)
      BY <3>0, <3>8, ExecWrites DEF CatchRead, Goto, ExecPc
    <3>9. CASE CatchCancel(e)
      BY <3>0, <3>9, RowWrites, Idle DEF CatchCancel, Leave
    <3>10. CASE SetProgress(e)
      BY <3>0, <3>10, RowWrites DEF SetProgress
    <3>11. CASE AddError(e)
      BY <3>0, <3>11, RowWrites, ExecWrites DEF AddError
    <3>12. CASE ThrowIfCancellationRequested(e)
      <4>1. exec' \in [Execs -> Exec]
        BY <3>0, <3>12 DEF ThrowIfCancellationRequested, CatchPc, Exec, ExecPc
      <4> QED BY <3>12, <4>1 DEF ThrowIfCancellationRequested
    <3>13. CASE RunnerReturns(e)
      BY <3>0, <3>13, ExecWrites DEF RunnerReturns, Goto, ExecPc
    <3>14. CASE RunnerThrows(e)
      BY <3>0, <3>14, ExecWrites DEF RunnerThrows, Goto, CatchPc, ExecPc
    <3> QED
      BY <2>1, <3>1, <3>2, <3>3, <3>4, <3>5, <3>6, <3>7, <3>8, <3>9, <3>10, <3>11,
         <3>12, <3>13, <3>14 DEF OwedStep, RunnerStep
  <2>2. ASSUME NEW r \in Requests, CreateStep(r) PROVE TypeOK'
    <3>1. ASSUME NEW k \in Keys \cup {NoKey}, CreateBegin(r, k) PROVE TypeOK'
      BY <3>1 DEF CreateBegin, Req, ReqPc
    <3>2. CASE CreateLookup(r)
      BY <3>2 DEF CreateLookup, Existing, Answer, Req, ReqPc
    <3>3. CASE CreateSave(r)
      <4>1. PICK j \in Jobs, e \in Execs :
              /\ InsertRow(j, req[r].key)
              /\ Answer(r, j)
              /\ exec' = [exec EXCEPT ![e] = Scheduled(TRUE)]
        BY <3>3 DEF CreateSave
      <4>2. row' \in [Jobs -> Row]
        BY <4>1, InsertType
      <4>3. req' \in [Requests -> Req]
        BY <4>1 DEF Answer, Req, ReqPc
      <4> QED BY <3>3, <4>1, <4>2, <4>3, Idle DEF CreateSave
    <3>5. CASE CreateConflict(r)
      BY <3>5 DEF CreateConflict, Req, ReqPc
    <3>4. CASE CreateRefind(r)
      BY <3>4 DEF CreateRefind, Existing, Answer, Req, ReqPc
    <3> QED BY <2>2, <3>1, <3>2, <3>3, <3>4, <3>5 DEF CreateStep
  <2>3. ASSUME NEW c \in Cancellers, CancelWrite(c) \/ \E j \in Jobs : CancelRead(c, j)
        PROVE TypeOK'
    <3>1. CASE CancelWrite(c)
      BY <3>1, RowWrites DEF CancelWrite
    <3>2. ASSUME NEW j \in Jobs, CancelRead(c, j) PROVE TypeOK'
      BY <3>2 DEF CancelRead
    <3> QED BY <2>3, <3>1, <3>2
  <2>4. ASSUME NEW w \in Workers, RecoverUpdate(w) PROVE TypeOK'
    BY <2>4, RowWrites DEF RecoverUpdate
  <2>5. ASSUME NEW w \in Workers, RecoverFind(w) PROVE TypeOK'
    <3>1. PICK S \in SUBSET Schedulable(w) :
            exec' = [e \in Execs |-> IF e \in S THEN Scheduled(FALSE) ELSE exec[e]]
      BY <2>5 DEF RecoverFind
    <3>2. exec' \in [Execs -> Exec]
      BY <3>1, Idle
    <3> QED BY <2>5, <3>2 DEF RecoverFind
  <2>6. ASSUME NEW j \in Jobs, ClaimExpires(j) PROVE TypeOK'
    BY <2>6, RowWrites DEF ClaimExpires
  <2>7. CASE FaultStep
    <3>1. ASSUME NEW w \in Workers, Crash(w) PROVE TypeOK'
      BY <3>1, Idle DEF Crash, Fault
    <3>2. ASSUME NEW w \in Workers, RecoverRejected(w) PROVE TypeOK'
      BY <3>2 DEF RecoverRejected, Fault
    <3>3. ASSUME NEW e \in Execs, ClaimRejected(e) PROVE TypeOK'
      BY <3>3, Idle DEF ClaimRejected, Fault, Leave
    <3>4. ASSUME NEW e \in Execs, ClaimReplyLost(e) PROVE TypeOK'
      <4>1. row' \in [Jobs -> Row]
        BY <3>4, RowWrites DEF ClaimReplyLost
      <4> QED BY <3>4, <4>1, Idle DEF ClaimReplyLost, Fault, Leave
    <3>5. ASSUME NEW e \in Execs, RunRejected(e) PROVE TypeOK'
      <4>1. PICK added \in {0, 1} :
              exec' = [exec EXCEPT ![e].pc = CatchPc(exec[e].cancel),
                                   ![e].errors = @ + added]
        BY <3>5 DEF RunRejected
      <4>2. exec[e] \in Exec /\ exec[e].errors + added \in Nat
        BY DEF Exec
      <4>3. exec' \in [Execs -> Exec]
        BY <4>1, <4>2 DEF CatchPc, Exec, ExecPc
      <4> QED BY <3>5, <4>3 DEF RunRejected, Fault
    <3>6. ASSUME NEW e \in Execs, CompleteReplyLost(e) PROVE TypeOK'
      <4>1. exec[e] \in Exec /\ exec[e].cancel \in BOOLEAN /\ JobOf[e] \in Jobs
        BY DEF Exec
      <4>2. row' \in [Jobs -> Row]
        BY <3>6, <4>1, RowWrites DEF CompleteReplyLost
      <4>3. exec' \in [Execs -> Exec]
        BY <3>6, <4>1, ExecWrites DEF CompleteReplyLost, Goto, CatchPc, ExecPc
      <4> QED BY <3>6, <4>2, <4>3 DEF CompleteReplyLost, Fault
    <3>7. ASSUME NEW r \in Requests, CreateRejected(r) PROVE TypeOK'
      BY <3>7, Idle DEF CreateRejected, Fault
    <3>8. ASSUME NEW r \in Requests, SaveReplyLost(r) PROVE TypeOK'
      <4>1. row' \in [Jobs -> Row]
        BY <3>8, InsertType DEF SaveReplyLost
      <4> QED BY <3>8, <4>1, Idle DEF SaveReplyLost, Fault
    <3>9. ASSUME NEW c \in Cancellers, CancelRejected(c) PROVE TypeOK'
      BY <3>9 DEF CancelRejected, Fault
    <3> QED BY <2>7, <3>1, <3>2, <3>3, <3>4, <3>5, <3>6, <3>7, <3>8, <3>9 DEF FaultStep
  <2>8. CASE UNCHANGED vars
    BY <2>8 DEF vars
  <2> QED
    BY <2>1, <2>2, <2>3, <2>4, <2>5, <2>6, <2>7, <2>8 DEF Next
<1> QED
  BY <1>1, <1>2, PTL DEF Spec

-----------------------------------------------------------------------------
(* What the writes do to the fields the invariants speak of. *)
LEMMA RowFields ==
  /\ \A r \in Row :
       /\ MarkCancelled(r).status = "cancelled"
       /\ MarkCancelled(r).cancelRequested = r.cancelRequested
       /\ MarkCancelled(r).errors = r.errors
       /\ Refresh(r).status = r.status
       /\ Refresh(r).claim = "fresh"
       /\ Refresh(r).cancelRequested = r.cancelRequested
       /\ Refresh(r).errors = r.errors
       /\ ClaimRow(r).status = "running"
       /\ ClaimRow(r).claim = "fresh"
       /\ ClaimRow(r).cancelRequested = r.cancelRequested
       /\ ClaimRow(r).errors = r.errors
       /\ Requeue(r).status = "queued"
       /\ Requeue(r).cancelRequested = r.cancelRequested
       /\ Requeue(r).errors = r.errors
  /\ \A r \in Row, n \in Nat :
       /\ MarkFailed(r, n).status = "failed"
       /\ MarkFailed(r, n).cancelRequested = r.cancelRequested
       /\ MarkFailed(r, n).errors = n
  /\ \A r \in Row, b \in BOOLEAN :
       /\ Complete(r, b).status = IF b THEN "cancelled" ELSE "succeeded"
       /\ Complete(r, b).cancelRequested = b
       /\ Complete(r, b).claim = r.claim
       /\ Complete(r, b).errors = r.errors
BY DEF Row, MarkCancelled, MarkFailed, Refresh, ClaimRow, Complete, Requeue

(* An execution between its claim and the write that settles its row has   *)
(* the row for itself, still running under a lease no recovery will take,  *)
(* except in the catch block after a completion whose reply was lost.      *)
CatchingPc == {"catchRead", "catchCancel", "failWrite"}

Entitled(e) ==
  \/ RowOf(e).status = "running" /\ RowOf(e).claim = "fresh"
  \/ exec[e].pc \in CatchingPc /\ RowOf(e).status = "succeeded"
  \/ exec[e].pc = "catchCancel" /\ RowOf(e).status = "cancelled"

ClaimInv ==
  /\ \A e, f \in Execs : Holds(e) /\ Holds(f) /\ JobOf[e] = JobOf[f] => e = f
  /\ \A e \in Execs : Holds(e) => Entitled(e)

(* An execution that means to cancel saw a request that still stands,      *)
(* since only the execution that holds a job can withdraw one.             *)
CancelInv ==
  /\ CancelledWasRequested
  /\ \A e \in Execs : exec[e].cancel => Holds(e) /\ RowOf(e).cancelRequested
  /\ \A e \in Execs : exec[e].pc = "catchCancel" => RowOf(e).cancelRequested
  /\ \A e \in Execs : exec[e].pc = "claimCancel" =>
       RowOf(e).cancelRequested /\ RowOf(e).status \in {"queued", "cancelled"}

(* While leases outlast runs, what holds of the executions that hold a job *)
(* and of those that mean to cancel it is kept by every step.              *)
RunInv == ClaimInv /\ CancelInv

LEMMA RunInvStep ==
  ASSUME ~SlowRuns, TypeOK, RunInv, [Next]_vars
  PROVE  RunInv'
<1> USE DEF RunInv, ClaimInv, CancelInv, CancelledWasRequested, Entitled, Holds,
            HoldingPc, CatchingPc, RowOf
<1>0. /\ \A e \in Execs : JobOf[e] \in Jobs /\ exec[e].cancel \in BOOLEAN
                          /\ exec[e].errors + 1 \in Nat
      /\ \A j \in Jobs : row[j] \in Row
  BY DEF TypeOK, Exec
<1>1. ASSUME NEW e \in Execs, OwedStep(e) PROVE RunInv'
  <2>1. CASE ClaimRead(e)
    BY <1>0, <2>1 DEF ClaimRead, Goto, TypeOK, Exec
  <2>2. CASE ClaimCancel(e)
    BY <1>0, <2>2, RowFields DEF ClaimCancel, Leave, IdleExec, TypeOK
  <2>3. CASE ClaimUpdate(e)
    <3>1. CASE Claimable(RowOf(e))
      <4>1. \A f \in Execs : JobOf[f] = JobOf[e] => ~Holds(f) /\ exec[f].pc # "claimCancel"
        BY <3>1 DEF Claimable
      <4>2. /\ row' = [row EXCEPT ![JobOf[e]] = ClaimRow(row[JobOf[e]])]
            /\ exec' = [exec EXCEPT ![e].pc = "claimFetch"]
        BY <2>3, <3>1 DEF ClaimUpdate, Goto
      <4>3. /\ exec'[e].pc = "claimFetch"
            /\ exec'[e].cancel = exec[e].cancel
            /\ \A f \in Execs : f # e => exec'[f] = exec[f]
        BY <1>0, <4>2 DEF TypeOK, Exec
      <4>4. ~exec[e].cancel
        BY <2>3 DEF ClaimUpdate
      <4> QED
        BY <1>0, <4>1, <4>2, <4>3, <4>4, RowFields DEF TypeOK
    <3>2. CASE ~Claimable(RowOf(e))
      <4>1. row' = row /\ exec' = [exec EXCEPT ![e] = IdleExec]
        BY <2>3, <3>2 DEF ClaimUpdate, Leave
      <4> QED
        BY <1>0, <4>1 DEF IdleExec, TypeOK
    <3> QED BY <3>1, <3>2
  <2>4. CASE ClaimFetch(e)
    BY <1>0, <2>4 DEF ClaimFetch, TypeOK
  <2>5. CASE FailWrite(e)
    <3>1. /\ \A f \in Execs : JobOf[f] = JobOf[e] /\ f # e => ~Holds(f)
          /\ \A f \in Execs : JobOf[f] = JobOf[e] => exec[f].pc # "claimCancel"
      BY <2>5 DEF FailWrite
    <3>2. /\ row' = [row EXCEPT ![JobOf[e]] = MarkFailed(row[JobOf[e]], exec[e].errors + 1)]
          /\ row'[JobOf[e]].status = "failed"
          /\ row'[JobOf[e]].cancelRequested = row[JobOf[e]].cancelRequested
      BY <1>0, <2>5, RowFields DEF FailWrite, TypeOK
    <3>3. exec' = [exec EXCEPT ![e] = IdleExec]
      BY <2>5 DEF FailWrite, Leave
    <3> QED
      BY <1>0, <3>1, <3>2, <3>3 DEF IdleExec, TypeOK
  <2>6. CASE CompleteRead(e)
    BY <1>0, <2>6 DEF CompleteRead, TypeOK, Exec
  <2>7. CASE CompleteWrite(e)
    BY <1>0, <2>7, RowFields DEF CompleteWrite, Leave, IdleExec, TypeOK
  <2>8. CASE CatchRead(e)
    BY <1>0, <2>8 DEF CatchRead, Goto, TypeOK, Exec
  <2>9. CASE CatchCancel(e)
    BY <1>0, <2>9, RowFields DEF CatchCancel, Leave, IdleExec, TypeOK
  <2> QED
    BY <1>1, <2>1, <2>2, <2>3, <2>4, <2>5, <2>6, <2>7, <2>8, <2>9 DEF OwedStep
<1>2. ASSUME NEW e \in Execs, RunnerStep(e) PROVE RunInv'
  <2>1. CASE SetProgress(e)
    BY <1>0, <2>1, RowFields DEF SetProgress, Runs, TypeOK
  <2>2. CASE AddError(e)
    <3>1. /\ \A i \in Jobs : /\ row'[i].status = row[i].status
                            /\ row'[i].cancelRequested = row[i].cancelRequested
          /\ row'[JobOf[e]].claim = "fresh"
          /\ \A i \in Jobs : i # JobOf[e] => row'[i].claim = row[i].claim
      BY <1>0, <2>2 DEF AddError, Refresh, TypeOK, Row
    <3>2. \A f \in Execs : /\ exec'[f].pc = exec[f].pc
                           /\ exec'[f].cancel = exec[f].cancel
      BY <1>0, <2>2 DEF AddError, TypeOK, Exec
    <3> QED BY <1>0, <3>1, <3>2
  <2>3. CASE ThrowIfCancellationRequested(e)
    BY <1>0, <2>3 DEF ThrowIfCancellationRequested, Runs, CatchPc, TypeOK, Exec
  <2>4. CASE RunnerReturns(e)
    BY <1>0, <2>4 DEF RunnerReturns, Runs, Goto, TypeOK, Exec
  <2>5. CASE RunnerThrows(e)
    BY <1>0, <2>5 DEF RunnerThrows, Runs, Goto, CatchPc, TypeOK, Exec
  <2> QED BY <1>2, <2>1, <2>2, <2>3, <2>4, <2>5 DEF RunnerStep
<1>3. ASSUME NEW r \in Requests, CreateStep(r) PROVE RunInv'
  <2>1. ASSUME UNCHANGED <<row, exec>> PROVE RunInv'
    BY <2>1
  <2>2. CASE CreateSave(r)
    <3>1. PICK j \in Jobs, e \in Execs :
            /\ row[j].status = "absent"
            /\ JobOf[e] = j
            /\ exec[e].pc = "idle"
            /\ InsertRow(j, req[r].key)
            /\ exec' = [exec EXCEPT ![e] = Scheduled(TRUE)]
      BY <2>2 DEF CreateSave
    <3>2. \A f \in Execs : JobOf[f] = j => ~Holds(f) /\ exec[f].pc # "claimCancel"
      BY <3>1
    <3> QED BY <1>0, <3>1, <3>2 DEF InsertRow, Scheduled, TypeOK
  <2> QED
    BY <1>3, <2>1, <2>2 DEF CreateStep, CreateBegin, CreateLookup, CreateConflict, CreateRefind
<1>4. ASSUME NEW c \in Cancellers, CancelWrite(c) PROVE RunInv'
  <2>1. \A j \in Jobs : /\ row'[j].status = row[j].status
                        /\ row'[j].claim = row[j].claim
                        /\ row[j].cancelRequested => row'[j].cancelRequested
    BY <1>0, <1>4 DEF CancelWrite, TypeOK, Row
  <2> QED BY <1>0, <1>4, <2>1 DEF CancelWrite
<1>5. ASSUME NEW w \in Workers, RecoverUpdate(w) PROVE RunInv'
  <2>1. \A e \in Execs : Holds(e) => ~Requeueable(row[JobOf[e]])
    BY <1>0 DEF Requeueable
  <2>2. \A j \in Jobs : row'[j] = IF Requeueable(row[j]) THEN Requeue(row[j]) ELSE row[j]
    BY <1>5 DEF RecoverUpdate
  <2> QED BY <1>0, <1>5, <2>1, <2>2, RowFields DEF RecoverUpdate, Requeueable
<1>6. ASSUME NEW w \in Workers, RecoverFind(w) PROVE RunInv'
  <2>1. PICK S \in SUBSET Schedulable(w) :
          exec' = [e \in Execs |-> IF e \in S THEN Scheduled(FALSE) ELSE exec[e]]
    BY <1>6 DEF RecoverFind
  <2> QED BY <1>0, <1>6, <2>1 DEF RecoverFind, Scheduled
<1>7. ASSUME NEW j \in Jobs, ClaimExpires(j) PROVE RunInv'
  <2>1. \A e \in Execs : Holds(e) => JobOf[e] # j
    BY <1>7 DEF ClaimExpires
  <2>2. \A i \in Jobs : /\ row'[i].status = row[i].status
                        /\ row'[i].cancelRequested = row[i].cancelRequested
                        /\ i # j => row'[i].claim = row[i].claim
    BY <1>0, <1>7 DEF ClaimExpires, TypeOK, Row
  <2> QED BY <1>0, <1>7, <2>1, <2>2 DEF ClaimExpires
<1>8. CASE FaultStep
  <2>1. ASSUME NEW w \in Workers, Crash(w) PROVE RunInv'
    BY <1>0, <2>1 DEF Crash, IdleExec
  <2>2. ASSUME NEW e \in Execs, ClaimRejected(e) PROVE RunInv'
    BY <1>0, <2>2 DEF ClaimRejected, Leave, IdleExec, TypeOK
  <2>3. ASSUME NEW e \in Execs, ClaimReplyLost(e) PROVE RunInv'
    <3>1. \A f \in Execs : JobOf[f] = JobOf[e] => ~Holds(f) /\ exec[f].pc # "claimCancel"
      BY <2>3 DEF ClaimReplyLost, Claimable
    <3> QED
      BY <1>0, <2>3, <3>1, RowFields DEF ClaimReplyLost, Leave, IdleExec, TypeOK
  <2>4. ASSUME NEW e \in Execs, RunRejected(e) PROVE RunInv'
    <3>1. /\ exec'[e].pc = CatchPc(exec[e].cancel)
          /\ exec'[e].cancel = exec[e].cancel
          /\ \A f \in Execs : f # e => exec'[f] = exec[f]
      BY <1>0, <2>4 DEF RunRejected, TypeOK, Exec
    <3>2. row' = row /\ Holds(e)
      BY <2>4 DEF RunRejected
    <3>3. /\ exec'[e].pc \in {"catchRead", "catchCancel"}
          /\ exec'[e].pc = "catchCancel" => exec[e].cancel
      BY <1>0, <3>1 DEF CatchPc
    <3>4. RowOf(e).status = "running" /\ RowOf(e).claim = "fresh"
      BY <2>4 DEF RunRejected
    <3> QED BY <1>0, <3>1, <3>2, <3>3, <3>4
  <2>5. ASSUME NEW e \in Execs, CompleteReplyLost(e) PROVE RunInv'
    <3>1. /\ exec'[e].pc = CatchPc(exec[e].cancel)
          /\ exec'[e].cancel = exec[e].cancel
          /\ \A f \in Execs : f # e => exec'[f] = exec[f]
      BY <1>0, <2>5 DEF CompleteReplyLost, Goto, TypeOK, Exec
    <3>2. \A f \in Execs : JobOf[f] = JobOf[e] /\ f # e =>
            ~Holds(f) /\ exec[f].pc # "claimCancel"
      BY <2>5 DEF CompleteReplyLost
    <3>3. row' = [row EXCEPT ![JobOf[e]] = Complete(row[JobOf[e]], exec[e].cancel)]
      BY <2>5 DEF CompleteReplyLost
    <3>4. /\ exec'[e].pc \in {"catchRead", "catchCancel"}
          /\ exec'[e].pc = "catchCancel" <=> exec[e].cancel
      BY <1>0, <3>1 DEF CatchPc
    <3>5. /\ row'[JobOf[e]].status = IF exec[e].cancel THEN "cancelled" ELSE "succeeded"
          /\ row'[JobOf[e]].cancelRequested = exec[e].cancel
          /\ \A j \in Jobs : j # JobOf[e] => row'[j] = row[j]
      BY <1>0, <3>3, RowFields DEF TypeOK
    <3> QED
      BY <1>0, <3>1, <3>2, <3>4, <3>5
  <2>6. ASSUME UNCHANGED <<row, exec>> PROVE RunInv'
    BY <2>6
  <2>7. ASSUME NEW r \in Requests, SaveReplyLost(r) PROVE RunInv'
    <3>1. PICK j \in Jobs : row[j].status = "absent" /\ InsertRow(j, req[r].key)
      BY <2>7 DEF SaveReplyLost
    <3>2. \A f \in Execs : JobOf[f] = j => ~Holds(f) /\ exec[f].pc # "claimCancel"
      BY <3>1
    <3> QED BY <1>0, <2>7, <3>1, <3>2 DEF SaveReplyLost, InsertRow, TypeOK
  <2> QED
    BY <1>8, <2>1, <2>2, <2>3, <2>4, <2>5, <2>6, <2>7
       DEF FaultStep, RecoverRejected, CreateRejected, CancelRejected
<1>9. ASSUME UNCHANGED <<row, exec>> PROVE RunInv'
  BY <1>9
<1> QED
  BY <1>1, <1>2, <1>3, <1>4, <1>5, <1>6, <1>7, <1>8, <1>9 DEF Next, CancelRead, vars

(* No job is run by two executions at once, and "cancelled" means asked    *)
(* for: while leases outlast the runs they cover, however many processes   *)
(* there are and wherever they crash.                                      *)
THEOREM ExclusiveClaims == ~SlowRuns => (Spec => [](ClaimInv /\ ExclusiveRun))
<1> SUFFICES ASSUME ~SlowRuns PROVE Spec => [](ClaimInv /\ ExclusiveRun)
  OBVIOUS
<1>1. Init => RunInv
  BY DEF Init, RunInv, ClaimInv, CancelInv, CancelledWasRequested, Holds, HoldingPc,
         RowOf, AbsentRow, IdleExec
<1>2. TypeOK /\ RunInv /\ [Next]_vars => RunInv'
  BY RunInvStep
<1>3. RunInv => ClaimInv /\ ExclusiveRun
  BY DEF RunInv, ClaimInv, ExclusiveRun, Runs, Holds, HoldingPc
<1> QED
  BY <1>1, <1>2, <1>3, TypeCorrect, PTL DEF Spec

(* A cancelled job is one somebody asked to cancel. *)
THEOREM CancelledWasAskedFor == ~SlowRuns => (Spec => []CancelledWasRequested)
<1> SUFFICES ASSUME ~SlowRuns PROVE Spec => []CancelledWasRequested
  OBVIOUS
<1>1. Init => RunInv
  BY DEF Init, RunInv, ClaimInv, CancelInv, CancelledWasRequested, Holds, HoldingPc,
         RowOf, AbsentRow, IdleExec
<1>2. TypeOK /\ RunInv /\ [Next]_vars => RunInv'
  BY RunInvStep
<1>3. RunInv => CancelledWasRequested
  BY DEF RunInv, CancelInv
<1> QED
  BY <1>1, <1>2, <1>3, TypeCorrect, PTL DEF Spec

-----------------------------------------------------------------------------
(* What a step may do to a row once it is there, with or without live      *)
(* leases: the writes of executions, recovery and time, and a request to   *)
(* cancel.                                                                 *)
RowWrite(r, s) ==
  \/ s = r
  \/ s = MarkCancelled(r)
  \/ Claimable(r) /\ s = ClaimRow(r)
  \/ \E n \in Nat : s = MarkFailed(r, n)
  \/ s = Refresh(r)
  \/ \E n \in Nat : s = [Refresh(r) EXCEPT !.errors = n]
  \/ \E b \in BOOLEAN : s = Complete(r, b)
  \/ Requeueable(r) /\ s = Requeue(r)
  \/ s = [r EXCEPT !.claim = "stale"]

RowUpdate(r, s) == RowWrite(r, s) \/ s = [r EXCEPT !.cancelRequested = TRUE]

Inserting == \E r \in Requests : CreateSave(r) \/ SaveReplyLost(r)

LEMMA RowWritten ==
  ASSUME TypeOK, [Next]_vars, ~Inserting, NEW j \in Jobs,
         \A c \in Cancellers : CancelWrite(c) => cancelling[c] # j
  PROVE  RowWrite(row[j], row'[j])
<1> USE DEF RowWrite
<1>0. \A e \in Execs : exec[e].cancel \in BOOLEAN /\ exec[e].errors + 1 \in Nat
  BY DEF TypeOK, Exec
<1>1. ASSUME row' = row PROVE RowWrite(row[j], row'[j])
  BY <1>1
<1>2. ASSUME NEW e \in Execs, ClaimCancel(e) \/ CatchCancel(e)
      PROVE  RowWrite(row[j], row'[j])
  BY <1>2 DEF ClaimCancel, CatchCancel, TypeOK
<1>3. ASSUME NEW e \in Execs, ClaimUpdate(e) \/ ClaimReplyLost(e)
      PROVE  RowWrite(row[j], row'[j])
  <2>1. CASE JobOf[e] = j /\ row' = [row EXCEPT ![JobOf[e]] = ClaimRow(@)]
    BY <1>3, <2>1 DEF ClaimUpdate, ClaimReplyLost, RowOf, TypeOK, Claimable
  <2>2. CASE JobOf[e] # j /\ row' = [row EXCEPT ![JobOf[e]] = ClaimRow(@)]
    BY <2>2 DEF TypeOK
  <2> QED BY <1>1, <1>3, <2>1, <2>2 DEF ClaimUpdate, ClaimReplyLost
<1>4. ASSUME NEW e \in Execs, FailWrite(e) PROVE RowWrite(row[j], row'[j])
  BY <1>0, <1>4 DEF FailWrite, TypeOK
<1>5. ASSUME NEW e \in Execs, CompleteWrite(e) \/ CompleteReplyLost(e)
      PROVE  RowWrite(row[j], row'[j])
  BY <1>0, <1>5 DEF CompleteWrite, CompleteReplyLost, TypeOK
<1>6. ASSUME NEW e \in Execs, SetProgress(e) PROVE RowWrite(row[j], row'[j])
  BY <1>6 DEF SetProgress, TypeOK
<1>7. ASSUME NEW e \in Execs, AddError(e) PROVE RowWrite(row[j], row'[j])
  <2>1. row' = [row EXCEPT ![JobOf[e]] =
                  [Refresh(row[JobOf[e]]) EXCEPT !.errors = exec[e].errors + 1]]
    BY <1>7 DEF AddError
  <2>2. CASE JobOf[e] = j
    <3>1. row'[j] = [Refresh(row[j]) EXCEPT !.errors = exec[e].errors + 1]
      BY <2>1, <2>2 DEF TypeOK
    <3> QED BY <1>0, <3>1
  <2>3. CASE JobOf[e] # j
    BY <2>1, <2>3 DEF TypeOK
  <2> QED BY <2>2, <2>3
<1>8. ~(\E r \in Requests : CreateSave(r) \/ SaveReplyLost(r))
  BY DEF Inserting
<1>9. ASSUME NEW c \in Cancellers, CancelWrite(c) PROVE RowWrite(row[j], row'[j])
  BY <1>9 DEF CancelWrite, TypeOK
<1>10. ASSUME NEW w \in Workers, RecoverUpdate(w) PROVE RowWrite(row[j], row'[j])
  BY <1>10 DEF RecoverUpdate
<1>11. ASSUME NEW i \in Jobs, ClaimExpires(i) PROVE RowWrite(row[j], row'[j])
  BY <1>11 DEF ClaimExpires, TypeOK
<1> HIDE DEF RowWrite
<1>12. CASE \E e \in Execs : OwedStep(e) \/ RunnerStep(e)
  BY <1>12, <1>1, <1>2, <1>3, <1>4, <1>5, <1>6, <1>7
     DEF OwedStep, RunnerStep, ClaimRead, ClaimFetch, CompleteRead, CatchRead,
         ThrowIfCancellationRequested, RunnerReturns, RunnerThrows
<1>13. CASE \E r \in Requests : CreateStep(r)
  BY <1>13, <1>1, <1>8 DEF CreateStep, CreateBegin, CreateLookup, CreateConflict, CreateRefind
<1>14. CASE FaultStep
  BY <1>14, <1>1, <1>3, <1>5, <1>8
     DEF FaultStep, Crash, RecoverRejected, ClaimRejected, RunRejected, CreateRejected,
         CancelRejected
<1> QED
  BY <1>1, <1>9, <1>10, <1>11, <1>12, <1>13, <1>14 DEF Next, CancelRead, RecoverFind, vars

LEMMA RowUpdates ==
  ASSUME TypeOK, [Next]_vars, ~Inserting, NEW j \in Jobs
  PROVE  RowUpdate(row[j], row'[j])
<1>1. ASSUME NEW c \in Cancellers, CancelWrite(c), cancelling[c] = j
      PROVE  row'[j] = [row[j] EXCEPT !.cancelRequested = TRUE]
  BY <1>1 DEF CancelWrite, TypeOK
<1> QED BY <1>1, RowWritten DEF RowUpdate

(* What it may do to any row. *)
RowChange(r, s) ==
  RowUpdate(r, s) \/ (r.status = "absent" /\ s.status = "queued" /\ s.errors = 0)

LEMMA RowStep ==
  ASSUME TypeOK, [Next]_vars, NEW j \in Jobs
  PROVE  RowChange(row[j], row'[j])
<1>1. CASE ~Inserting
  BY <1>1, RowUpdates DEF RowChange
<1>2. ASSUME NEW r \in Requests, CreateSave(r) \/ SaveReplyLost(r)
      PROVE  RowChange(row[j], row'[j])
  <2>1. PICK i \in Jobs : row[i].status = "absent" /\ InsertRow(i, req[r].key)
    BY <1>2 DEF CreateSave, SaveReplyLost
  <2> QED BY <2>1 DEF InsertRow, RowChange, RowUpdate, RowWrite, TypeOK
<1> QED BY <1>1, <1>2 DEF Inserting

(* A settled job is never queued or run again, whatever outlives a lease. *)
THEOREM SettledForever == Spec => SettledStaysSettled
<1>1. ASSUME TypeOK, [Next]_vars, NEW j \in Jobs, row[j].status \in Terminal
      PROVE  row'[j].status \in Terminal
  <2>1. row[j] \in Row
    BY <1>1 DEF TypeOK
  <2> QED
    BY <1>1, <2>1, RowStep
       DEF RowChange, RowUpdate, RowWrite, Row, Terminal, MarkCancelled, MarkFailed, Refresh, ClaimRow, Complete,
           Requeue, Claimable, Requeueable
<1>2. TypeOK /\ [Next]_vars =>
        [\A j \in Jobs : row[j].status \in Terminal => row'[j].status \in Terminal]_vars
  BY <1>1
<1> QED
  BY <1>2, TypeCorrect, PTL DEF Spec, SettledStaysSettled

(* A job with its cancellation on record is never started. *)
THEOREM CancelledStaysUnstarted == Spec => CancelledNeverStarts
<1>1. ASSUME TypeOK, [Next]_vars, NEW j \in Jobs,
             row[j].status # "running", row[j].cancelRequested
      PROVE  row'[j].status # "running"
  <2>1. row[j] \in Row /\ RowChange(row[j], row'[j])
    BY <1>1, RowStep DEF TypeOK
  <2>2. \A n \in Nat : /\ [Refresh(row[j]) EXCEPT !.errors = n].status = row[j].status
                       /\ [row[j] EXCEPT !.cancelRequested = TRUE].status = row[j].status
                       /\ [row[j] EXCEPT !.claim = "stale"].status = row[j].status
    BY <2>1 DEF Row, Refresh
  <2>3. CASE \E n \in Nat : \/ row'[j] = MarkFailed(row[j], n)
                           \/ row'[j] = [Refresh(row[j]) EXCEPT !.errors = n]
    <3>1. PICK n \in Nat : \/ row'[j] = MarkFailed(row[j], n)
                           \/ row'[j] = [Refresh(row[j]) EXCEPT !.errors = n]
      BY <2>3
    <3>2. MarkFailed(row[j], n).status = "failed"
      BY <2>1, RowFields
    <3>3. [Refresh(row[j]) EXCEPT !.errors = n].status = row[j].status
      BY <2>2
    <3> QED BY <1>1, <3>1, <3>2, <3>3
  <2>4. CASE \E b \in BOOLEAN : row'[j] = Complete(row[j], b)
    BY <2>1, <2>4, RowFields
  <2>5. CASE \/ row'[j] = [row[j] EXCEPT !.cancelRequested = TRUE]
             \/ row'[j] = [row[j] EXCEPT !.claim = "stale"]
    BY <1>1, <2>2, <2>5
  <2>6. CASE \/ row'[j] = row[j] \/ row'[j].status = "queued"
             \/ row'[j] \in {MarkCancelled(row[j]), Refresh(row[j]), Requeue(row[j])}
    BY <1>1, <2>1, <2>6, RowFields
  <2>7. ~Claimable(row[j])
    BY <1>1 DEF Claimable
  <2> QED
    BY <2>1, <2>3, <2>4, <2>5, <2>6, <2>7 DEF RowChange, RowUpdate, RowWrite
<1>2. TypeOK /\ [Next]_vars =>
        [\A j \in Jobs : row[j].status # "running" /\ row[j].cancelRequested =>
           row'[j].status # "running"]_vars
  BY <1>1
<1> QED
  BY <1>2, TypeCorrect, PTL DEF Spec, CancelledNeverStarts

-----------------------------------------------------------------------------
(* No two rows carry the same key, and an answered request's row is there. *)
KeyInv ==
  /\ \A i, j \in Jobs :
       row[i].status # "absent" /\ row[j].status # "absent"
         /\ row[i].key = row[j].key /\ row[i].key # NoKey => i = j
  /\ \A r \in Requests : req[r].pc = "done" =>
       /\ req[r].job \in Jobs
       /\ row[req[r].job].status # "absent"
       /\ row[req[r].job].key = req[r].key

(* A row without a key may be anybody's; one that carries a key has been   *)
(* inserted.                                                               *)
KeysInv ==
  /\ KeyInv
  /\ \A j \in Jobs : row[j].status = "absent" => row[j].key = NoKey
  /\ \A r \in Requests : req[r].pc \in {"lookup", "refind"} => req[r].key # NoKey

(* Updates change no key and take no row away. *)
LEMMA KeysKept ==
  ASSUME NEW r \in Row, NEW s, RowUpdate(r, s)
  PROVE  s.key = r.key /\ (r.status # "absent" => s.status # "absent")
<1>1. \A n \in Nat : /\ MarkFailed(r, n).key = r.key
                     /\ MarkFailed(r, n).status # "absent"
                     /\ [Refresh(r) EXCEPT !.errors = n].key = r.key
                     /\ [Refresh(r) EXCEPT !.errors = n].status = r.status
  BY DEF Row, MarkFailed, Refresh
<1>2. \A b \in BOOLEAN : /\ Complete(r, b).key = r.key
                         /\ Complete(r, b).status # "absent"
  BY DEF Row, Complete
<1>3. CASE \E n \in Nat : s = MarkFailed(r, n) \/ s = [Refresh(r) EXCEPT !.errors = n]
  BY <1>1, <1>3
<1>4. CASE \E b \in BOOLEAN : s = Complete(r, b)
  BY <1>2, <1>4
<1>5. CASE s \in {r, MarkCancelled(r), ClaimRow(r), Refresh(r), Requeue(r),
                 [r EXCEPT !.cancelRequested = TRUE], [r EXCEPT !.claim = "stale"]}
  BY <1>5 DEF Row, MarkCancelled, ClaimRow, Refresh, Requeue
<1> QED BY <1>3, <1>4, <1>5 DEF RowUpdate, RowWrite

(* What a create request does to itself: it is answered only by finding or *)
(* inserting a row with its own key.                                       *)
LEMMA Answers ==
  ASSUME TypeOK, KeysInv, [Next]_vars, NEW r \in Requests, req'[r] # req[r]
  PROVE  \/ req'[r].pc # "done" /\ (req'[r].pc \in {"lookup", "refind"} => req'[r].key # NoKey)
         \/ /\ req'[r].pc = "done"
            /\ req'[r].job \in Jobs
            /\ row'[req'[r].job].status # "absent"
            /\ row'[req'[r].job].key = req'[r].key
<1>0. \A i \in Requests : req[i] \in Req
  BY DEF TypeOK
<1>1. ASSUME NEW i \in Requests, CreateStep(i) PROVE i = r
  BY <1>1 DEF CreateStep, CreateBegin, CreateLookup, CreateSave, CreateConflict,
              CreateRefind, Answer, TypeOK
<1>2. ASSUME NEW k \in Keys \cup {NoKey}, CreateBegin(r, k)
      PROVE  req'[r].pc # "done" /\ (req'[r].pc \in {"lookup", "refind"} => req'[r].key # NoKey)
  BY <1>2 DEF CreateBegin, TypeOK
<1>3. CASE CreateLookup(r)
  BY <1>0, <1>3 DEF CreateLookup, Existing, Answer, TypeOK, Req, KeysInv
<1>4. CASE CreateSave(r)
  BY <1>0, <1>4 DEF CreateSave, Answer, InsertRow, TypeOK, Req
<1>5. CASE CreateConflict(r)
  BY <1>0, <1>5 DEF CreateConflict, ViolatesUniqueKey, TypeOK, Req
<1>6. CASE CreateRefind(r)
  BY <1>0, <1>6 DEF CreateRefind, Existing, Answer, TypeOK, Req
<1>7. CASE FaultStep
  <2>1. ASSUME NEW w \in Workers, Crash(w) PROVE req'[r] = IdleReq
    BY <2>1 DEF Crash
  <2>2. ASSUME NEW i \in Requests, CreateRejected(i) \/ SaveReplyLost(i)
        PROVE  req'[r] = IdleReq
    BY <2>2 DEF CreateRejected, SaveReplyLost, TypeOK
  <2>3. req'[r] = IdleReq
    BY <1>7, <2>1, <2>2
       DEF FaultStep, RecoverRejected, ClaimRejected, ClaimReplyLost, RunRejected,
           CompleteReplyLost, CancelRejected
  <2> QED BY <2>3 DEF IdleReq
<1>8. CASE req' = req
  BY <1>8
<1>9. CASE \E e \in Execs : OwedStep(e) \/ RunnerStep(e)
  BY <1>8, <1>9
     DEF OwedStep, RunnerStep, ClaimRead, ClaimCancel, ClaimUpdate, ClaimFetch, FailWrite,
         CompleteRead, CompleteWrite, CatchRead, CatchCancel, SetProgress, AddError,
         ThrowIfCancellationRequested, RunnerReturns, RunnerThrows
<1>10. CASE \E i \in Requests : CreateStep(i)
  BY <1>1, <1>2, <1>3, <1>4, <1>5, <1>6, <1>10 DEF CreateStep
<1> QED
  BY <1>7, <1>8, <1>9, <1>10
     DEF Next, CancelRead, CancelWrite, RecoverUpdate, RecoverFind, ClaimExpires, vars

LEMMA KeysInvStep ==
  ASSUME TypeOK, KeysInv, [Next]_vars
  PROVE  KeysInv'
<1> USE DEF KeysInv, KeyInv
<1>0. \A j \in Jobs : row[j] \in Row
  BY DEF TypeOK
<1>1. CASE ~Inserting
  <2>1. \A j \in Jobs : /\ row'[j].key = row[j].key
                        /\ row[j].status # "absent" => row'[j].status # "absent"
    BY <1>0, <1>1, RowUpdates, KeysKept
  <2> QED BY <2>1, Answers
<1>2. ASSUME NEW r \in Requests, CreateSave(r) \/ SaveReplyLost(r) PROVE KeysInv'
  <2>1. PICK j \in Jobs : row[j].status = "absent" /\ InsertRow(j, req[r].key)
    BY <1>2 DEF CreateSave, SaveReplyLost
  <2>2. ~ViolatesUniqueKey(req[r].key)
    BY <1>2 DEF CreateSave, SaveReplyLost
  <2>3. /\ row'[j].status = "queued" /\ row'[j].key = req[r].key
        /\ \A i \in Jobs : i # j => row'[i] = row[i]
    BY <2>1 DEF InsertRow, TypeOK
  <2>4. req[r].key # NoKey =>
          \A i \in Jobs : row[i].status # "absent" => row[i].key # req[r].key
    BY <2>2 DEF ViolatesUniqueKey, Existing
  <2> QED BY <2>1, <2>3, <2>4, Answers
<1> QED BY <1>1, <1>2 DEF Inserting

(* One job per (type, idempotency key), whoever asked, and how often. *)
THEOREM OneJobPerKey == Spec => [](KeyInv /\ SameKeySameJob)
<1>1. Init => KeysInv
  BY DEF Init, KeysInv, KeyInv, AbsentRow, IdleReq
<1>2. TypeOK /\ KeysInv /\ [Next]_vars => KeysInv'
  BY KeysInvStep
<1>3. KeysInv => KeyInv /\ SameKeySameJob
  BY DEF KeysInv, KeyInv, SameKeySameJob
<1> QED
  BY <1>1, <1>2, <1>3, TypeCorrect, PTL DEF Spec

=============================================================================
