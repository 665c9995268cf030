------------------------------ MODULE AdminJobs ------------------------------
(***************************************************************************)
(* Durable admin jobs (src/src/admin/jobs.ts) and the recovery loop that   *)
(* drives them (src/src/admin/index.ts): rows of the table admin_jobs,     *)
(* created once per idempotency key, claimed by a conditional UPDATE, run  *)
(* under a lease that progress writes refresh, cancelled by a flag, and    *)
(* requeued by recovery when the lease is stale.                           *)
(*                                                                         *)
(* Every database statement is one atomic step (each TypeORM call is its   *)
(* own transaction), everything the code does between two awaits is part   *)
(* of the step before it, and any number of API processes share the table. *)
(* A statement may be rejected, with or without having taken effect, and a *)
(* process may crash between any two statements.                           *)
(***************************************************************************)
EXTENDS Integers, FiniteSets

CONSTANTS
  Workers,      \* API processes; a crash restarts one with empty memory
  Jobs,         \* ids a row may be given (Snowflakes)
  Keys,         \* pairs (type, idempotency key)
  NoKey,        \* the caller sent no idempotency key
  NoJob,        \* no row
  Execs,        \* executions scheduled on an event loop: bounds how many
                \* executions of one job a process can have at a time
  WorkerOf,     \* the process an execution belongs to
  JobOf,        \* the job an execution was scheduled for
  Requests,     \* POST requests that create a job
  RequestWorker,\* the process that serves a request
  Cancellers,   \* POST requests that cancel a job
  Registered,   \* jobs whose type has a runner factory in every process
  SlowRuns,     \* TRUE: a live execution may let its lease expire
  MaxErrors,    \* bounds the errors a runner records
  MaxFaults     \* bounds crashes and rejected statements

ASSUME ConstantsAssumption ==
  /\ WorkerOf \in [Execs -> Workers]
  /\ JobOf \in [Execs -> Jobs]
  /\ RequestWorker \in [Requests -> Workers]
  /\ Registered \subseteq Jobs
  /\ NoKey \notin Keys
  /\ NoJob \notin Jobs
  /\ SlowRuns \in BOOLEAN
  /\ MaxErrors \in Nat
  /\ MaxFaults \in Nat

VARIABLES
  row,        \* the table admin_jobs
  exec,       \* runPersistedJob calls: program counter and context.job
  req,        \* createAdminJob calls
  cancelling, \* requestAdminJobCancellation calls between read and write
  recovery,   \* recoverAdminJobs of each process
  faults      \* crashes and rejected statements so far

vars == <<row, exec, req, cancelling, recovery, faults>>

Terminal == {"succeeded", "failed", "cancelled"}
Status == {"absent", "queued", "running"} \cup Terminal

(* claimed_at, as the cutoff of recovery sees it. *)
Claim == {"null", "fresh", "stale"}

Row == [status : Status, key : Keys \cup {NoKey}, cancelRequested : BOOLEAN,
        claim : Claim, errors : Nat]

ExecPc == {"idle", "scheduled", "claimCancel", "claimUpdate", "claimFetch",
           "noRunner", "running", "completeRead", "completeWrite",
           "catchRead", "catchCancel", "failWrite"}

(* fallback: the execution was scheduled by createAdminJob, which passes   *)
(* its runner; cancel and errors are context.job's copies of the row.      *)
Exec == [pc : ExecPc, fallback : BOOLEAN, cancel : BOOLEAN, errors : Nat]

ReqPc == {"idle", "lookup", "save", "refind", "done"}
Req == [pc : ReqPc, key : Keys \cup {NoKey}, job : Jobs \cup {NoJob}]

AbsentRow == [status |-> "absent", key |-> NoKey, cancelRequested |-> FALSE,
              claim |-> "null", errors |-> 0]
IdleExec == [pc |-> "idle", fallback |-> FALSE, cancel |-> FALSE, errors |-> 0]
IdleReq == [pc |-> "idle", key |-> NoKey, job |-> NoJob]

(* What scheduleAdminJobExecution puts on the event loop. *)
Scheduled(fallback) ==
  [pc |-> "scheduled", fallback |-> fallback, cancel |-> FALSE, errors |-> 0]

TypeOK ==
  /\ row \in [Jobs -> Row]
  /\ exec \in [Execs -> Exec]
  /\ req \in [Requests -> Req]
  /\ cancelling \in [Cancellers -> Jobs \cup {NoJob}]
  /\ recovery \in [Workers -> {"idle", "find"}]
  /\ faults \in Nat

Init ==
  /\ row = [j \in Jobs |-> AbsentRow]
  /\ exec = [e \in Execs |-> IdleExec]
  /\ req = [r \in Requests |-> IdleReq]
  /\ cancelling = [c \in Cancellers |-> NoJob]
  /\ recovery = [w \in Workers |-> "idle"]
  /\ faults = 0

(* A row as code that holds its id sees it. *)
RowOf(e) == row[JobOf[e]]

(* Executions that have claimed their job and not finished with it. *)
HoldingPc == {"claimFetch", "noRunner", "running", "completeRead",
              "completeWrite", "catchRead", "catchCancel", "failWrite"}
Holds(e) == exec[e].pc \in HoldingPc

(* Executions whose runner has started and not returned or thrown. *)
Runs(e) == exec[e].pc = "running"

-----------------------------------------------------------------------------
(* Steps of one execution.  Goto keeps the context, Leave drops it.        *)

Goto(e, pc) == exec' = [exec EXCEPT ![e].pc = pc]
Leave(e) == exec' = [exec EXCEPT ![e] = IdleExec]

(* The catch block of runPersistedJob starts with the context's own flag. *)
CatchPc(cancel) == IF cancel THEN "catchCancel" ELSE "catchRead"

MarkCancelled(r) == [r EXCEPT !.status = "cancelled", !.claim = "null"]

(* Mutants carry the name of the slip they make; no specification uses them. *)
MarkFailedAsError(r, errors) == [r EXCEPT !.status = "error", !.errors = errors]
MarkFailedClears(r, errors) == [r EXCEPT !.status = "failed", !.errors = 0]
MarkFailed(r, errors) == [r EXCEPT !.status = "failed", !.errors = errors]
Refresh(r) == [r EXCEPT !.claim = "fresh"]
ClaimRow(r) == [r EXCEPT !.status = "running", !.claim = "fresh"]

CompleteWithdraws(r, cancel) ==
  [r EXCEPT !.status = IF cancel THEN "cancelled" ELSE "succeeded",
            !.cancelRequested = FALSE]
Complete(r, cancel) ==
  [r EXCEPT !.status = IF cancel THEN "cancelled" ELSE "succeeded",
            !.cancelRequested = cancel]

(* claimPersistedJob, the read: a queued job whose cancellation was        *)
(* requested is cancelled instead of claimed.                              *)
ClaimRead(e) ==
  /\ exec[e].pc = "scheduled"
  /\ Goto(e, IF RowOf(e).status = "queued" /\ RowOf(e).cancelRequested
             THEN "claimCancel" ELSE "claimUpdate")
  /\ UNCHANGED <<row, req, cancelling, recovery, faults>>

ClaimCancel(e) ==
  /\ exec[e].pc = "claimCancel"
  /\ row' = [row EXCEPT ![JobOf[e]] = MarkCancelled(@)]
  /\ Leave(e)
  /\ UNCHANGED <<req, cancelling, recovery, faults>>

ClaimableAnyStatus(r) == r.status # "absent" /\ ~r.cancelRequested
ClaimableQueued(r) == r.status = "queued"
ClaimableAfterFailure(r) == r.status \in {"queued", "failed"} /\ ~r.cancelRequested

(* The conditions of the claiming UPDATE, evaluated on the current row. *)
Claimable(r) == r.status = "queued" /\ ~r.cancelRequested

ClaimUpdate(e) ==
  /\ exec[e].pc = "claimUpdate"
  /\ IF Claimable(RowOf(e))
       THEN /\ row' = [row EXCEPT ![JobOf[e]] = ClaimRow(@)]
            /\ Goto(e, "claimFetch")
       ELSE Leave(e) /\ UNCHANGED row
  /\ UNCHANGED <<req, cancelling, recovery, faults>>

HasRunner(e) == exec[e].fallback \/ JobOf[e] \in Registered

(* The row read back after the claim becomes context.job. *)
ClaimFetch(e) ==
  /\ exec[e].pc = "claimFetch"
  /\ exec' = [exec EXCEPT ![e] =
                [pc |-> IF HasRunner(e) THEN "running" ELSE "noRunner",
                 fallback |-> exec[e].fallback,
                 cancel |-> RowOf(e).cancelRequested,
                 errors |-> RowOf(e).errors]]
  /\ UNCHANGED <<row, req, cancelling, recovery, faults>>

(* failPersistedJob, with the error appended to the context's list. *)
FailWrite(e) ==
  /\ exec[e].pc \in {"noRunner", "failWrite"}
  /\ row' = [row EXCEPT ![JobOf[e]] = MarkFailed(@, exec[e].errors + 1)]
  /\ Leave(e)
  /\ UNCHANGED <<req, cancelling, recovery, faults>>

(* context.setProgress: refreshes the lease, whoever holds it. *)
SetProgress(e) ==
  /\ Runs(e)
  /\ row' = [row EXCEPT ![JobOf[e]] = Refresh(@)]
  /\ UNCHANGED <<exec, req, cancelling, recovery, faults>>

(* context.addError: the context's list replaces the row's. *)
AddError(e) ==
  /\ Runs(e)
  /\ exec[e].errors < MaxErrors
  /\ exec' = [exec EXCEPT ![e].errors = @ + 1]
  /\ row' = [row EXCEPT ![JobOf[e]] = [Refresh(@) EXCEPT !.errors = exec[e].errors + 1]]
  /\ UNCHANGED <<req, cancelling, recovery, faults>>

(* context.throwIfCancellationRequested: a fresh read; it throws into the  *)
(* catch block, or the runner goes on and nothing changes.                 *)
ThrowIfCancellationRequested(e) ==
  /\ Runs(e)
  /\ RowOf(e).cancelRequested
  /\ exec' = [exec EXCEPT ![e].pc = CatchPc(TRUE), ![e].cancel = TRUE]
  /\ UNCHANGED <<row, req, cancelling, recovery, faults>>

RunnerReturns(e) ==
  /\ Runs(e)
  /\ Goto(e, "completeRead")
  /\ UNCHANGED <<row, req, cancelling, recovery, faults>>

RunnerThrows(e) ==
  /\ Runs(e)
  /\ Goto(e, CatchPc(exec[e].cancel))
  /\ UNCHANGED <<row, req, cancelling, recovery, faults>>

(* completePersistedJob decides on a fresh read ... *)
CompleteRead(e) ==
  /\ exec[e].pc = "completeRead"
  /\ exec' = [exec EXCEPT ![e].pc = "completeWrite",
                          ![e].cancel = RowOf(e).cancelRequested \/ exec[e].cancel]
  /\ UNCHANGED <<row, req, cancelling, recovery, faults>>

(* ... and writes status and cancelRequested whatever happened since. *)
CompleteWrite(e) ==
  /\ exec[e].pc = "completeWrite"
  /\ row' = [row EXCEPT ![JobOf[e]] = Complete(@, exec[e].cancel)]
  /\ Leave(e)
  /\ UNCHANGED <<req, cancelling, recovery, faults>>

(* The catch block looks for a cancellation the runner did not notice. *)
CatchRead(e) ==
  /\ exec[e].pc = "catchRead"
  /\ Goto(e, IF RowOf(e).cancelRequested THEN "catchCancel" ELSE "failWrite")
  /\ UNCHANGED <<row, req, cancelling, recovery, faults>>

CatchCancel(e) ==
  /\ exec[e].pc = "catchCancel"
  /\ row' = [row EXCEPT ![JobOf[e]] = MarkCancelled(@)]
  /\ Leave(e)
  /\ UNCHANGED <<req, cancelling, recovery, faults>>

-----------------------------------------------------------------------------
(* createAdminJob *)

(* A lookup by key when the request carries one, else straight to the save. *)
CreateBegin(r, k) ==
  /\ req[r].pc = "idle"
  /\ req' = [req EXCEPT ![r] = [pc |-> IF k = NoKey THEN "save" ELSE "lookup",
                                key |-> k, job |-> NoJob]]
  /\ UNCHANGED <<row, exec, cancelling, recovery, faults>>

Answer(r, j) ==
  req' = [req EXCEPT ![r] = [pc |-> "done", key |-> req[r].key, job |-> j]]

Existing(k) == {j \in Jobs : row[j].status # "absent" /\ row[j].key = k}

CreateLookup(r) ==
  /\ req[r].pc = "lookup"
  /\ \/ /\ Existing(req[r].key) = {}
        /\ req' = [req EXCEPT ![r].pc = "save"]
     \/ \E j \in Existing(req[r].key) : Answer(r, j)
  /\ UNCHANGED <<row, exec, cancelling, recovery, faults>>

NoUniqueIndex(k) == FALSE

(* The partial unique index on (type, idempotency_key). *)
ViolatesUniqueKey(k) == k # NoKey /\ Existing(k) # {}

InsertRow(j, k) ==
  row' = [row EXCEPT ![j] = [status |-> "queued", key |-> k, cancelRequested |-> FALSE,
                             claim |-> "null", errors |-> 0]]

(* The row is inserted and its execution scheduled with the given runner. *)
CreateSave(r) ==
  /\ req[r].pc = "save"
  /\ ~ViolatesUniqueKey(req[r].key)
  /\ \E j \in Jobs, e \in Execs :
       /\ row[j].status = "absent"
       /\ JobOf[e] = j
       /\ WorkerOf[e] = RequestWorker[r]
       /\ exec[e].pc = "idle"
       /\ InsertRow(j, req[r].key)
       /\ Answer(r, j)
       /\ exec' = [exec EXCEPT ![e] = Scheduled(TRUE)]
  /\ UNCHANGED <<cancelling, recovery, faults>>

(* Error 23505: someone else saved the key first. *)
CreateConflict(r) ==
  /\ req[r].pc = "save"
  /\ ViolatesUniqueKey(req[r].key)
  /\ req' = [req EXCEPT ![r].pc = "refind"]
  /\ UNCHANGED <<row, exec, cancelling, recovery, faults>>

CreateRefind(r) ==
  /\ req[r].pc = "refind"
  /\ \E j \in Existing(req[r].key) : Answer(r, j)
  /\ UNCHANGED <<row, exec, cancelling, recovery, faults>>

-----------------------------------------------------------------------------
(* requestAdminJobCancellation: the write is conditional on a status that  *)
(* was read before.                                                        *)

CancelRead(c, j) ==
  /\ cancelling[c] = NoJob
  /\ row[j].status \in {"queued", "running"}
  /\ cancelling' = [cancelling EXCEPT ![c] = j]
  /\ UNCHANGED <<row, exec, req, recovery, faults>>

CancelWrite(c) ==
  /\ cancelling[c] \in Jobs
  /\ row' = [row EXCEPT ![cancelling[c]].cancelRequested = TRUE]
  /\ cancelling' = [cancelling EXCEPT ![c] = NoJob]
  /\ UNCHANGED <<exec, req, recovery, faults>>

-----------------------------------------------------------------------------
(* recoverAdminJobs, at the start of a process and from its timer; the     *)
(* promise adminJobRecoveryInFlight keeps one at a time per process.       *)

RequeueableAnyStatus(r) == r.status # "absent" /\ r.claim \in {"null", "stale"}
RequeueableUnclaimed(r) == r.status = "running" /\ r.claim = "null"
RequeueForgets(r) ==
  [r EXCEPT !.status = "queued", !.claim = "null", !.cancelRequested = FALSE]

Requeueable(r) == r.status = "running" /\ r.claim \in {"null", "stale"}
Requeue(r) == [r EXCEPT !.status = "queued", !.claim = "null"]

RecoverUpdate(w) ==
  /\ recovery[w] = "idle"
  /\ row' = [j \in Jobs |-> IF Requeueable(row[j]) THEN Requeue(row[j]) ELSE row[j]]
  /\ recovery' = [recovery EXCEPT ![w] = "find"]
  /\ UNCHANGED <<exec, req, cancelling, faults>>

(* One execution is scheduled for every queued row the process has room    *)
(* for, also when it has others for that row.                              *)
Schedulable(w) ==
  {e \in Execs : WorkerOf[e] = w /\ exec[e].pc = "idle" /\ RowOf(e).status = "queued"}

OnePerJob(S, A) ==
  /\ S \subseteq A
  /\ \A e, f \in S : JobOf[e] = JobOf[f] => e = f
  /\ \A e \in A : \E f \in S : JobOf[f] = JobOf[e]

RecoverFind(w) ==
  /\ recovery[w] = "find"
  /\ \E S \in SUBSET Schedulable(w) :
       /\ OnePerJob(S, Schedulable(w))
       /\ exec' = [e \in Execs |-> IF e \in S THEN Scheduled(FALSE) ELSE exec[e]]
  /\ recovery' = [recovery EXCEPT ![w] = "idle"]
  /\ UNCHANGED <<row, req, cancelling, faults>>

-----------------------------------------------------------------------------
(* The environment: time, crashes and rejected statements.                 *)

(* A running job's claimed_at falls behind the cutoff.  With SlowRuns      *)
(* FALSE an execution reaches its next statement, and so refreshes or      *)
(* settles its row, within ADMIN_JOB_CLAIM_TIMEOUT_MS.                     *)
ClaimExpires(j) ==
  /\ row[j].status = "running"
  /\ row[j].claim = "fresh"
  /\ SlowRuns \/ \A e \in Execs : JobOf[e] = j => ~Holds(e)
  /\ row' = [row EXCEPT ![j].claim = "stale"]
  /\ UNCHANGED <<exec, req, cancelling, recovery, faults>>

Fault == faults < MaxFaults /\ faults' = faults + 1

Crash(w) ==
  /\ Fault
  /\ exec' = [e \in Execs |-> IF WorkerOf[e] = w THEN IdleExec ELSE exec[e]]
  /\ req' = [r \in Requests |->
               IF RequestWorker[r] = w /\ req[r].pc # "done" THEN IdleReq ELSE req[r]]
  /\ recovery' = [recovery EXCEPT ![w] = "idle"]
  /\ UNCHANGED <<row, cancelling>>

(* A statement of the claim, or of the catch block, is rejected without    *)
(* effect: the execution ends with its error logged.                       *)
ClaimRejected(e) ==
  /\ exec[e].pc \in {"scheduled", "claimCancel", "claimUpdate", "claimFetch",
                     "noRunner", "catchRead", "catchCancel", "failWrite"}
  /\ Fault
  /\ Leave(e)
  /\ UNCHANGED <<row, req, cancelling, recovery>>

(* The claiming UPDATE took effect but its reply was lost: a running row   *)
(* that nobody runs.                                                       *)
ClaimReplyLost(e) ==
  /\ exec[e].pc = "claimUpdate"
  /\ Claimable(RowOf(e))
  /\ Fault
  /\ row' = [row EXCEPT ![JobOf[e]] = ClaimRow(@)]
  /\ Leave(e)
  /\ UNCHANGED <<req, cancelling, recovery>>

(* A statement inside the try block is rejected: the runner does not catch *)
(* it, so runPersistedJob's catch block does.  An addError has extended    *)
(* the context's list by then.                                             *)
RunRejected(e) ==
  /\ exec[e].pc \in {"running", "completeRead", "completeWrite"}
  /\ Fault
  /\ \E added \in {0, 1} :
       /\ added = 1 => Runs(e) /\ exec[e].errors < MaxErrors
       /\ exec' = [exec EXCEPT ![e].pc = CatchPc(exec[e].cancel),
                               ![e].errors = @ + added]
  /\ UNCHANGED <<row, req, cancelling, recovery>>

(* completePersistedJob's UPDATE took effect but its reply was lost. *)
CompleteReplyLost(e) ==
  /\ exec[e].pc = "completeWrite"
  /\ Fault
  /\ row' = [row EXCEPT ![JobOf[e]] = Complete(@, exec[e].cancel)]
  /\ Goto(e, CatchPc(exec[e].cancel))
  /\ UNCHANGED <<req, cancelling, recovery>>

(* A create request fails with an error; its client may send it again.  A  *)
(* save whose reply was lost has inserted the row but scheduled nothing.   *)
CreateRejected(r) ==
  /\ req[r].pc \in {"lookup", "save", "refind"}
  /\ Fault
  /\ req' = [req EXCEPT ![r] = IdleReq]
  /\ UNCHANGED <<row, exec, cancelling, recovery>>

SaveReplyLost(r) ==
  /\ req[r].pc = "save"
  /\ ~ViolatesUniqueKey(req[r].key)
  /\ Fault
  /\ \E j \in Jobs : row[j].status = "absent" /\ InsertRow(j, req[r].key)
  /\ req' = [req EXCEPT ![r] = IdleReq]
  /\ UNCHANGED <<exec, cancelling, recovery>>

CancelRejected(c) ==
  /\ cancelling[c] \in Jobs
  /\ Fault
  /\ cancelling' = [cancelling EXCEPT ![c] = NoJob]
  /\ UNCHANGED <<row, exec, req, recovery>>

RecoverRejected(w) ==
  /\ recovery[w] = "find"
  /\ Fault
  /\ recovery' = [recovery EXCEPT ![w] = "idle"]
  /\ UNCHANGED <<row, exec, req, cancelling>>

-----------------------------------------------------------------------------
RunnerStep(e) ==
  \/ SetProgress(e) \/ AddError(e) \/ ThrowIfCancellationRequested(e)
  \/ RunnerReturns(e) \/ RunnerThrows(e)

(* The steps an execution owes once it is scheduled; what the runner does  *)
(* before it ends is its own choice.                                       *)
OwedStep(e) ==
  \/ ClaimRead(e) \/ ClaimCancel(e) \/ ClaimUpdate(e) \/ ClaimFetch(e)
  \/ FailWrite(e) \/ CompleteRead(e) \/ CompleteWrite(e)
  \/ CatchRead(e) \/ CatchCancel(e)

CreateStep(r) ==
  \/ \E k \in Keys \cup {NoKey} : CreateBegin(r, k)
  \/ CreateLookup(r) \/ CreateSave(r) \/ CreateConflict(r) \/ CreateRefind(r)

FaultStep ==
  \/ \E w \in Workers : Crash(w) \/ RecoverRejected(w)
  \/ \E e \in Execs : ClaimRejected(e) \/ ClaimReplyLost(e) \/ RunRejected(e)
                      \/ CompleteReplyLost(e)
  \/ \E r \in Requests : CreateRejected(r) \/ SaveReplyLost(r)
  \/ \E c \in Cancellers : CancelRejected(c)

Next ==
  \/ \E e \in Execs : OwedStep(e) \/ RunnerStep(e)
  \/ \E r \in Requests : CreateStep(r)
  \/ \E c \in Cancellers : CancelWrite(c) \/ \E j \in Jobs : CancelRead(c, j)
  \/ \E w \in Workers : RecoverUpdate(w) \/ RecoverFind(w)
  \/ \E j \in Jobs : ClaimExpires(j)
  \/ FaultStep

Spec == Init /\ [][Next]_vars

(* Event loops run what is scheduled, runners end, the recovery timer      *)
(* fires and leases of dead executions run out.                            *)
Fairness ==
  /\ \A e \in Execs : WF_vars(OwedStep(e)) /\ WF_vars(RunnerReturns(e) \/ RunnerThrows(e))
  /\ \A w \in Workers : WF_vars(RecoverUpdate(w) \/ RecoverFind(w))
  /\ \A j \in Jobs : WF_vars(ClaimExpires(j))

FairSpec == Spec /\ Fairness

-----------------------------------------------------------------------------
(* Properties *)

(* At most one execution is inside a runner for a job, across all          *)
(* processes: claimPersistedJob and recoverAdminJobs never hand a job to a *)
(* second worker while the first runs it.                                  *)
ExclusiveRun ==
  \A e, f \in Execs : Runs(e) /\ Runs(f) /\ JobOf[e] = JobOf[f] => e = f

(* A job ends as cancelled only if an operator asked for it, whichever of  *)
(* the four places that write "cancelled" did so.                          *)
CancelledWasRequested ==
  \A j \in Jobs : row[j].status = "cancelled" => row[j].cancelRequested

(* Two create requests answered for the same (type, idempotency key) were  *)
(* answered with the same job: concurrent, retried or after a restart.     *)
SameKeySameJob ==
  \A r, s \in Requests :
    req[r].pc = "done" /\ req[s].pc = "done" /\ req[r].key = req[s].key
      /\ req[r].key # NoKey => req[r].job = req[s].job

(* A settled job is never queued or run again, not even by an execution    *)
(* that lost its lease or by a recovery that read the row before.          *)
SettledStaysSettled ==
  [][\A j \in Jobs : row[j].status \in Terminal => row'[j].status \in Terminal]_vars

(* "cancelled" and "failed" are final: no late write of the same or of     *)
(* another execution turns them into another outcome.                      *)
OutcomeFinal ==
  [][\A j \in Jobs : row[j].status \in {"cancelled", "failed"} =>
       row'[j].status = row[j].status]_vars

(* A job whose cancellation was requested while it was queued, or that     *)
(* recovery requeued with the request set, is never started.               *)
CancelledNeverStarts ==
  [][\A j \in Jobs : row[j].status # "running" /\ row[j].cancelRequested =>
       row'[j].status # "running"]_vars

(* A recorded cancellation request is withdrawn by nothing but the success *)
(* of the run it came too late for: no crash, restart or recovery loses it.*)
CancellationSurvives ==
  [][\A j \in Jobs : row[j].cancelRequested /\ ~row'[j].cancelRequested =>
       row'[j].status = "succeeded"]_vars

(* Recorded errors are never dropped, although every write replaces the    *)
(* whole list by the execution's own copy.                                 *)
ErrorsKept ==
  [][\A j \in Jobs : row'[j].errors >= row[j].errors]_vars

(* The operator's view of the jobs, see JobLifecycle: the runner of a      *)
(* running job is the execution that holds its claim.                      *)
PhaseOf(status) == IF status \in Terminal THEN "settled" ELSE status
LifePhase == [j \in Jobs |-> PhaseOf(row[j].status)]
LifeAsked == [j \in Jobs |-> row[j].cancelRequested]
LifeRunner ==
  [j \in Jobs |-> IF row[j].status = "running"
                   THEN {e \in Execs : JobOf[e] = j /\ Holds(e)} ELSE {}]

Life == INSTANCE JobLifecycle WITH
          phase <- LifePhase, asked <- LifeAsked, runner <- LifeRunner

(* The table, the executions and recovery together are such a lifecycle.   *)
ImplementsLifecycle == Life!Spec

(* Every job that is queued or running ends, through crashes, rejected     *)
(* statements and cancellations.                                           *)
JobsFinish ==
  \A j \in Jobs : row[j].status \in {"queued", "running"} ~> row[j].status \in Terminal

=============================================================================
