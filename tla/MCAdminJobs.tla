---------------------------- MODULE MCAdminJobs ----------------------------
(* Small instances of AdminJobs for TLC. *)
EXTENDS AdminJobs

(* Executions are numbered per process and job. *)
CONSTANTS w1, w2, j1, j2, r1, r2

MCWorkers == {w1, w2}

(* One job; two executions of it in w1 and one in w2. *)
ThreeExecs == {<<w1, j1, 1>>, <<w1, j1, 2>>, <<w2, j1, 1>>}

(* One execution of j1 per process; other rows stay queued. *)
OneEachExecs == MCWorkers \X {j1} \X {1}

MCWorkerOf == [e \in Execs |-> e[1]]
MCJobOf == [e \in Execs |-> e[2]]

(* The first request reaches w1, the second w2. *)
MCRequestWorker == [r \in Requests |-> IF r = r1 THEN w1 ELSE w2]

=============================================================================
