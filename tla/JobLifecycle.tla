---------------------------- MODULE JobLifecycle ----------------------------
(***************************************************************************)
(* What an operator may rely on about one admin job, whatever number of    *)
(* processes serve it: it is created once, run by at most one execution at *)
(* a time, run again only after that execution is gone, never started once *)
(* its cancellation is on record, and once settled never run again.  Jobs  *)
(* are independent: a step may advance several of them.                    *)
(* AdminJobs implements this while leases outlast the runs they cover.     *)
(***************************************************************************)
CONSTANTS Jobs, Execs

VARIABLES
  phase,   \* "absent", "queued", "running" or "settled"
  asked,   \* a cancellation is on record
  runner   \* the executions that run the job

lifeVars == <<phase, asked, runner>>

Init ==
  /\ phase = [j \in Jobs |-> "absent"]
  /\ asked = [j \in Jobs |-> FALSE]
  /\ runner = [j \in Jobs |-> {}]

Becomes(j, p, a, R) == phase'[j] = p /\ asked'[j] = a /\ runner'[j] = R

Create(j) == phase[j] = "absent" /\ Becomes(j, "queued", FALSE, {})

(* A job is started with no cancellation on record, by one execution, or   *)
(* by one that dies before it can begin. *)
Start(j) ==
  /\ phase[j] = "queued"
  /\ ~asked[j]
  /\ \/ Becomes(j, "running", FALSE, {})
     \/ \E e \in Execs : Becomes(j, "running", FALSE, {e})

Die(j) == phase[j] = "running" /\ Becomes(j, "running", asked[j], {})

Requeue(j) ==
  /\ phase[j] = "running"
  /\ runner[j] = {}
  /\ Becomes(j, "queued", asked[j], {})

(* A record of a cancellation may still arrive at a settled job. *)
Ask(j) == phase[j] # "absent" /\ Becomes(j, phase[j], TRUE, runner[j])

(* The execution that runs the job settles it; a success it had decided on *)
(* before it saw the cancellation withdraws it.                            *)
Settle(j) ==
  /\ phase[j] = "running"
  /\ runner[j] # {}
  /\ \E a \in BOOLEAN : Becomes(j, "settled", a, {})

Cancel(j) ==
  /\ phase[j] = "queued"
  /\ asked[j]
  /\ Becomes(j, "settled", TRUE, {})

Step(j) ==
  \/ Create(j) \/ Start(j) \/ Die(j) \/ Requeue(j) \/ Ask(j) \/ Settle(j)
  \/ Cancel(j)

Same(j) == Becomes(j, phase[j], asked[j], runner[j])

(* The domains stay the jobs; each job takes a step of its own or none. *)
Next ==
  /\ phase' = [j \in Jobs |-> phase'[j]]
  /\ asked' = [j \in Jobs |-> asked'[j]]
  /\ runner' = [j \in Jobs |-> runner'[j]]
  /\ \A j \in Jobs : Step(j) \/ Same(j)

Spec == Init /\ [][Next]_lifeVars

=============================================================================
