---------------------------- MODULE LoadBalancer ----------------------------
(***************************************************************************)
(* The load balancer of the Instance Manager: class TimeWindow. It keeps   *)
(* the load of the last WINDOW_SIZE heartbeats of the Node Manager and     *)
(* answers, once per round of the scheduler, whether to start or to stop a *)
(* worker. The module has the state, the update and the decision;          *)
(* AutoScaler composes them with the task pool and the worker machines.    *)
(*                                                                         *)
(* An entry of the window is the fraction jobs / per. Of the dict          *)
(* worker_allocation only its size and the first of its minimal keys are   *)
(* used; the latter depends on the order of the dict and is therefore      *)
(* fixed when the heartbeat is made.                                       *)
(***************************************************************************)
EXTENDS Integers, Sequences, FiniteSets, SequencesExt

CONSTANTS
    WINDOW_SIZE,
    MIN_JOBS_PER_WORKER,
    MAX_JOBS_PER_WORKER

ASSUME WindowAssumption ==
    /\ WINDOW_SIZE \in Nat \ {0}
    /\ MIN_JOBS_PER_WORKER \in Nat
    /\ MAX_JOBS_PER_WORKER \in Nat
    /\ MIN_JOBS_PER_WORKER <= MAX_JOBS_PER_WORKER

VARIABLES
    mean_total_tasks,    \* the window, oldest first
    worker_allocation    \* [size, least] of the last heartbeat

windowVars == <<mean_total_tasks, worker_allocation>>

WindowInit(nobody) ==
    /\ mean_total_tasks = <<>>
    /\ worker_allocation = [size |-> 0, least |-> nobody]

Load(jobs, size) == [jobs |-> jobs, per |-> IF size > 0 THEN size ELSE 1]

\* Mutant: old entries stay.
Kept(window) == window

Slid(window) == IF Len(window) > WINDOW_SIZE THEN Tail(window) ELSE window

\* update_node_manager, on a heartbeat [jobs, size, least]: jobs is
\* tasks_waiting + tasks_running.
UpdateNodeManager(hb) ==
    /\ mean_total_tasks' = Slid(Append(mean_total_tasks, Load(hb.jobs, hb.size)))
    /\ worker_allocation' = [size |-> hb.size, least |-> hb.least]

-----------------------------------------------------------------------------
(***************************************************************************)
(* _mean: the mean of the window, rounded to hundredths. (Python rounds a  *)
(* tie to even; a mean next to an integer threshold is never one with the  *)
(* few workers there are.)                                                 *)
(***************************************************************************)
Plus(x, y) == [jobs |-> x.jobs * y.per + y.jobs * x.per, per |-> x.per * y.per]

Hundredths ==
    LET total == FoldLeft(Plus, [jobs |-> 0, per |-> 1], mean_total_tasks)
        n == total.per * Len(mean_total_tasks)
    IN  (200 * total.jobs + n) \div (2 * n)

\* Mutant: a single job does not count.
HasSeveralJobs == mean_total_tasks # <<>> /\ Last(mean_total_tasks).jobs > 1

\* There is a heartbeat, and the last one has work in it.
HasWork == mean_total_tasks # <<>> /\ Last(mean_total_tasks).jobs > 0

\* "There was no worker, but there is work to do."
NobodyToWork == HasWork /\ worker_allocation.size = 0

Underloaded == 100 * MIN_JOBS_PER_WORKER > Hundredths

Overloaded == Hundredths > 100 * MAX_JOBS_PER_WORKER

(***************************************************************************)
(* get_action. `active` is the number of workers that are PENDING or       *)
(* RUNNING, `known` the number of worker instances.                        *)
(***************************************************************************)
Kills(active) ==
    /\ mean_total_tasks # <<>>
    /\ ~NobodyToWork
    /\ Underloaded
    /\ active > 0
    /\ ~(HasWork /\ worker_allocation.size = 1)
    /\ active >= worker_allocation.size

Creates(active, known) ==
    \/ NobodyToWork
    \/ /\ mean_total_tasks # <<>>
       /\ ~Underloaded
       /\ Overloaded
       /\ active # known
       /\ active <= worker_allocation.size
=============================================================================
