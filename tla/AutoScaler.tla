----------------------------- MODULE AutoScaler -----------------------------
(***************************************************************************)
(* The control loop of the cluster: the Node Manager's task pool reports   *)
(* its load with every heartbeat, the load balancer decides on what was    *)
(* reported, the scheduler starts and stops worker machines accordingly,   *)
(* and the answer to the heartbeat tells the pool which workers there are. *)
(*                                                                         *)
(* A worker is reduced to its exchanges with the pool: its heartbeats ask  *)
(* for a task, also for a second one while the answer to the first is on   *)
(* its way, and it reports the tasks it was handed, oldest first (InSync   *)
(* of NodeCluster). Its process, buffer and connection are left out.       *)
(* Heartbeats of the Node Manager that the Instance Manager is late to     *)
(* answer wait in the send buffer.                                         *)
(*                                                                         *)
(* vm[w] is a worker machine, as EC2 has it and as it is recorded:         *)
(*   "off"       STOPPED in both                                           *)
(*   "pending"   started; EC2 does not have it running yet                 *)
(*   "on"        EC2 has it running; recorded PENDING or RUNNING           *)
(*   "stopping"  told to stop and recorded STOPPING, although it may have  *)
(*               stopped since the last synchronisation with EC2           *)
(***************************************************************************)
EXTENDS TaskPool, LoadBalancer

CONSTANTS
    Listing,       \* the workers, in the order in which EC2 lists them
    MaxReports,    \* bound: heartbeats of the Node Manager not answered yet
    MaxHanded      \* bound: tasks that a worker is handed before it reports one

ASSUME ListingAssumption ==
    /\ Listing \in Seq(Workers)
    /\ Range(Listing) = Workers
    /\ MaxReports \in Nat \ {0} /\ MaxHanded \in Nat \ {0}

VARIABLES
    vm,
    reports,       \* heartbeats for the Instance Manager, sent and in the send buffer
    answers,       \* the answer under way to the Node Manager, at most one
    stolen,        \* history: tasks handed out by steal_task
    taken_back,    \* history: tasks taken from workers that had been handed them
    work_seen      \* history: did the pool of the last recorded heartbeat hold a task?

machineVars == <<vm, reports, answers>>
historyVars == <<stolen, taken_back, work_seen>>
vars == <<poolVars, windowVars, machineVars, historyVars>>

Init ==
    /\ PoolInit
    /\ WindowInit(None)
    /\ vm \in [Workers -> {"off", "on"}]
    /\ reports = <<>>
    /\ answers = <<>>
    /\ stolen = 0
    /\ taken_back = 0
    /\ work_seen = FALSE

-----------------------------------------------------------------------------
(***************************************************************************)
(* The heartbeat of the Node Manager. tasks_running is the number of keys  *)
(* of a Counter, one per known worker. The sum of two Counters has only    *)
(* the positive entries: worker_allocation lists the workers with a task.  *)
(***************************************************************************)
Allocated(w) == Len(task_assignment[w]) + Len(task_processing[w])

Busy == {w \in keys : Allocated(w) > 0}

LeastAllocated ==
    IF Busy = {} THEN {None}
    ELSE {w \in Busy : \A v \in Busy : Allocated(w) <= Allocated(v)}

\* tasks_waiting + tasks_running
ReportedJobs == all_assigned_tasks + Len(tasks) + Cardinality(keys)

\* A round of run_task_pool begins with generate_heartbeat.
GenerateHeartbeat ==
    /\ Len(reports) < MaxReports
    /\ RunTaskPool
    /\ \E w \in LeastAllocated :
        reports' = Append(reports, [jobs |-> ReportedJobs, size |-> Cardinality(Busy),
                                    least |-> w, work |-> InPool # {}])
    /\ UNCHANGED <<windowVars, vm, answers, historyVars>>

-----------------------------------------------------------------------------
(***************************************************************************)
(* The Instance Manager.                                                   *)
(***************************************************************************)
Active == {w \in Workers : vm[w] \in {"pending", "on"}}

\* read_ids with the filters is_worker and not is_running.
NotRunning == {w \in Workers : vm[w] # "on"}

FirstListed(S) == Head(SelectSeq(Listing, LAMBDA w : w \in S))

\* NodeMonitor.process_heartbeat for a heartbeat of the Node Manager, which sends
\* the next one when it has the answer to the last.
RecordHeartbeat ==
    /\ reports # <<>>
    /\ answers = <<>>
    /\ UpdateNodeManager(Head(reports))
    /\ work_seen' = Head(reports).work
    /\ reports' = Tail(reports)
    /\ answers' = <<Active>>
    /\ UNCHANGED <<poolVars, vm, stolen, taken_back>>

\* The branch for "create" in run, with start_worker: the first worker that
\* EC2 does not have running, unless it is not recorded as STOPPED.
StartWorker(w) ==
    /\ Creates(Cardinality(Active), Cardinality(Workers))
    /\ NotRunning # {}
    /\ w = FirstListed(NotRunning)
    /\ vm[w] = "off"
    /\ vm' = [vm EXCEPT ![w] = "pending"]
    /\ UNCHANGED <<poolVars, windowVars, reports, answers, historyVars>>

\* The branch for "kill" in run, with _kill_instance. The worker with the least
\* tasks is taken from the last heartbeat and may have been stopped before.
KillWorker(w) ==
    /\ Kills(Cardinality(Active))
    /\ w = IF worker_allocation.size > 0 THEN worker_allocation.least ELSE FirstListed(Active)
    /\ vm' = [vm EXCEPT ![w] = "stopping"]
    /\ UNCHANGED <<poolVars, windowVars, reports, answers, historyVars>>

\* A machine has booted and its program runs.
WorkerUp(w) ==
    /\ vm[w] = "pending"
    /\ vm' = [vm EXCEPT ![w] = "on"]
    /\ UNCHANGED <<poolVars, windowVars, reports, answers, historyVars>>

\* update_instances finds the machine stopped. A synchronisation comes every
\* BOTO_UPDATE_SEC; by then the Node Manager knows that the worker is gone.
StopRecorded(w) ==
    /\ vm[w] = "stopping"
    /\ step = "idle" /\ w \notin workers
    /\ \A current \in Range(answers) : w \notin current
    /\ vm' = [vm EXCEPT ![w] = "off"]
    /\ UNCHANGED <<poolVars, windowVars, reports, answers, historyVars>>

-----------------------------------------------------------------------------
(***************************************************************************)
(* The Node Manager and its workers.                                       *)
(***************************************************************************)
ReceiveAnswer ==
    /\ answers # <<>>
    /\ WorkerChange(Head(answers))
    /\ beat' = (reports # <<>>)
    /\ answers' = <<>>
    /\ UNCHANGED <<windowVars, vm, reports, historyVars>>

TakeBack(w) ==
    /\ RequeueStopped(w)
    /\ taken_back' = taken_back + Len(task_processing[w])
    /\ UNCHANGED <<windowVars, machineVars, stolen, work_seen>>

PoolStep ==
    /\ CreateTasks \/ AssignTask \/ EndAssign \/ RegisterNewWorkers
    /\ UNCHANGED <<windowVars, machineVars, historyVars>>

\* A machine that is being stopped may still run for a while, and what it sent
\* may arrive late.
Reachable(w) == vm[w] \in {"on", "stopping"}

Counted(w, reply) ==
    stolen + IF reply.kind = "task" /\ task_assignment[w] = <<>> THEN 1 ELSE 0

\* A heartbeat that asks for a task and gets one.
AskForTask(w) ==
    /\ Reachable(w)
    /\ Len(task_processing[w]) < MaxHanded
    /\ \E t \in Tasks :
        /\ ProcessHeartbeat(w, Heartbeat(FALSE), TaskCommand(t))
        /\ stolen' = Counted(w, TaskCommand(t))
    /\ UNCHANGED <<windowVars, machineVars, taken_back, work_seen>>

ReportDone(w) ==
    /\ Reachable(w)
    /\ task_processing[w] # <<>>
    /\ \E reply \in Answers :
        /\ ProcessDone(w, Done(Head(task_processing[w])), reply)
        /\ stolen' = Counted(w, reply)
    /\ UNCHANGED <<windowVars, machineVars, taken_back, work_seen>>

-----------------------------------------------------------------------------
Next ==
    \/ GenerateHeartbeat
    \/ RecordHeartbeat
    \/ ReceiveAnswer
    \/ PoolStep
    \/ \E w \in Workers :
        \/ StartWorker(w)
        \/ KillWorker(w)
        \/ WorkerUp(w)
        \/ StopRecorded(w)
        \/ TakeBack(w)
        \/ AskForTask(w)
        \/ ReportDone(w)

Spec == Init /\ [][Next]_vars

(***************************************************************************)
(* Fairness: the coroutines of both managers go on (strongly where another *)
(* handler may hold the event loop), packets arrive, a machine boots or    *)
(* stops when told so, and a worker that is on works. Nothing is assumed   *)
(* of the creation of tasks.                                               *)
(***************************************************************************)
PoolLoop == PoolStep /\ step # "idle"

Fairness ==
    /\ WF_vars(PoolLoop)
    /\ SF_vars(GenerateHeartbeat)
    /\ WF_vars(RecordHeartbeat)
    /\ SF_vars(ReceiveAnswer)
    /\ WF_vars(\E w \in Workers : StartWorker(w) \/ KillWorker(w))
    /\ \A w \in Workers :
        /\ WF_vars(WorkerUp(w))
        /\ SF_vars(StopRecorded(w))
        /\ WF_vars(TakeBack(w))
        /\ SF_vars(vm[w] = "on" /\ (AskForTask(w) \/ ReportDone(w)))

FairSpec == Spec /\ Fairness

-----------------------------------------------------------------------------
\* Types of the state beside the pool's.
TypeOK ==
    /\ mean_total_tasks \in Seq([jobs : Int, per : Nat \ {0}])
    /\ Len(mean_total_tasks) <= WINDOW_SIZE
    /\ worker_allocation \in [size : Nat, least : Workers \cup {None}]
    /\ vm \in [Workers -> {"off", "pending", "on", "stopping"}]
    /\ reports \in Seq([jobs : Int, size : Nat, least : Workers \cup {None}, work : BOOLEAN])
    /\ answers \in Seq(SUBSET Workers)
    /\ stolen \in Nat
    /\ taken_back \in Nat
    /\ work_seen \in BOOLEAN

\* What the pool holds for or has handed to workers, counted per queue entry.
Entries == SumFunctionOnSet([w \in Workers |-> Allocated(w)], keys)

\* By how much the counter is off, through every order of assigning, handing out,
\* stealing, reporting and taking back: all_assigned_tasks counts the entries of
\* both queues, a steal adds an entry without counting it, and a task taken back
\* from a worker that had been handed it stays counted for ever. This is what the
\* load balancer is told. It is not the "Number of tasks which are assigned but not
\* running" of the field's comment: that one is never negative, see WorkIsReported.
CounterLaw == all_assigned_tasks = Entries + taken_back - stolen

\* "There was no worker, but there is work to do" (get_action): while the pool
\* knows no worker, a heartbeat for a pool with tasks says that there is work. It
\* does if all_assigned_tasks is a "Number of tasks", as its comment has it.
WorkIsReported ==
    keys = {} /\ tasks # <<>> /\ step = "idle" => ReportedJobs > 0

\* With the load balancer deciding when there are workers, again and again every
\* created task has been popped by a report, unless the counter hides waiting
\* work from it: no other order of reports, starts, kills and steals leaves a
\* task behind.
RetiredOrHidden == []<>(Created \subseteq retired \/ ~WorkIsReported)

\* "There was no worker, but there is work to do" (get_action): a worker is
\* started only if the pool had a task in the last heartbeat.
StartsForWork ==
    [][\A w \in Workers : vm[w] = "off" /\ vm'[w] = "pending" => work_seen]_vars
=============================================================================
