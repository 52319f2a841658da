---------------------------- MODULE NodeCluster ----------------------------
(***************************************************************************)
(* The Node Manager (TaskPool) with its workers (NodeWorker) and what the  *)
(* Instance Manager does to them: it starts and stops worker instances,    *)
(* starts worker processes on them, and answers the Node Manager's         *)
(* heartbeats with the workers it has RUNNING or PENDING.                  *)
(*                                                                         *)
(* The policy by which the Instance Manager decides is left open here: it  *)
(* may stop any worker at any time, up to MaxKills times.                  *)
(*                                                                         *)
(* vm[w] is worker instance w as the Instance Manager records it:          *)
(*   "new"       STOPPED, and not started since the Instance Manager is up *)
(*   "on"        PENDING or RUNNING                                        *)
(*   "stopping"  stop_instances was called; the machine still runs         *)
(*   "off"       STOPPED again                                             *)
(***************************************************************************)
EXTENDS TaskPool, NodeWorker

CONSTANTS
    MaxKills,     \* bound: how often the Instance Manager stops a worker
    ImMayFail,    \* may the connection to the Instance Manager break?
    MayMissStop   \* may a worker come back before the Node Manager heard of its stop?

ASSUME ClusterAssumption ==
    /\ MaxKills \in Nat
    /\ ImMayFail \in BOOLEAN
    /\ MayMissStop \in BOOLEAN

VARIABLES
    vm,
    im_conn,      \* the Node Manager's connection to the Instance Manager
    im_answers,   \* the answer under way to the Node Manager, at most one
    kills

clusterVars == <<vm, im_conn, im_answers, kills>>
vars == <<poolVars, workerVars, clusterVars>>

VMs == {"new", "on", "stopping", "off"}

Init ==
    /\ PoolInit
    /\ WorkerInit
    /\ vm = [w \in Workers |-> "new"]
    /\ im_conn = "open"
    /\ im_answers = <<>>
    /\ kills = 0

-----------------------------------------------------------------------------
(***************************************************************************)
(* The Instance Manager.                                                   *)
(***************************************************************************)
\* start_worker for an instance that was never on.
BootWorker(w) ==
    /\ vm[w] = "new"
    /\ vm' = [vm EXCEPT ![w] = "on"]
    /\ UNCHANGED <<poolVars, workerVars, im_conn, im_answers, kills>>

(***************************************************************************)
(* start_worker for an instance that was on before. A stopped instance is  *)
(* seen as such no earlier than the next synchronisation with EC2          *)
(* (BOTO_UPDATE_SEC), while the Node Manager hears which workers are on    *)
(* with every heartbeat (HEART_BEAT_INTERVAL_NODE_MANAGER): by then it     *)
(* knows that the worker was gone, and what the worker had sent has        *)
(* arrived or is lost. Only a Node Manager that is cut off from the        *)
(* Instance Manager may miss it.                                           *)
(***************************************************************************)
HeardOfStop(w) == w \notin workers /\ im_answers = <<>> /\ step = "idle"

RestartWorker(w) ==
    /\ vm[w] = "off"
    /\ HeardOfStop(w) \/ (MayMissStop /\ im_conn = "lost")
    /\ \A p \in On(w) : conn[p] = "down"
    /\ vm' = [vm EXCEPT ![w] = "on"]
    /\ UNCHANGED <<poolVars, workerVars, im_conn, im_answers, kills>>

\* _kill_instance: the state is STOPPING at once, the machine stops later.
KillWorker(w) ==
    /\ vm[w] = "on"
    /\ kills < MaxKills
    /\ vm' = [vm EXCEPT ![w] = "stopping"]
    /\ kills' = kills + 1
    /\ UNCHANGED <<poolVars, workerVars, im_conn, im_answers>>

MachineStops(w) ==
    /\ vm[w] = "stopping"
    /\ vm' = [vm EXCEPT ![w] = "off"]
    /\ StopInstance(w)
    /\ UNCHANGED <<poolVars, im_conn, im_answers, kills>>

\* The start command that the Instance Manager sends to an instance that is on,
\* again after each START_SIGNAL_TIMEOUT until it has recorded a heartbeat. The
\* worker's connection to the Instance Manager is not the one to the Node
\* Manager: a process may have come any distance here by then.
StartCommand(p) ==
    /\ vm[instance_id[p]] = "on"
    /\ StartProcess(p)
    /\ UNCHANGED <<poolVars, clusterVars>>

\* _generate_nm_response, when a heartbeat of the Node Manager arrives.
AnswerNodeManager ==
    /\ beat
    /\ im_conn = "open"
    /\ im_answers = <<>>
    /\ im_answers' = <<{w \in Workers : vm[w] = "on"}>>
    /\ UNCHANGED <<poolVars, workerVars, vm, im_conn, kills>>

\* The connection breaks: run() of the TaskPoolMonitor ends and is never started
\* again, while the other coroutines of the Node Manager go on.
ImConnectionLost ==
    /\ ImMayFail
    /\ im_conn = "open"
    /\ im_conn' = "lost"
    /\ im_answers' = <<>>
    /\ UNCHANGED <<poolVars, workerVars, vm, kills>>

-----------------------------------------------------------------------------
(***************************************************************************)
(* The Node Manager.                                                       *)
(***************************************************************************)
ReceiveAnswer ==
    /\ im_answers # <<>>
    /\ WorkerChange(Head(im_answers))
    /\ beat' = FALSE
    /\ im_answers' = <<>>
    /\ UNCHANGED <<workerVars, vm, im_conn, kills>>

PoolStep ==
    /\ \/ CreateTasks
       \/ RunTaskPool
       \/ AssignTask
       \/ EndAssign
       \/ \E w \in Workers : RequeueStopped(w)
       \/ RegisterNewWorkers
    /\ UNCHANGED <<workerVars, clusterVars>>

\* The server of the Node Manager handles the request of process p.
ServeHeartbeat(p) ==
    /\ wire[p].kind = "heartbeat"
    /\ \E reply \in Answers :
        /\ ProcessHeartbeat(instance_id[p], wire[p], reply)
        /\ Respond(p, reply)
    /\ UNCHANGED clusterVars

ServeDone(p) ==
    /\ wire[p].kind = "done"
    /\ \E reply \in Answers \cup {HandlerError} :
        /\ ProcessDone(instance_id[p], wire[p], reply)
        /\ Respond(p, reply)
    /\ UNCHANGED clusterVars

-----------------------------------------------------------------------------
(***************************************************************************)
(* The workers.                                                            *)
(***************************************************************************)
\* The download of a task raises when its file is not in the bucket, and
\* whenever the access to S3 fails.
Crash(p) ==
    /\ Ready(p)
    /\ StorageMayFail \/ Head(task_queue[p]) \notin bucket
    /\ ProcessCrash(p)

WorkerStep(p) ==
    /\ \/ GenerateHeartbeat(p)
       \/ Process(p, bucket)
       \/ Crash(p)
       \/ Connect(p)
       \/ ClientSend(p)
       \/ ClientReceive(p)
       \/ ClientEof(p)
       \/ NetFail(p)
       \/ ServerClose(p)
       \/ LoseRequest(p)
    /\ UNCHANGED <<poolVars, clusterVars>>

-----------------------------------------------------------------------------
Next ==
    \/ \E w \in Workers :
        BootWorker(w) \/ RestartWorker(w) \/ KillWorker(w) \/ MachineStops(w)
    \/ AnswerNodeManager
    \/ ImConnectionLost
    \/ ReceiveAnswer
    \/ PoolStep
    \/ \E p \in Procs :
        StartCommand(p) \/ ServeHeartbeat(p) \/ ServeDone(p) \/ WorkerStep(p)

Spec == Init /\ [][Next]_vars

(***************************************************************************)
(* Fairness. Every coroutine of the two event loops is scheduled again and *)
(* again (asyncio runs ready callbacks first in, first out), TCP delivers, *)
(* and the Instance Manager boots new workers and sends them their start   *)
(* command. A handler of the Node Manager is disabled while a loop of      *)
(* another handler holds the event loop: strong fairness. A machine that   *)
(* was told to stop does. While the Node Manager's heartbeat reports work  *)
(* and no worker, get_action asks for one in every round, so a worker that *)
(* was stopped is started again. Nothing is assumed of task creation and   *)
(* of stops.                                                               *)
(***************************************************************************)
PoolLoop == PoolStep /\ step # "idle"

\* get_action: "There was no worker, but there is work to do."
WorkButNoWorker == keys = {} /\ all_assigned_tasks + Len(tasks) > 0

Fairness ==
    /\ WF_vars(PoolLoop)
    /\ SF_vars(RunTaskPool /\ UNCHANGED <<workerVars, clusterVars>>)
    /\ WF_vars(AnswerNodeManager)
    /\ SF_vars(ReceiveAnswer)
    /\ \A w \in Workers :
        /\ WF_vars(BootWorker(w))
        /\ WF_vars(MachineStops(w))
        /\ SF_vars(WorkButNoWorker /\ RestartWorker(w))
    /\ \A p \in Procs :
        /\ WF_vars(StartCommand(p))
        /\ SF_vars(ServeHeartbeat(p) \/ ServeDone(p))
        /\ WF_vars(GenerateHeartbeat(p) /\ UNCHANGED <<poolVars, clusterVars>>)
        /\ WF_vars(Process(p, bucket) /\ UNCHANGED <<poolVars, clusterVars>>)
        /\ WF_vars(Connect(p) /\ UNCHANGED <<poolVars, clusterVars>>)
        /\ WF_vars(ClientSend(p) /\ UNCHANGED <<poolVars, clusterVars>>)
        /\ WF_vars(ClientReceive(p) /\ UNCHANGED <<poolVars, clusterVars>>)

FairSpec == Spec /\ Fairness

-----------------------------------------------------------------------------
\* Types of the whole state.
TypeOK ==
    /\ PoolTypeOK
    /\ WorkerTypeOK
    /\ vm \in [Workers -> VMs]
    /\ im_conn \in {"open", "lost"}
    /\ im_answers \in Seq(SUBSET Workers)
    /\ kills \in 0 .. MaxKills

\* No task is lost: a created task is still held by the Node Manager's pool
\* unless some worker has executed it, through every mixture of stealing,
\* worker stops seen late, restarts, crashed workers and broken connections.
\* process_command pops the oldest task of a worker without looking at which
\* task the worker reports, so this rests on the order of the tasks being the
\* same on both sides.
NoTaskLost == Created \subseteq InPool \cup executed

(***************************************************************************)
(* What process p still owes the Node Manager, oldest first: reports under *)
(* way and waiting, the task that crashed it, its queue, and a task under  *)
(* way to it.                                                              *)
(***************************************************************************)
WithReport(reported, packet) ==
    IF packet.kind = "done" THEN Append(reported, packet.task) ELSE reported

Reports(s) ==
    LET upTo[n \in 0 .. Len(s)] == IF n = 0 THEN <<>> ELSE WithReport(upTo[n - 1], s[n])
    IN  upTo[Len(s)]

Owed(p) ==
    (IF conn[p] = "req" THEN Reports(<<wire[p]>>) ELSE <<>>)
    \o Reports(send_buffer[p])
    \o (IF current_task[p] = None THEN <<>> ELSE <<current_task[p]>>)
    \o task_queue[p]
    \o (IF conn[p] = "resp" /\ wire[p].kind = "task" THEN <<wire[p].task>> ELSE <<>>)

\* Both sides of a working connection agree: task_processing of a worker that
\* the pool knows, "Tasks currently being processed" (line 37), is exactly what
\* its process still owes, in the same order.
InSync ==
    \A p \in Procs :
        LET w == instance_id[p]
        IN  w \in keys /\ running[p] /\ conn[p] \in {"down", "idle", "req", "resp"}
            => task_processing[w] = Owed(p)

\* When a report of a known worker is handled, the task that process_command
\* pops is the one reported, and neither popleft nor assign_time[...] raises:
\* no connection is ever closed by a handler.
DonePopsItsTask ==
    \A p \in Procs :
        conn[p] = "req" /\ wire[p].kind = "done" /\ instance_id[p] \in workers /\ step = "idle"
        => /\ task_processing[instance_id[p]] # <<>>
           /\ Head(task_processing[instance_id[p]]) = wire[p].task
           /\ wire[p].task \in assign_time

\* Every created task is eventually executed: by the worker it was assigned
\* to or, when that worker is stopped with the task at any stage, by the worker
\* it is assigned to after it went back to the pool.
EventuallyExecuted == \A t \in Tasks : t \in Created ~> t \in executed

(***************************************************************************)
(* What a comment of the code says and the code does not do.               *)
(***************************************************************************)
\* "Add all tasks remaining in stopped worker assignments back to the taskpool"
\* (line 224): once every worker is stopped and the Node Manager knows it, the
\* taskpool holds every task that was not executed.
RemainingGoBack ==
    keys = {} /\ (\A w \in Workers : vm[w] = "off")
    => Created \subseteq Range(tasks) \cup executed

\* The service that the Node Manager and its workers provide together.
Service == INSTANCE TaskService WITH
    submitted <- Created, outstanding <- InPool, executed <- executed

\* The cluster implements that service: what a task pool may do with a task.
ImplementsService == Service!Spec
=============================================================================
