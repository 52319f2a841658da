------------------------------ MODULE TaskPool ------------------------------
(***************************************************************************)
(* The task pool of the Node Manager: class TaskPool, with the part of     *)
(* TaskPoolMonitor.process_heartbeat that rewrites it.                     *)
(*                                                                         *)
(* The Node Manager is one asyncio event loop. A coroutine runs from one   *)
(* await to the next without interruption, so a handler is one action. The *)
(* two handlers with a loop over shared state (run_task_pool and           *)
(* process_heartbeat of the monitor) are split into one action per         *)
(* iteration; `step` says which loop holds the event loop, and no other    *)
(* handler of the Node Manager runs until the loop has ended.              *)
(*                                                                         *)
(* Here the workers and the Instance Manager are an arbitrary environment: *)
(* any worker may send a heartbeat or a "done", and the Instance Manager   *)
(* may announce any set of workers. NodeCluster composes the pool with the *)
(* real workers.                                                           *)
(***************************************************************************)
EXTENDS Packets, Integers, Sequences, FiniteSets, SequencesExt

CONSTANTS
    Benchmark,       \* the rows of the scenario file, sorted on Time
    StorageMayFail   \* may an access to S3 fail (upload_file swallows it)?

ASSUME BenchmarkAssumption ==
    /\ Benchmark \in Seq(Tasks)
    /\ StorageMayFail \in BOOLEAN

VARIABLES
    benchmark_tasks,     \* rows of the scenario that are not yet due
    bucket,              \* keys present in the files bucket on S3
    tasks,               \* available and unassigned tasks
    all_assigned_tasks,  \* the counter reported as part of tasks_waiting
    keys,                \* keys of the dicts task_assignment, task_processing
    task_assignment,     \* per worker, tasks waiting for that worker
    task_processing,     \* per worker, tasks handed to that worker
    workers,             \* _workers_running + _workers_pending
    assign_time,         \* keys of the dict assign_time
    step,                \* which handler loop holds the event loop
    stopped_workers,     \* locals of the monitor's process_heartbeat
    new_workers,
    beat,                \* a heartbeat waits for, or awaits, the IM's answer
    retired              \* history: tasks popped from task_processing by "done"

poolVars == <<benchmark_tasks, bucket, tasks, all_assigned_tasks, keys,
              task_assignment, task_processing, workers, assign_time, step,
              stopped_workers, new_workers, beat, retired>>

Steps == {"idle", "assign", "change"}

-----------------------------------------------------------------------------
PoolInit ==
    /\ benchmark_tasks = Benchmark
    /\ bucket = {}
    /\ tasks = <<>>
    /\ all_assigned_tasks = 0
    /\ keys = {}
    /\ task_assignment = [w \in Workers |-> <<>>]
    /\ task_processing = [w \in Workers |-> <<>>]
    /\ workers = {}
    /\ assign_time = {}
    /\ step = "idle"
    /\ stopped_workers = {}
    /\ new_workers = {}
    /\ beat = FALSE
    /\ retired = {}

(***************************************************************************)
(* One tick of create_full_taskpool: the n rows that are due are uploaded  *)
(* (register_task) and appended. upload_file catches a failed upload, so a *)
(* row is appended whether or not its file reached the bucket. When        *)
(* register_task raises all the same, the coroutine ends and no further    *)
(* task is created: the rows left never become due.                        *)
(***************************************************************************)
Due(n) == SubSeq(benchmark_tasks, 1, n)

CreateTasks ==
    /\ step = "idle"
    /\ \E n \in 1 .. Len(benchmark_tasks) :
        /\ \E stored \in SUBSET Range(Due(n)) :
            /\ StorageMayFail \/ stored = Range(Due(n))
            /\ bucket' = bucket \cup stored
        /\ tasks' = tasks \o Due(n)
        /\ benchmark_tasks' = SubSeq(benchmark_tasks, n + 1, Len(benchmark_tasks))
    /\ UNCHANGED <<all_assigned_tasks, keys, task_assignment, task_processing,
                   workers, assign_time, step, stopped_workers, new_workers, beat, retired>>

-----------------------------------------------------------------------------
(***************************************************************************)
(* One round of run_task_pool: send a heartbeat, then give every available *)
(* task to a worker that has the fewest. Ties are broken by dict order in  *)
(* the code and by an arbitrary choice here.                               *)
(***************************************************************************)
RunTaskPool ==
    /\ step = "idle"
    /\ step' = "assign"
    /\ beat' = TRUE
    /\ UNCHANGED <<benchmark_tasks, bucket, tasks, all_assigned_tasks, keys,
                   task_assignment, task_processing, workers, assign_time,
                   stopped_workers, new_workers, retired>>

LeastLoaded ==
    {w \in keys : \A v \in keys : Len(task_assignment[w]) <= Len(task_assignment[v])}

\* Mutant: the time is recorded only if there is none yet for any task.
TimedFirstOnly(t) == IF assign_time = {} THEN {t} ELSE assign_time

\* self.assign_time[task] = time()
Timed(t) == assign_time \cup {t}

AssignTask ==
    /\ step = "assign"
    /\ tasks # <<>>
    /\ workers # {}
    /\ \E w \in LeastLoaded :
        task_assignment' = [task_assignment EXCEPT ![w] = Append(@, Head(tasks))]
    /\ tasks' = Tail(tasks)
    /\ assign_time' = Timed(Head(tasks))
    /\ all_assigned_tasks' = all_assigned_tasks + 1
    /\ UNCHANGED <<benchmark_tasks, bucket, keys, task_processing, workers, step,
                   stopped_workers, new_workers, beat, retired>>

EndAssign ==
    /\ step = "assign"
    /\ tasks = <<>> \/ workers = {}
    /\ step' = "idle"
    /\ UNCHANGED <<benchmark_tasks, bucket, tasks, all_assigned_tasks, keys,
                   task_assignment, task_processing, workers, assign_time,
                   stopped_workers, new_workers, beat, retired>>

-----------------------------------------------------------------------------
(***************************************************************************)
(* The answer of the Instance Manager to a heartbeat of the Node Manager   *)
(* lists the workers it has RUNNING or PENDING:                            *)
(* TaskPoolMonitor.process_heartbeat with TaskPool.worker_change.          *)
(* The tasks of every worker that left go back to the pool, then every     *)
(* worker that joined gets two empty queues. Further heartbeats may wait   *)
(* in the send buffer.                                                     *)
(***************************************************************************)
\* Mutant: every announced worker counts as new.
AnnouncedAsNew(current) == current

NewWorkers(current) == current \ workers

WorkerChange(current) ==
    /\ step = "idle"
    /\ beat
    /\ beat' \in BOOLEAN
    /\ stopped_workers' = workers \ current
    /\ new_workers' = NewWorkers(current)
    /\ workers' = current
    /\ step' = "change"
    /\ UNCHANGED <<benchmark_tasks, bucket, tasks, all_assigned_tasks, keys,
                   task_assignment, task_processing, assign_time, retired>>

\* Mutant: only the tasks still waiting for the worker go back.
RequeuedAssigned(w) == tasks \o task_assignment[w]

\* Mutant: the deque itself is appended instead of its elements.
RequeuedAsOne(w) == task_processing[w] \o tasks \o <<task_assignment[w]>>

Requeued(w) == task_processing[w] \o tasks \o task_assignment[w]

\* Mutant: the tasks that were waiting for the worker stay counted.
StillCounted(w) == all_assigned_tasks

Uncounted(w) == all_assigned_tasks - Len(task_assignment[w])

RequeueStopped(w) ==
    /\ step = "change"
    /\ w \in stopped_workers
    /\ all_assigned_tasks' = Uncounted(w)
    /\ tasks' = Requeued(w)
    /\ task_assignment' = [task_assignment EXCEPT ![w] = <<>>]
    /\ task_processing' = [task_processing EXCEPT ![w] = <<>>]
    /\ keys' = keys \ {w}
    /\ stopped_workers' = stopped_workers \ {w}
    /\ UNCHANGED <<benchmark_tasks, bucket, workers, assign_time, step,
                   new_workers, beat, retired>>

RegisterNewWorkers ==
    /\ step = "change"
    /\ stopped_workers = {}
    /\ keys' = keys \cup new_workers
    /\ task_assignment' = [w \in Workers |-> IF w \in new_workers THEN <<>> ELSE task_assignment[w]]
    /\ task_processing' = [w \in Workers |-> IF w \in new_workers THEN <<>> ELSE task_processing[w]]
    /\ new_workers' = {}
    /\ step' = "idle"
    /\ UNCHANGED <<benchmark_tasks, bucket, tasks, all_assigned_tasks, workers,
                   assign_time, stopped_workers, beat, retired>>

-----------------------------------------------------------------------------
(***************************************************************************)
(* Handing a task to worker w, whose deque in task_processing is           *)
(* `processing` at that moment. A worker with an empty queue steals the    *)
(* last task of a worker with the most tasks, if that one has at least     *)
(* two; steal_task also appends the stolen task to the thief's own queue.  *)
(***************************************************************************)
GiveOwn(w, t, processing) ==
    /\ task_assignment[w] # <<>>
    /\ t = Head(task_assignment[w])
    /\ task_assignment' = [task_assignment EXCEPT ![w] = Tail(@)]
    /\ task_processing' = [task_processing EXCEPT ![w] = Append(processing, t)]

MostLoaded ==
    {v \in keys : \A u \in keys : Len(task_assignment[u]) <= Len(task_assignment[v])}

StealTask(w, t, processing) ==
    /\ task_assignment[w] = <<>>
    /\ \E victim \in MostLoaded :
        /\ Len(task_assignment[victim]) >= 2
        /\ t = Last(task_assignment[victim])
        /\ task_assignment' = [task_assignment EXCEPT ![victim] = Front(@),
                                                      ![w] = Append(@, t)]
    /\ task_processing' = [task_processing EXCEPT ![w] = Append(processing, t)]

NothingToGive(w) ==
    /\ task_assignment[w] = <<>>
    /\ \A v \in keys : Len(task_assignment[v]) < 2

(***************************************************************************)
(* TaskPool.process_heartbeat: a worker that has no task outstanding       *)
(* (no_hb_task is FALSE) is given one.                                     *)
(***************************************************************************)
ProcessHeartbeat(w, hb, reply) ==
    /\ step = "idle"
    /\ \/ /\ hb.no_hb_task \/ w \notin keys
          /\ reply = hb
          /\ UNCHANGED <<task_assignment, task_processing>>
       \/ /\ ~hb.no_hb_task /\ w \in keys
          /\ \E t \in Tasks :
              /\ GiveOwn(w, t, task_processing[w]) \/ StealTask(w, t, task_processing[w])
              /\ reply = TaskCommand(t)
       \/ /\ ~hb.no_hb_task /\ w \in keys
          /\ NothingToGive(w)
          /\ reply = hb
          /\ UNCHANGED <<task_assignment, task_processing>>
    /\ UNCHANGED <<benchmark_tasks, bucket, tasks, all_assigned_tasks, keys, workers,
                   assign_time, step, stopped_workers, new_workers, beat, retired>>

\* Mutant: pop() instead of popleft().
RestPopped(w) == Front(task_processing[w])

\* What popleft() leaves of the tasks handed to w.
Rest(w) == Tail(task_processing[w])

(***************************************************************************)
(* TaskPool.process_command for "done": the OLDEST task of the worker is   *)
(* popped, whichever task the worker reports (that one only looks up       *)
(* assign_time). popleft on an empty deque raises IndexError; looking up   *)
(* an unknown task raises KeyError after the pop and the decrement.        *)
(***************************************************************************)
ProcessDone(w, command, reply) ==
    /\ step = "idle"
    /\ \/ /\ w \notin workers
          /\ reply = command
          /\ UNCHANGED <<task_assignment, task_processing, all_assigned_tasks, retired>>
       \/ /\ w \in workers
          /\ task_processing[w] = <<>>
          /\ reply = HandlerError
          /\ UNCHANGED <<task_assignment, task_processing, all_assigned_tasks, retired>>
       \/ /\ w \in workers
          /\ task_processing[w] # <<>>
          /\ command.task \notin assign_time
          /\ reply = HandlerError
          /\ all_assigned_tasks' = all_assigned_tasks - 1
          /\ retired' = retired \cup {Head(task_processing[w])}
          /\ task_processing' = [task_processing EXCEPT ![w] = Rest(w)]
          /\ UNCHANGED task_assignment
       \/ /\ w \in workers
          /\ task_processing[w] # <<>>
          /\ command.task \in assign_time
          /\ all_assigned_tasks' = all_assigned_tasks - 1
          /\ retired' = retired \cup {Head(task_processing[w])}
          /\ \/ \E u \in Tasks :
                 /\ GiveOwn(w, u, Rest(w)) \/ StealTask(w, u, Rest(w))
                 /\ reply = TaskCommand(u)
             \/ /\ NothingToGive(w)
                /\ reply = command
                /\ task_processing' = [task_processing EXCEPT ![w] = Rest(w)]
                /\ UNCHANGED task_assignment
    /\ UNCHANGED <<benchmark_tasks, bucket, tasks, keys, workers, assign_time, step,
                   stopped_workers, new_workers, beat>>

-----------------------------------------------------------------------------
PoolNext ==
    \/ CreateTasks
    \/ RunTaskPool
    \/ AssignTask
    \/ EndAssign
    \/ \E current \in SUBSET Workers : WorkerChange(current)
    \/ \E w \in Workers : RequeueStopped(w)
    \/ RegisterNewWorkers
    \/ \E w \in Workers, hb \in Heartbeats, reply \in Answers :
        ProcessHeartbeat(w, hb, reply)
    \/ \E w \in Workers, command \in Dones, reply \in Answers \cup {HandlerError} :
        ProcessDone(w, command, reply)

PoolSpec == PoolInit /\ [][PoolNext]_poolVars

-----------------------------------------------------------------------------
(***************************************************************************)
(* Properties.                                                             *)
(***************************************************************************)
\* Types of the pool's state.
PoolTypeOK ==
    /\ benchmark_tasks \in Seq(Tasks)
    /\ bucket \in SUBSET Tasks
    /\ tasks \in Seq(Tasks)
    /\ all_assigned_tasks \in Int
    /\ keys \in SUBSET Workers
    /\ task_assignment \in [Workers -> Seq(Tasks)]
    /\ task_processing \in [Workers -> Seq(Tasks)]
    /\ workers \in SUBSET Workers
    /\ assign_time \in SUBSET Tasks
    /\ step \in Steps
    /\ stopped_workers \in SUBSET Workers
    /\ new_workers \in SUBSET Workers
    /\ beat \in BOOLEAN
    /\ retired \in SUBSET Tasks

\* The dicts task_assignment and task_processing have a key for exactly the
\* workers the pool knows, except that inside the monitor's loop the workers
\* that left still have theirs and the ones that joined do not yet. This is
\* what keeps every subscript of a handler from raising KeyError, `del` in the
\* loop included, and min() in run_task_pool from seeing an empty dict after
\* the task was already popped.
KeysAgree ==
    /\ keys = (workers \ new_workers) \cup stopped_workers
    /\ new_workers \subseteq workers
    /\ stopped_workers \cap workers = {}
    /\ step # "change" => new_workers = {} /\ stopped_workers = {}

\* The tasks queued for worker w or handed to it.
Held(w) == Range(task_assignment[w]) \cup Range(task_processing[w])

\* The tasks that the pool still holds somewhere.
InPool == Range(tasks) \cup UNION {Held(w) : w \in keys}

\* Tasks taken from the scenario file so far.
Created == Range(Benchmark) \ Range(benchmark_tasks)

\* No handler drops a task: whatever the workers and the Instance Manager send,
\* every created task is still held by the pool unless a "done" popped it.
\* Stealing, requeueing the tasks of a stopped worker (both of its queues) and
\* registering a worker whose id was used before are the steps that could.
NoTaskDropped == Created \subseteq InPool \cup retired

\* A task that is queued for a worker or handed to one has its assign_time, so
\* the look-up in process_command finds it when the worker reports it done,
\* also after the task went back to the pool and was assigned again.
AssignedAreTimed == \A w \in keys : Held(w) \subseteq assign_time
=============================================================================
