# A verification of SentiCloud's task distribution

SentiCloud distributes sentiment-analysis tasks over EC2 machines. This
directory holds TLA+ modules of the part of the program that carries its logic
(`src/src/aws`), TLC configurations that check them on small instances, and
TLAPS proofs of what holds for every instance.

## The system

| Component | State | Operations | Talks to |
|---|---|---|---|
| Instance Manager (`instancemanager.py`: `Instances`, `NodeScheduler`, `NodeMonitor`) | recorded state, last heartbeat, last start signal, charge time and address per instance | start the node manager, start and stop workers, check that instances are alive, repeat start commands, answer heartbeats, shut down | EC2 and SSM (boto), heartbeats of all instances |
| Node Manager (`nodemanager.py`: `TaskPool`, `TaskPoolMonitor`) | unassigned tasks, per worker a queue of assigned and a queue of handed-out tasks, the workers it knows, counters | create tasks, assign, hand out, steal, take back the tasks of a stopped worker | workers (server), Instance Manager (client), S3 |
| Worker (`nodeworker.py`: `WorkerCore`, `WorkerMonitor`) | task queue, current task, the flag `_task_command_received`, send buffer | heartbeat, process a task, report it | Node Manager and Instance Manager (client), S3 |
| Connections (`connection.py`, `packets.py`, `monitor.py`) | send buffer, connection | send a packet and await the answer; the server answers or closes | |
| Load balancer (`instancemanager.py`: `TimeWindow`) | the load of the last heartbeats of the Node Manager, the last worker allocation | record a heartbeat; decide to start or to stop a worker | called by the scheduler and the server of the Instance Manager |
| Resource manager (`resourcemanager.py`) | buckets, log file and its copy | create and delete buckets, upload and download a file, upload the log | S3, shared by all programs |
| States (`state.py`), EC2 view (`botoutils.py`) | | conversion of EC2's answer, filters | |
| `main.py`, `Senti.py`, `Tokenize.py`, `Glove.py`, `experiment.py`, `app.py` | none that matters here | command line, numerical code, plots, a web page | |

A task is created by the Node Manager (its file goes to S3), assigned to the
least loaded worker, handed to that worker in the answer to a heartbeat or to
the report of another task, downloaded and executed there, and reported done.
Every 2 seconds the Node Manager sends a heartbeat; the answer lists the workers
that the Instance Manager has PENDING or RUNNING, and the Node Manager adapts.

What is hard here:

- three programs with an event loop each, whose views of "which workers are
  there" differ for seconds to a minute;
- `process_command` pops the *oldest* task of a worker, not the one reported,
  so both sides must agree on an order that nothing in the protocol carries;
- stealing puts a task into two queues on purpose or by accident;
- stopped workers with tasks at every stage of the way, restarted under the same
  id, and start commands that are repeated because the first answer is late;
- a control loop over a number (`all_assigned_tasks`) that four places adjust and
  none recomputes, with decisions on what was reported seconds ago;
- logs that are copied, cleared and uploaded in steps between which a machine may
  be stopped, and buckets that programs check, create and delete without a lock;
- timeouts that race with late heartbeats, and exceptions in the middle of a
  handler, which end a coroutine for good.

`PROJECT.json` lists these hazards line by line with the properties about them.

## Modules

| Module | Models | Composes |
|---|---|---|
| `Packets` | the packets between a worker and the Node Manager | |
| `TaskPool` | `TaskPool`, `TaskPoolMonitor` | `Packets` |
| `NodeWorker` | `WorkerCore` on the client of `connection.py`, and the server's side of its connection | `Packets` |
| `NodeCluster` | Node Manager and workers, with an Instance Manager that starts and stops workers at will | `TaskPool`, `NodeWorker` |
| `TaskService` | abstract: what the cluster promises about tasks | |
| `InstanceManager` | `Instances`, `NodeScheduler`, `NodeMonitor`, over EC2, SSM and the programs on the machines | |
| `LoadBalancer` | `TimeWindow` | |
| `AutoScaler` | the control loop: the pool's heartbeat, the load balancer, starting and stopping of worker machines | `TaskPool`, `LoadBalancer` |
| `ResourceManager` | `ResourceManagerCore` in several programs, over S3 and the log files | |
| `TaskPoolProofs`, `NodeClusterProofs`, `InstanceManagerProofs`, `AutoScalerProofs`, `ResourceManagerProofs` | theorems about the module of that name | |
| `SetInduction`, `SumTheorems` | theorems about data: induction on natural numbers, sums over finite sets | |
| `MCAutoScaler`, `MCNodeCluster`, `MCDoubleStart` | instances for TLC | |

### Atomicity

Each program is one asyncio event loop: code between two `await`s is not
interleaved with the rest of the same program. One action is one handler, or one
iteration of a loop in a handler when the steps of the loop are worth
telling apart; in that case a variable (`step`, `pc`) keeps the event loop
occupied until the handler has ended. Actions of different programs interleave
freely. One iteration of `process()` in the worker has no `await` between taking
a task and reporting it, and is one action.

### TaskPool

`tasks`, `all_assigned_tasks`, `task_assignment`, `task_processing` and
`assign_time` (its keys) are the fields of the class; `keys` are the keys of the
two dicts; `workers` is `_workers_running + _workers_pending`, which the code
only uses together. `CreateTasks` is a tick of `create_full_taskpool`,
`RunTaskPool`/`AssignTask`/`EndAssign` a round of `run_task_pool`,
`WorkerChange`/`RequeueStopped`/`RegisterNewWorkers` the monitor's
`process_heartbeat`, `ProcessHeartbeat` and `ProcessDone` the handlers of the
same name. A handler that raises answers `HandlerError`. `beat` says that a
heartbeat to the Instance Manager is waiting or under way; `retired` is a
history variable. Ties of `min` and `max` over dicts are broken arbitrarily.

### NodeWorker

A process `p` runs on instance `instance_id[p]`. `GenerateHeartbeat`, `Process`
and `ProcessCrash` are the coroutines `heartbeat` and `process`; `Connect`,
`ClientSend`, `ClientReceive`, `ClientEof` and `NetFail` are the client's
`run`; `Respond` and `ServerClose` are the server's. `conn` and `wire` are the
connection and the packet under way. `executed` is a history variable. A failed
upload or download is a choice under the constant `StorageMayFail`, a broken
connection or a packet that cannot be decoded under `NetMayFail`.

### NodeCluster

Adds the Instance Manager as far as workers notice it: `vm` is the recorded
state, `im_answers` the answer under way to the Node Manager. One timing fact
is taken from the constants of `config.py`: a stopped worker can only be started
again after a synchronisation with EC2 (`BOTO_UPDATE_SEC` is 60 s), so the Node
Manager, which hears of the workers every 2 s, knows by then that it was gone
(`HeardOfStop`), and what the worker had sent has arrived or is lost (guard of
`RestartWorker`). With `ImMayFail` the connection between the two managers may
break at any moment (`ImConnectionLost`): the client's `run()` ends and is never
started again, the Node Manager hears of no worker any more and goes on with the
ones it knows. With `MayMissStop` a worker may then be stopped and come back behind
its back; without it, restarts wait until the stop has been heard of.
`StartCommand` may be repeated at any time: it depends on the worker's heartbeats
to the Instance Manager, which have a connection of their own.

### InstanceManager

`nodes`, `last_heartbeat`, `start_signal`, `charge_time` (its keys) and
`ip_addresses` (for which node managers the recorded address is the right one)
are the fields of `Instances`; `ec2`, `command` and `program` are the machines,
the start commands that SSM accepted and the programs. A time is "none",
"fresh" or "stale". A round of `run()` is `BeginRound` (with the occasional
synchronisation), one `CheckFine`, `CheckStart` or `CheckTimedOut` per instance,
`EndCheck`, and one decision of the load balancer, which may be any
(`NoDecision`, `StartWorker`, `KillWorker`).

Two things end the rounds. An exception of the scheduler itself sets `pc` to
"ended" (`KeyError` in `CheckTimedOut`, no node manager in `NoNodeManager`). A
call of EC2 that raises sets it to "failed": the actions of `Ec2Failure` cover
`describe_instances`, `start_instances` with its waiter and `stop_instances`, each
with the assignments made before the call and none of those after it, and with the
request carried out or not. In both cases the server goes on recording heartbeats.

`stop_instances` returns at once, and a program beats (a worker every 3 s) until
its machine has stopped: `ProcessHeartbeat` is possible for every program that
runs, whatever is recorded of its instance. A heartbeat times out after
`HEART_BEAT_TIMEOUT`, a start signal after `START_SIGNAL_TIMEOUT`, 10 s each,
well below `BOTO_UPDATE_SEC`; their order is left open. `debug` is chosen when the
program starts and never changes; in debug mode the node manager is started by hand while the Instance Manager waits for it
(`StartedByHand`). `CancelAll` may come in a round or between two, and may fail
(`CancelFails`).

The constants say which faults may happen: `Timely` (instances that never let a
heartbeat time out while their program runs), `MayDie`, `AtStart` (states of the
workers when the Instance Manager starts), `ElasticIP`. The counter behind the
metric `workers` is left out; nothing reads it.

### LoadBalancer and AutoScaler

`LoadBalancer` has the two fields of `TimeWindow`. An entry of the window is kept
as the fraction jobs / per, so that the mean and its rounding to hundredths are
computed exactly; of `worker_allocation` only the size and the first of its
minimal keys are used. `Kills` and `Creates` are the branches of `get_action`,
each with the early returns before it.

`AutoScaler` closes the loop. `GenerateHeartbeat` is a round of `run_task_pool`
with the numbers that `generate_heartbeat` reports: `ReportedJobs` is
`tasks_waiting + tasks_running`, where the latter is the number of *known*
workers, and `Busy` are the keys of the sum of two Counters, that is the workers
*with* a task. `RecordHeartbeat` updates the window and makes the answer,
`StartWorker` and `KillWorker` are the scheduler's branches (with `start_worker`,
which tries only the first worker that EC2 does not have running, and
`_init_instance`, which refuses one that is not recorded as STOPPED). Rounds of
`run_task_pool` do not wait for answers: up to `MaxReports` heartbeats queue up.
The worker is reduced to its exchanges with the pool, may be handed up to
`MaxHanded` tasks before it reports one, and may still be heard while its
machine stops; its process, buffer and connection are the subject of `NodeCluster`.
`stolen`, `taken_back` and `work_seen` are history variables. A stopped worker counts as STOPPED only after the Node Manager has heard of it
(`StopRecorded`), for the timing reason given for `NodeCluster` above.

### ResourceManager

A program is a sequence of accesses to S3 and to its log file, one action each;
`pc` says where it is. Programs share the buckets; the log file and its copy
belong to a machine and outlive the program. Lines are numbers, uploaded logs
sets of lines by key (instance, second, clean). `dropped` is a history variable:
the lines of an upload that failed, was cut off by the end of the program or was
replaced by another of the same second, and the lines written after the file was
removed. Every program ends with a clean upload or at any other moment
(`Crash`), and may be launched again; the Instance Manager also deletes the files
bucket: it looks for it, empties it and deletes it, which S3 refuses if another
program has stored a file in between. There is one program per machine.

## Runs

| Run | Configuration | Properties | Result |
|---|---|---|---|
| `scaling` | 2 workers, 2 tasks, window 1, 1 to 2 jobs per worker, up to 2 tasks of a worker under way | `PoolTypeOK`, `TypeOK`, `KeysAgree`, `NoTaskDropped`, `AssignedAreTimed`, `CounterLaw`, `RetiredOrHidden` | pass |
| `cluster` | 2 workers, 2 tasks, a stop and a restart | `TypeOK`, `NoTaskLost`, `InSync`, `DonePopsItsTask`, `ImplementsService` | pass |
| `faults` | 1 worker, 2 tasks, 2 stops and restarts, S3 and all connections fail, 2 packets waiting | `NoTaskLost`, `InSync`, `DonePopsItsTask`, `ImplementsService` | pass |
| `live` | 1 worker, 2 tasks, 2 stops and restarts | `EventuallyExecuted` | pass |
| `instances` | 1 worker, debug mode or not, every fault, no Elastic IP | `TypeOK`, `RecordedStopped`, `OnAreWatched`, `BeatsAreCharged`, `OnlyWorkersEndIt`, `WorkerComesUp` | pass |
| `resources` | 2 programs, 3 lines, 2 seconds, S3 fails | `TypeOK`, `LinesAccounted`, `UploadedOnce`, `FilesBucketThere` | pass |
| `stall` | 2 workers, 4 tasks, window 2, 2 heartbeats under way | `WorkIsReported` | violated |
| `idle` | 2 workers, 1 task, window 2, 2 heartbeats under way | `StartsForWork` | violated |
| `double_start` | 2 processes on one instance | `RemainingGoBack` | violated |
| `late_beat` | no program is late or dies | `SchedulerSurvives` | violated |
| `nm_restart` | the node manager's program may end | `NodeManagerRestarts` | violated |
| `no_address` | no Elastic IP | `WorkersHaveAddress` | violated |

A violated property states what a comment or docstring says; the finding in
`PROJECT.json` quotes it and describes the counterexample.

What the runs show.

*Pool and control loop.* The pool never drops a task and no handler can trip over a
missing key, whenever the load balancer starts and stops workers. The counter that
it decides on counts the entries of both queues of a worker, running tasks
included, where its comment says "assigned but not running"; and even
so it is off by exactly the number of steals and of tasks taken back from workers
that had been handed them (`CounterLaw`): each restart of a busy worker raises it
for good and each steal lowers it. It may become negative, which no number of tasks
is, and then hides waiting tasks from
the load balancer while there is no worker (`stall`), so it is *not* true that
every task is executed in the end. `RetiredOrHidden` says that this is the only
way: under the decisions of the load balancer, either all created tasks are
reported again and again or the counter hides one. An idle cluster is taken for one
without workers (`idle`).

*Pool and real workers.* The two sides of each connection agree on the tasks handed
out and on their order (`InSync`), which is why popping the oldest task is right
(`DonePopsItsTask`); hence a task leaves the pool only after it was executed,
also when workers are stopped, storage fails or connections break (`NoTaskLost`,
and `ImplementsService`: the cluster implements `TaskService` with the refinement
mapping submitted = `Created`, outstanding = `InPool`). Two things break the
agreement: a second process on an instance (`double_start`), and a worker that was
stopped and started again without the Node Manager hearing of it, because its
connection to the Instance Manager broke. The latter is what `MayMissStop` adds: with
it TRUE in `MCFaults.cfg`, TLC finds `InSync` violated within a second (the worker
keeps the `task_processing` of its earlier run, and its first report pops a task of
that one). Without such a restart the broken connection is harmless (`faults`). Tasks are executed at least once; stealing and
requeueing execute some of them twice (`steal_task` queues the stolen task for the
thief, line 112, and its callers hand it over as well).

*Instance Manager.* As long as its rounds go on, it never forgets a machine that is
on and never starts one that is still stopping, under any fault; every instance that beats in time is charged; and a worker recorded as
on gets its program started, if some node manager stays up. But the rounds do end:
by any error of EC2, and by a worker whose recorded heartbeat has timed out and
whose charge is gone (`OnlyWorkersEndIt`). A heartbeat that a worker sends while its
machine is being stopped suffices, with every program on time: it is recorded after
`clear_time` and counts as timed out when the worker is started again (`late_beat`).
So does a worker whose heartbeat times out while it runs (the same run with the
worker taken out of `Timely` has a shorter counterexample): the first check deletes
its charge, the next one looks it up. A node manager never ends them, but if its
program ends after a first heartbeat it is not started again (`nm_restart`). Workers
may be started without the address of the node manager (`no_address`). Outside debug
mode, `cancel_all` stops what is recorded as RUNNING: by the code, and in the action
`CancelAll`, a worker that is PENDING stays on when the Instance Manager is
interrupted.

*Logs.* A line of the log is lost only with the upload that carries it, or if it is
written after the log was removed, and no line is uploaded twice, wherever a program
is stopped (`resources`). The files bucket is there for as long as the Instance
Manager that has set it runs.

### Bounds

- Two workers are the least with which stealing and requeueing to another worker
  happen; two tasks the least that can be stolen (the victim needs two).
- `MaxReports`, `MaxHanded`: heartbeats of the Node Manager that wait for their
  answer, and tasks of a worker that it has not reported. `scaling` has one heartbeat
  and a window of one load, with which liveness is in TLC's reach, and two tasks, so
  that a worker is handed a task behind another; `stall` and `idle` have two of each.
  The safety properties are proved for any of these numbers. The counters need no bound: the load balancer's
  decisions keep them finite. `MAX_JOBS_PER_WORKER` is 2 instead of 5, so that two tasks
  overload a worker; the other two parameters are the program's. `stall` has four
  tasks because the counter has to fall below zero by more than the tasks
  that are left.
- `MaxLines`, `MaxSecond` (run `resources`): three lines and two seconds allow for an
  upload that replaces another, one of another second, and a line written in
  between. Two programs suffice for the races on a bucket.
- `MaxBuffer`: a heartbeat is made only if fewer packets are waiting. With 1 a
  heartbeat can be queued behind a report or be under way while the flag changes;
  `faults` uses 2, so that two heartbeats can ask for two tasks.
- `MaxKills`: stops of workers. Two in `faults` and `live`, so that a worker with
  history under its id is stopped again. With two workers, two tasks and a stop,
  liveness is beyond TLC in reasonable time; `live` therefore has one worker, and
  that stolen tasks are executed rests on the safety properties of `cluster`.
- `InstanceManager` needs no bound: its state is finite. `instances` has one
  worker because liveness with two takes too long; the safety properties are proved
  for any number of workers.

Deadlock is checked in all runs of the cluster, the control loop and the
resource manager. It is not in the
runs of the Instance Manager, which really ends (`CancelAll`).

### Fairness

`NodeCluster!Fairness`: asyncio runs every ready callback in turn, so each
coroutine's step is weakly fair; a handler of the Node Manager is disabled while
the loop of another handler holds the event loop and may become enabled only in
between, so serving a packet, a round of `run_task_pool` and receiving an answer
are strongly fair. TCP delivers while the connection stands. Booting a new
worker and its start command are weakly fair; a restart is strongly fair while the
Node Manager reports work and no worker (`WorkButNoWorker`), because
`get_action` then asks for a worker in every round (`scaling` checks the loop
with the real decision instead). A machine that was told to
stop does. Nothing is assumed of the creation of tasks, nor of stops. `live` has
no storage or network faults: the code does not recover from those (a worker whose
`process()` has crashed keeps its tasks until it is stopped).

`AutoScaler!Fairness`: the coroutines of both managers go on, strongly where
another handler may hold the Node Manager's event loop; packets arrive; the scheduler's
round comes again while it has something to do; a machine boots or stops when told so; a worker
that is on asks and reports. Nothing is assumed of the creation of tasks, nor of
the load balancer's choice.

`InstanceManager!FairSpec`: the scheduler's coroutine goes on, machines boot and
stop, an accepted command runs, a start signal and the heartbeat of a program that
has ended time out, and the heartbeats of a running
program get through (strongly, as the server runs only between two rounds).
Nothing is assumed of programs ending, nor of errors of EC2: `Ec2Failure` is not
part of `SchedulerStep`.

## Proofs

`TaskPoolProofs` proves, for every set of workers, every scenario and an environment
that may send anything, `PoolSpec => []PoolInv` with

    PoolInv == PoolTypeOK /\ KeysAgree /\ NoTaskDropped /\ AssignedAreTimed

and from it each conjunct. The conjuncts need each other: that `popleft`, `pop`
and `+` on deques lose no task needs the types; that `InPool`, which ranges
over the keys, loses none when a worker is registered or taken back needs
`KeysAgree` (a new worker has no key, hence no tasks, before it gets empty
queues). The argument about tasks goes through one lemma per deque operation
(`RangeAppend`, `RangeConcat`, ...), one on what both handlers of packets may
do with the queues (`QueueStep`), and `PoolKeeps`, that a step keeps what the pool
holds unless a done retires it. The assumptions used are that `None` is no
task and that the scenario is a sequence of tasks.

`InstanceManagerProofs` proves, for any instances and all faults and without a
hypothesis on them, `Spec => [](TypeOK /\ Tracked)` with

    Tracked == RecordedStopped /\ OnAreWatched

which is inductive as it stands: a synchronisation copies EC2's states, and every
other step changes the recorded and the real state of an instance together, except
an error of EC2, which ends the rounds (`FailureFails`). `BeatsAreCharged` is inductive
with the types: `process_heartbeat` records the charge before the heartbeat, a kill
removes both, and the timeout of a node manager, which `_init_instance` never
refuses, restores the charge it has deleted. From it follows `OnlyWorkersEndIt`:
whoever ends a round has a stale heartbeat and no charge, so it is a worker
(`RoundEnds`).

`NodeClusterProofs` proves, for any instances, processes and scenario and with
all faults, `Spec => []TypeOK` and `Spec => PoolSpec`: the real workers are an
environment that `TaskPool` allows, and its theorems carry over. Under
`OneProcess` (no two processes run on the same instance) and `StopsAreHeard`
(no worker comes back before the Node Manager has heard of its stop) it proves
`Spec => []AgreementInv` with

    ClusterInv   == TypeOK /\ PoolInv /\ AnswersInv /\ ProcessesInv /\ FreshInv
    AgreementInv == ClusterInv /\ MatchedInv /\ ExecutedInv

and from it `InSync`, `DonePopsItsTask` and `NoTaskLost`. `MatchedInv` is the heart:
while a connection lives, `task_processing` of the worker is, in order, what the
process owes (reports under way and waiting, the task that crashed it, its queue,
the command under way); for a process that is gone, its last report
is still that of the oldest task. The other parts are what this needs
to be inductive: `ProcessesInv` (a process that does not run is silent, except for
one last packet), `FreshInv` (a process whose instance has no key in the dicts
holds no task, so that the empty queues it gets match), `AnswersInv` (the workers
the pool knows against the machines, with an answer under way) and
`ExecutedInv` (what is reported was executed, and so was what is retired). Both
hypotheses are needed: the run `double_start` has two processes on an instance,
which a repeated start command can cause, and they get out of step with
the pool; and a restart that the pool has not heard of breaks `InSync`, as said
above. Several processes one after the other on an instance are one `p` that is
started again.

`ClusterImplementsService` proves the refinement of `TaskService` under
`OneProcess`, `StopsAreHeard` and `DistinctRows`, that the scenario names no task twice:
`register_task` names each row with a fresh `uuid4`. With `CreatedInv` (the pool and
the workers hold only tasks taken from the scenario, and the rows left are others)
every step of the cluster is a submission, an execution, a retirement or a stutter
of `TaskService`.

`Reports`, the reports in a send buffer, is defined by recursion on a position. The
library's induction theorems take an operator as a parameter, which these provers
cannot instantiate; `SetInduction` states induction for a *set* of natural numbers
instead, which they can. A recursive function is then reasoned about through the
table of its values: the table exists, the function equals it, and the law wanted
(`ReportsAppend`, `ReportsHead`) is shown along it.

`AutoScalerProofs` proves, for any workers, scenario and thresholds, that the control
loop implements the pool (`Spec => PoolSpec`), its types, and `CounterLaw`. The
invariant is

    ScalerInv == PoolInv /\ TypeOK /\ CounterLaw

The law needs `KeysAgree` of the pool: a worker that left still has its queues when
they are taken back, and one that joins has none. Each action changes
both sides of the law by the same amount (`LawKept`); what it does to the sum of
the queue lengths comes from `SumTheorems`: a sum over a finite set does not depend
on the order in which `SumFunctionOnSet` picks the elements (`SumRemove`), changing
one value changes it by as much (`SumUpdate`), and elements with value zero may be
added (`SumZeros`). That there are finitely many workers follows from
`ListingAssumption`: EC2 lists them in a sequence.

`ResourceManagerProofs` proves `TypeOK`, `LinesAccounted`, `UploadedOnce` and
`FilesBucketThere`, for any programs, lines and seconds. The first three rest on

    LinesInv == TypeOK /\ CopyMatches /\ LinesAccounted /\ Apart /\ OncePerPlace

`CopyMatches` says that the copy equals the log between copying and clearing, so
clearing the log loses nothing; `Apart`, that two programs never hold the same line
and that a line on its way to S3 is in no log, which an upload needs in order not to
store a line twice; `OncePerPlace` is `UploadedOnce` program by program. For the
files bucket, `OwnerDeletes` says that only the Instance Manager comes to the step
that deletes it.

With this, every invariant and every action property of the passing runs is proved for
all values of the constants, except that `InSync`, `DonePopsItsTask`, `NoTaskLost` and
`ImplementsService` have the hypotheses given above. Only model-checked: the liveness
properties (`RetiredOrHidden`, `EventuallyExecuted`, `WorkerComesUp`), as fairness
and ENABLED are out of this prover's reach.

## Not modelled

- The contents of packets beyond what handlers look at, and where TCP cuts a
  byte stream; a packet that cannot be decoded is a fault (`ServerClose`).
- Instances with other names, and terminated instances (EC2's "shutting-down" is
  not a state that `InstanceState` knows).
- The metric `workers`, a counter that nothing reads.
- A restart of the Node Manager: it keeps nothing, all tasks are gone.
- Two programs on one machine in `ResourceManager`: after a repeated start command
  (`double_start`) they share the log file and its copy, and lines may be uploaded
  twice or lost.
- An interrupt between the calls inside `_kill_instance` or `_init_instance`, and the
  program going on after an interrupt that `run()` has caught: `cancel_all` is the
  last step in the model.
- The errors of SSM: `_send_start_command` catches them all and sends again later.
- `main.py`, the sentiment model, plots and the web page: no control state.

## Plan

1. Done: `TaskPool`, `NodeWorker`, `NodeCluster`, `TaskService`,
   `InstanceManager`, and the proofs about the pool and the Instance Manager.
2. Done: `LoadBalancer`, `AutoScaler`, `ResourceManager`.
3. Done: proofs about `ResourceManager`, `NodeCluster` with the refinement of
   `TaskService`, and `AutoScaler`; errors of EC2, late heartbeats and the managers'
   connection.
4. Left: proofs about the load balancer's arithmetic (the mean of the window lies
   between its least and its greatest entry), and what of the agreement
   between pool and workers survives a second process on an instance.
