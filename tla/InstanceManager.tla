-------------------------- MODULE InstanceManager --------------------------
(***************************************************************************)
(* The Instance Manager: the table of instances (Instances), the scheduler *)
(* that starts, watches and stops them (NodeScheduler) and the server that *)
(* records their heartbeats (NodeMonitor), over EC2 and SSM.               *)
(*                                                                         *)
(* The Instance Manager is one asyncio event loop. A round of the          *)
(* scheduler has no await, so it is not interleaved with the server; it is *)
(* split into one action per instance checked because an exception ends    *)
(* the round, and the scheduler, in the middle. `pc` says where it is:     *)
(*   "start"   before initialize_nodes                                     *)
(*   "wait"    debug mode, waiting for a heartbeat of the node manager     *)
(*   "check"   in check_all_living; todo are the instances not checked yet *)
(*   "decide"  at the load balancer's decision                             *)
(*   "sleep"   between two rounds                                          *)
(*   "ended"   run() has ended with an exception of its own                *)
(*   "failed"  run() has ended because a call of EC2 raised                *)
(*   "down"    after cancel_all                                            *)
(*                                                                         *)
(* A recorded time is "none", "fresh" or "stale" (its timeout has passed). *)
(* Which worker to start or stop is left open: it is the load balancer's   *)
(* (TimeWindow) decision, made on what the node manager reported last. The *)
(* counter behind the metric `workers` is left out: nothing reads it.      *)
(***************************************************************************)

CONSTANTS
    Workers,        \* instances named Worker
    NodeManagers,   \* instances named Node Manager
    ElasticIP,      \* a machine keeps its public address while it is off
    AtStart,        \* states a worker may be in when the Instance Manager starts
    Timely,         \* instances whose program never lets its heartbeat time out
    MayDie          \* instances whose program may end by itself

Ids == Workers \cup NodeManagers

ASSUME InstancesAssumption ==
    /\ Workers \cap NodeManagers = {}
    /\ NodeManagers # {}
    /\ AtStart \subseteq {"pending", "running", "stopping", "stopped"}
    /\ Timely \subseteq Ids /\ MayDie \subseteq Ids
    /\ ElasticIP \in BOOLEAN

VARIABLES
    debug,                 \* the debug flag, a parameter of the program
    pc,
    todo,
    nodes,                 \* _node_managers and _workers: recorded states
    last_heartbeat,        \* _last_heartbeat
    start_signal,          \* _start_signal
    charge_time,           \* keys of charge_time
    ip_addresses,          \* node managers whose recorded address is theirs
    node_manager_running,
    ec2,                   \* EC2: the real state of every instance
    command,               \* SSM: the start command accepted for it
    program                \* the command its program was started with

timeVars == <<last_heartbeat, start_signal, charge_time>>
tableVars == <<nodes, ip_addresses, timeVars>>
envVars == <<ec2, command, program>>
vars == <<debug, pc, todo, tableVars, node_manager_running, envVars>>

Times == {"none", "fresh", "stale"}
Recorded == {"none", "pending", "running", "stopping", "stopped"}
Real == Recorded \ {"none"}
\* A command without the address of the node manager is "lost".
Commands == {"none", "full", "lost"}
PCs == {"start", "wait", "check", "decide", "sleep", "ended", "failed", "down"}

\* The event loop is free to serve a packet.
LoopFree == pc \in {"wait", "sleep", "ended", "failed"}

\* Initialised, and run() has not ended.
InRounds == pc \in {"sleep", "check", "decide"}

InState(S, states) == {i \in S : nodes[i] \in states}
ActiveStates == {"pending", "running"}

\* The machines may still be on, with or without their programs, from an earlier
\* Instance Manager or started by hand.
Init ==
    /\ debug \in BOOLEAN
    /\ pc = "start"
    /\ todo = {}
    /\ nodes = [i \in Ids |-> "none"]
    /\ last_heartbeat = [i \in Ids |-> "none"]
    /\ start_signal = [i \in Ids |-> "none"]
    /\ charge_time = {}
    /\ ip_addresses = {}
    /\ node_manager_running = FALSE
    /\ ec2 \in [Ids -> Real]
    /\ \A w \in Workers : ec2[w] \in AtStart
    /\ command = [i \in Ids |-> "none"]
    /\ program \in [Ids -> {"none", "full"}]
    /\ \A i \in Ids : program[i] = "full" => ec2[i] \in {"running", "stopping"}

-----------------------------------------------------------------------------
(***************************************************************************)
(* EC2, SSM and the programs on the instances.                             *)
(***************************************************************************)
\* A machine boots; it stops, and its program with it.
MachineStep(i) ==
    /\ \/ /\ ec2[i] = "pending"
          /\ ec2' = [ec2 EXCEPT ![i] = "running"]
          /\ UNCHANGED <<command, program>>
       \/ /\ ec2[i] = "stopping"
          /\ ec2' = [ec2 EXCEPT ![i] = "stopped"]
          /\ command' = [command EXCEPT ![i] = "none"]
          /\ program' = [program EXCEPT ![i] = "none"]
    /\ UNCHANGED <<debug, pc, todo, tableVars, node_manager_running>>

ProgramStarts(i) ==
    /\ ec2[i] = "running"
    /\ command[i] # "none"
    /\ program' = [program EXCEPT ![i] = command[i]]
    /\ command' = [command EXCEPT ![i] = "none"]
    /\ UNCHANGED <<debug, pc, todo, tableVars, node_manager_running, ec2>>

ProgramDies(i) ==
    /\ i \in MayDie
    /\ program[i] # "none"
    /\ program' = [program EXCEPT ![i] = "none"]
    /\ UNCHANGED <<debug, pc, todo, tableVars, node_manager_running, ec2, command>>

\* In debug mode the node manager is started by hand, on its machine that may be
\* off: the Instance Manager waits for its heartbeat.
StartedByHand(m) ==
    /\ debug
    /\ pc = "wait"
    /\ ec2[m] \in {"running", "stopped"}
    /\ program[m] = "none"
    /\ ec2' = [ec2 EXCEPT ![m] = "running"]
    /\ program' = [program EXCEPT ![m] = "full"]
    /\ UNCHANGED <<debug, pc, todo, tableVars, node_manager_running, command>>

\* Time passes: the timeout of a recorded time runs out.
HeartbeatTimesOut(i) ==
    /\ last_heartbeat[i] = "fresh"
    /\ i \in Timely => program[i] = "none"
    /\ last_heartbeat' = [last_heartbeat EXCEPT ![i] = "stale"]
    /\ UNCHANGED <<debug, pc, todo, nodes, ip_addresses, start_signal, charge_time,
                   node_manager_running, envVars>>

SignalTimesOut(i) ==
    /\ start_signal[i] = "fresh"
    /\ start_signal' = [start_signal EXCEPT ![i] = "stale"]
    /\ UNCHANGED <<debug, pc, todo, nodes, ip_addresses, last_heartbeat, charge_time,
                   node_manager_running, envVars>>

-----------------------------------------------------------------------------
(***************************************************************************)
(* NodeMonitor.process_heartbeat. A program beats for as long as it runs,  *)
(* also on a machine that is being stopped.                                *)
(***************************************************************************)
\* Mutant: only an instance that the scheduler started is charged.
ChargedIfStarted(i) == charge_time

ChargedOnBeat(i) == charge_time \cup {i}

ProcessHeartbeat(i) ==
    /\ LoopFree
    /\ program[i] # "none"
    /\ charge_time' = ChargedOnBeat(i)
    /\ last_heartbeat' = [last_heartbeat EXCEPT ![i] = "fresh"]
    /\ node_manager_running' = (node_manager_running \/ i \in NodeManagers)
    /\ UNCHANGED <<debug, pc, todo, nodes, ip_addresses, start_signal, envVars>>

-----------------------------------------------------------------------------
(***************************************************************************)
(* NodeScheduler: starting and stopping one instance.                      *)
(***************************************************************************)
\* _send_start_command. A worker's command needs the address of a running
\* node manager: without one, nothing is sent and no signal is recorded. SSM
\* rejects an instance that is not running yet, after the signal is recorded.
\* The address is the one recorded at the last synchronisation with EC2, which
\* is none for a machine that was off then, unless it has an Elastic IP.
CanCommand(i) == i \in Workers => InState(NodeManagers, {"running"}) # {}

\* node_manager_ids[0]
NodeManagerFor(w) == CHOOSE m \in InState(NodeManagers, {"running"}) : TRUE

CommandFor(i) ==
    IF i \in NodeManagers \/ NodeManagerFor(i) \in ip_addresses THEN "full" ELSE "lost"

SendStartCommand(i) ==
    IF CanCommand(i)
    THEN /\ start_signal' = [start_signal EXCEPT ![i] = "fresh"]
         /\ command' = [command EXCEPT ![i] = IF ec2[i] = "running" THEN CommandFor(i) ELSE @]
    ELSE UNCHANGED <<start_signal, command>>

\* _init_instance looks the state up in the table of workers, whatever the
\* type is: a worker that is not STOPPED is left as it is, a node manager
\* always goes through.
Refused(i) == i \in Workers /\ nodes[i] \notin {"none", "stopped"}

-----------------------------------------------------------------------------
(***************************************************************************)
(* initialize_nodes, first with a synchronisation with EC2, in debug mode  *)
(* again until a node manager has sent a heartbeat.                        *)
(***************************************************************************)
Synced == IF pc = "start" THEN ec2 ELSE nodes

Addresses == {m \in NodeManagers : ElasticIP \/ ec2[m] = "running"}

SyncedAddresses == IF pc = "start" THEN Addresses ELSE ip_addresses

MayInitialize == pc \in {"start", "wait"} /\ (~debug \/ node_manager_running)

WaitForNodeManager ==
    /\ pc \in {"start", "wait"}
    /\ debug /\ ~node_manager_running
    /\ pc' = "wait"
    /\ nodes' = Synced
    /\ ip_addresses' = SyncedAddresses
    /\ UNCHANGED <<debug, todo, timeVars, node_manager_running, envVars>>

\* There is a node manager that runs or is about to.
FindNodeManager ==
    /\ MayInitialize
    /\ \E m \in NodeManagers : Synced[m] \in ActiveStates
    /\ pc' = "sleep"
    /\ nodes' = Synced
    /\ ip_addresses' = SyncedAddresses
    /\ node_manager_running' =
           (node_manager_running \/ \E m \in NodeManagers : Synced[m] # "running")
    /\ UNCHANGED <<debug, todo, timeVars, envVars>>

\* start_node_manager: start one, wait until it runs, send its start command.
StartNodeManager(m) ==
    /\ MayInitialize
    /\ \A n \in NodeManagers : Synced[n] \notin ActiveStates
    /\ Synced[m] = "stopped"
    /\ pc' = "sleep"
    /\ nodes' = [Synced EXCEPT ![m] = "running"]
    /\ ip_addresses' = SyncedAddresses
    /\ ec2' = [ec2 EXCEPT ![m] = "running"]
    /\ charge_time' = charge_time \cup {m}
    /\ start_signal' = [start_signal EXCEPT ![m] = "fresh"]
    /\ command' = [command EXCEPT ![m] = "full"]
    /\ node_manager_running' = TRUE
    /\ UNCHANGED <<debug, todo, last_heartbeat, program>>

\* Every node manager is still stopping: start_node_manager raises.
NoNodeManager ==
    /\ MayInitialize
    /\ \A m \in NodeManagers : Synced[m] = "stopping"
    /\ pc' = "ended"
    /\ nodes' = Synced
    /\ ip_addresses' = SyncedAddresses
    /\ UNCHANGED <<debug, todo, timeVars, node_manager_running, envVars>>

-----------------------------------------------------------------------------
(***************************************************************************)
(* One round of run(). First, every BOTO_UPDATE_SEC, update_instances: a   *)
(* synchronisation with EC2 if some instance is in transition.             *)
(***************************************************************************)
InTransition == InState(Ids, {"pending", "stopping"}) # {}

BeginRound ==
    /\ pc = "sleep"
    /\ pc' = "check"
    /\ todo' = {i \in Ids : nodes[i] # "none"}
    /\ \/ UNCHANGED <<nodes, ip_addresses>>
       \/ /\ InTransition
          /\ nodes' = ec2
          /\ ip_addresses' = Addresses
    /\ UNCHANGED <<debug, timeVars, node_manager_running, envVars>>

\* check_all_living: the node managers come first.
NextToCheck(i) == pc = "check" /\ i \in todo /\ (i \in Workers => todo \cap NodeManagers = {})

\* Mutant: a start command is not repeated.
NeverSignalled(i) == start_signal[i] = "none"

\* start_signal_timedout
SignalTimedOut(i) == start_signal[i] # "fresh"

\* An instance that is off, or whose last heartbeat is recent, or that was sent
\* its start command a short time ago.
CheckFine(i) ==
    /\ NextToCheck(i)
    /\ \/ /\ nodes[i] \notin ActiveStates
          /\ UNCHANGED nodes
       \/ /\ nodes[i] \in ActiveStates
          /\ last_heartbeat[i] = "fresh"
          /\ nodes' = [nodes EXCEPT ![i] = "running"]
       \/ /\ nodes[i] \in ActiveStates
          /\ last_heartbeat[i] = "none" /\ ~SignalTimedOut(i)
          /\ UNCHANGED nodes
    /\ todo' = todo \ {i}
    /\ UNCHANGED <<debug, pc, ip_addresses, timeVars, node_manager_running, envVars>>

CheckStart(i) ==
    /\ NextToCheck(i)
    /\ nodes[i] \in ActiveStates
    /\ last_heartbeat[i] = "none"
    /\ SignalTimedOut(i)
    /\ SendStartCommand(i)
    /\ todo' = todo \ {i}
    /\ UNCHANGED <<debug, pc, nodes, ip_addresses, last_heartbeat, charge_time,
                   node_manager_running, ec2, program>>

\* The heartbeat has timed out: the charge of the instance ends and
\* _init_instance is called. Looking up charge_time raises KeyError when the
\* entry is gone already, which ends the scheduler.
CheckTimedOut(i) ==
    /\ NextToCheck(i)
    /\ nodes[i] \in ActiveStates
    /\ last_heartbeat[i] = "stale"
    /\ \/ /\ i \notin charge_time
          /\ pc' = "ended"
          /\ todo' = {}
          /\ UNCHANGED <<nodes, charge_time>>
       \/ /\ i \in charge_time
          /\ todo' = todo \ {i}
          /\ IF Refused(i)
             THEN /\ charge_time' = charge_time \ {i}
                  /\ UNCHANGED nodes
             ELSE /\ charge_time' = charge_time
                  /\ nodes' = [nodes EXCEPT ![i] = "pending"]
          /\ UNCHANGED pc
    /\ UNCHANGED <<debug, ip_addresses, last_heartbeat, start_signal,
                   node_manager_running, envVars>>

EndCheck ==
    /\ pc = "check"
    /\ todo = {}
    /\ pc' = "decide"
    /\ UNCHANGED <<debug, todo, tableVars, node_manager_running, envVars>>

-----------------------------------------------------------------------------
(***************************************************************************)
(* The load balancer's decision.                                           *)
(***************************************************************************)
NoDecision ==
    /\ pc = "decide"
    /\ pc' = "sleep"
    /\ UNCHANGED <<debug, todo, tableVars, node_manager_running, envVars>>

\* Mutant: the new state is left to the next synchronisation.
StartedUnrecorded(w) == nodes

Started(w) == [nodes EXCEPT ![w] = "pending"]

\* start_worker: one of the workers that EC2 does not have running.
StartWorker(w) ==
    /\ pc = "decide"
    /\ ec2[w] # "running"
    /\ \/ /\ Refused(w)
          /\ pc' = "sleep"
          /\ UNCHANGED <<nodes, charge_time, ec2>>
       \/ /\ ~Refused(w)
          /\ ec2[w] # "stopping"
          /\ pc' = "sleep"
          /\ ec2' = [ec2 EXCEPT ![w] = "pending"]
          /\ nodes' = Started(w)
          /\ charge_time' = charge_time \cup {w}
    /\ UNCHANGED <<debug, todo, ip_addresses, last_heartbeat, start_signal,
                   node_manager_running, command, program>>

\* clear_time
ClearedTime(times, i) == [times EXCEPT ![i] = "none"]

\* Mutant: an instance counts as STOPPED as soon as it is told to stop.
KilledAtOnce == "stopped"

\* Mutant: it counts as SHUTTING_DOWN.
KilledForGood == "shutting_down"

KilledState == "stopping"

\* stop_instances returns at once: the machines are on their way down.
ToldToStop(S) == [i \in Ids |-> IF i \in S /\ ec2[i] # "stopped" THEN "stopping" ELSE ec2[i]]

\* _kill_instance for a worker that the load balancer picks. The pick comes from
\* the node manager's last heartbeat, so the worker may have been killed already.
KillWorker(w) ==
    /\ pc = "decide"
    /\ nodes[w] # "none"
    /\ pc' = "sleep"
    /\ ec2' = ToldToStop({w})
    /\ nodes' = [nodes EXCEPT ![w] = KilledState]
    /\ last_heartbeat' = ClearedTime(last_heartbeat, w)
    /\ start_signal' = ClearedTime(start_signal, w)
    /\ charge_time' = charge_time \ {w}
    /\ UNCHANGED <<debug, todo, ip_addresses, node_manager_running, command, program>>

-----------------------------------------------------------------------------
(***************************************************************************)
(* A call of EC2 raises: a request limit, no capacity, a machine in a      *)
(* state that does not allow it, a connection that breaks. run() logs it   *)
(* and ends, with the state it had before the call. The request may have   *)
(* been carried out all the same.                                          *)
(***************************************************************************)
Ec2Raises(requested) ==
    /\ pc' = "failed"
    /\ todo' = {}
    /\ ec2' \in {ec2, requested}
    /\ UNCHANGED <<debug, last_heartbeat, start_signal, node_manager_running, command, program>>

\* describe_instances, in update_instances.
SyncFails ==
    /\ pc = "start" \/ (pc = "sleep" /\ InTransition)
    /\ Ec2Raises(ec2)
    /\ UNCHANGED <<nodes, ip_addresses, charge_time>>

\* start_instances, or waiting until the node manager runs.
StartNodeManagerFails(m) ==
    /\ MayInitialize
    /\ \A n \in NodeManagers : Synced[n] \notin ActiveStates
    /\ Synced[m] = "stopped"
    /\ nodes' = Synced
    /\ ip_addresses' = SyncedAddresses
    /\ Ec2Raises([ec2 EXCEPT ![m] = IF @ = "stopped" THEN "pending" ELSE @])
    /\ UNCHANGED charge_time

\* start_instances for a node manager that timed out: its charge has ended.
RestartFails(i) ==
    /\ NextToCheck(i)
    /\ nodes[i] \in ActiveStates
    /\ last_heartbeat[i] = "stale"
    /\ i \in charge_time
    /\ ~Refused(i)
    /\ charge_time' = charge_time \ {i}
    /\ Ec2Raises(ec2)
    /\ UNCHANGED <<nodes, ip_addresses>>

\* describe_instances or start_instances, in start_worker.
StartWorkerFails(w) ==
    /\ pc = "decide"
    /\ Ec2Raises([ec2 EXCEPT ![w] = IF @ = "stopped" /\ ~Refused(w) THEN "pending" ELSE @])
    /\ UNCHANGED <<nodes, ip_addresses, charge_time>>

\* stop_instances, in _kill_instance.
KillWorkerFails(w) ==
    /\ pc = "decide"
    /\ nodes[w] # "none"
    /\ Ec2Raises(ToldToStop({w}))
    /\ UNCHANGED <<nodes, ip_addresses, charge_time>>

-----------------------------------------------------------------------------
(***************************************************************************)
(* cancel_all, when the Instance Manager is interrupted, in a round or     *)
(* between two: the recorded states are not updated. In debug mode the     *)
(* node manager is kept.                                                   *)
(***************************************************************************)
ToCancel ==
    IF debug THEN InState(Workers, ActiveStates) ELSE InState(Ids, {"running"})

CancelAll ==
    /\ pc # "down"
    /\ pc' = "down"
    /\ ec2' = ToldToStop(ToCancel)
    /\ charge_time' = charge_time \ ToCancel
    /\ command' = [i \in Ids |-> "none"]
    /\ UNCHANGED <<debug, todo, nodes, ip_addresses, last_heartbeat, start_signal,
                   node_manager_running, program>>

\* stop_instances raises, or else the first cancel_command does.
CancelFails ==
    /\ pc # "down"
    /\ pc' = "down"
    /\ \/ UNCHANGED <<ec2, charge_time>>
       \/ /\ ec2' = ToldToStop(ToCancel)
          /\ charge_time' = charge_time \ ToCancel
    /\ UNCHANGED <<debug, todo, nodes, ip_addresses, last_heartbeat, start_signal,
                   node_manager_running, command, program>>

-----------------------------------------------------------------------------
SchedulerStep ==
    \/ WaitForNodeManager
    \/ FindNodeManager
    \/ \E m \in NodeManagers : StartNodeManager(m)
    \/ NoNodeManager
    \/ BeginRound
    \/ \E i \in Ids : CheckFine(i) \/ CheckStart(i) \/ CheckTimedOut(i)
    \/ EndCheck
    \/ NoDecision
    \/ \E w \in Workers : StartWorker(w) \/ KillWorker(w)

Ec2Failure ==
    \/ SyncFails
    \/ \E m \in NodeManagers : StartNodeManagerFails(m)
    \/ \E i \in Ids : RestartFails(i)
    \/ \E w \in Workers : StartWorkerFails(w) \/ KillWorkerFails(w)

Next ==
    \/ SchedulerStep
    \/ Ec2Failure
    \/ CancelAll
    \/ CancelFails
    \/ \E m \in NodeManagers : StartedByHand(m)
    \/ \E i \in Ids :
        \/ MachineStep(i)
        \/ ProgramStarts(i)
        \/ ProgramDies(i)
        \/ HeartbeatTimesOut(i)
        \/ SignalTimesOut(i)
        \/ ProcessHeartbeat(i)

Spec == Init /\ [][Next]_vars

(***************************************************************************)
(* Fairness: the scheduler's coroutine goes on, EC2 and SSM do what they   *)
(* accepted, time passes for a program that is silent, and the heartbeats  *)
(* of one that runs get through, strongly, as the server runs only between *)
(* two rounds.                                                             *)
(***************************************************************************)
FairSpec ==
    /\ Spec
    /\ WF_vars(SchedulerStep)
    /\ \A i \in Ids :
        /\ WF_vars(MachineStep(i))
        /\ WF_vars(ProgramStarts(i))
        /\ WF_vars(program[i] = "none" /\ HeartbeatTimesOut(i))
        /\ WF_vars(SignalTimesOut(i))
        /\ SF_vars(ProcessHeartbeat(i))

-----------------------------------------------------------------------------
\* Types of the Instance Manager's state and of its environment.
TypeOK ==
    /\ debug \in BOOLEAN
    /\ pc \in PCs
    /\ todo \in SUBSET Ids
    /\ nodes \in [Ids -> Recorded]
    /\ last_heartbeat \in [Ids -> Times]
    /\ start_signal \in [Ids -> Times]
    /\ charge_time \in SUBSET Ids
    /\ ip_addresses \in SUBSET NodeManagers
    /\ node_manager_running \in BOOLEAN
    /\ ec2 \in [Ids -> Real]
    /\ command \in [Ids -> Commands]
    /\ program \in [Ids -> Commands]

\* The instances that only the Instance Manager starts: in debug mode a node
\* manager is started by hand, and the table may never hear of it.
Managed == IF debug THEN Workers ELSE Ids

\* The recorded state may lag behind EC2, but never so that an instance counts
\* as STOPPED while its machine is on: start_instances, which EC2 rejects for a
\* machine that is still stopping, is only called when it can succeed. It holds
\* while run() goes on, and after it: only the error of EC2 that ended it may
\* have come from a request that was carried out.
RecordedStopped ==
    pc \notin {"failed", "down"} => \A i \in Managed : nodes[i] = "stopped" => ec2[i] = "stopped"

\* No machine is forgotten: one that is on is recorded as PENDING or RUNNING, so
\* the scheduler watches it and the load balancer counts it.
OnAreWatched ==
    pc \notin {"start", "failed", "down"} =>
        \A i \in Managed : ec2[i] \in ActiveStates => nodes[i] \in ActiveStates

\* An instance that beats in time is charged, whoever started it and whatever
\* happened before: killed, timed out, heard of late. For a node manager the
\* charge even outlasts the timeout of its heartbeat, for as long as no call of
\* EC2 has raised: _check_living finds it whenever it looks it up.
BeatsAreCharged ==
    /\ pc # "down" => \A i \in Ids : last_heartbeat[i] = "fresh" => i \in charge_time
    /\ pc \notin {"failed", "down"} =>
           \A m \in NodeManagers : last_heartbeat[m] # "none" => m \in charge_time

\* "Check for an instance if it is still alive or if it should receive a new
\* start command" (_check_living): after the initialisation the checks go on,
\* the scheduler never ends by itself.
SchedulerSurvives == [][InRounds => pc' # "ended"]_vars

\* What the code keeps of that: errors of EC2 apart, a round is only ended by a
\* worker that is on, whose recorded heartbeat has timed out and whose charge is
\* gone. A node manager, however late, never ends it.
OnlyWorkersEndIt ==
    [][(InRounds /\ pc' = "ended") =>
          \E w \in Workers : /\ nodes[w] \in ActiveStates
                            /\ last_heartbeat[w] = "stale"
                            /\ w \notin charge_time]_vars

\* From some time on there is a node manager whose program runs and is on time.
NodeManagerStays ==
    <>[](\E m \in NodeManagers : program[m] # "none" /\ last_heartbeat[m] # "stale")

\* A worker that is recorded as on, but whose program does not run, gets its
\* start command, however often it was sent to a machine not up yet: its program
\* is started, unless the worker, the scheduler or the whole system is stopped
\* before. The node manager, whose address the command needs, may be late or end
\* for as long as it comes back.
WorkerComesUp ==
    NodeManagerStays =>
        \A w \in Workers :
            nodes[w] \in ActiveStates ~>
                \/ program[w] # "none"
                \/ nodes[w] \notin ActiveStates
                \/ pc \in {"ended", "failed", "down"}

\* "Check for an instance if it is still alive or if it should receive a new
\* start command" (_check_living): a node manager that is recorded as on and whose
\* program does not run is started again, unless the scheduler has ended.
NodeManagerRestarts ==
    \A m \in NodeManagers :
        (InRounds /\ nodes[m] \in ActiveStates /\ program[m] = "none") ~>
            (~InRounds \/ nodes[m] \notin ActiveStates \/ program[m] # "none")

\* "workers need an host address of the Node Manager" (main): no worker's program
\* is started without it. The address in the start command is the one recorded at
\* the last synchronisation, which may have found the node manager off.
WorkersHaveAddress == \A w \in Workers : program[w] # "lost"
=============================================================================
