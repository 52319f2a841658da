----------------------------- MODULE NodeWorker -----------------------------
(***************************************************************************)
(* Worker processes: WorkerCore (its three coroutines heartbeat, process   *)
(* and run) on top of the client of connection.py. A process p runs on     *)
(* instance instance_id[p]; two processes with the same instance id are    *)
(* what a repeated start command leads to.                                 *)
(*                                                                         *)
(* A coroutine runs from one await to the next, so one iteration of        *)
(* process() is one action: it has no await between taking a task and      *)
(* reporting it. The client has an await between sending a packet and      *)
(* reading the answer, hence two actions.                                  *)
(*                                                                         *)
(* conn[p] is the connection of p to the Node Manager:                     *)
(*   "down"    there is none yet                                           *)
(*   "idle"    open, nothing under way                                     *)
(*   "req"     a request of p is under way to the server                   *)
(*   "resp"    an answer is under way to p                                 *)
(*   "closed"  the server has closed it; the client reads EOF              *)
(*   "lost"    the client's run() has ended, nothing is sent any more      *)
(* and wire[p] is the packet under way in "req" and "resp".                *)
(***************************************************************************)
EXTENDS Packets, Integers, Sequences

CONSTANTS
    Procs,          \* worker processes
    instance_id,    \* the instance each process runs on
    MaxBuffer,      \* bound: no new heartbeat when this many packets wait
    NetMayFail      \* may a connection break?

ASSUME WorkerAssumption ==
    /\ instance_id \in [Procs -> Workers]
    /\ MaxBuffer \in Nat
    /\ NetMayFail \in BOOLEAN

VARIABLES
    running,                 \* is the process running?
    task_queue,              \* _task_queue: received, not yet started
    current_task,            \* stays set only when process() has crashed
    task_command_received,   \* _task_command_received
    send_buffer,             \* packets waiting to be sent
    conn,
    wire,
    executed                 \* history: tasks for which predict() has run

workerVars == <<running, task_queue, current_task, task_command_received,
                send_buffer, conn, wire, executed>>

Conns == {"down", "idle", "req", "resp", "closed", "lost"}
NoPacket == Packet("none", None, FALSE)

WorkerInit ==
    /\ running = [p \in Procs |-> FALSE]
    /\ task_queue = [p \in Procs |-> <<>>]
    /\ current_task = [p \in Procs |-> None]
    /\ task_command_received = [p \in Procs |-> FALSE]
    /\ send_buffer = [p \in Procs |-> <<>>]
    /\ conn = [p \in Procs |-> "down"]
    /\ wire = [p \in Procs |-> NoPacket]
    /\ executed = {}

\* start_instance of the worker: a fresh WorkerCore.
StartProcess(p) ==
    /\ ~running[p]
    /\ conn[p] = "down"
    /\ running' = [running EXCEPT ![p] = TRUE]
    /\ UNCHANGED <<task_queue, current_task, task_command_received, send_buffer,
                   conn, wire, executed>>

(***************************************************************************)
(* The instance w is stopped, and its processes with it. A request that    *)
(* has left a process may still reach the Node Manager (conn stays "req"); *)
(* everything else is gone.                                                *)
(***************************************************************************)
On(w) == {p \in Procs : instance_id[p] = w}

StopInstance(w) ==
    /\ running' = [p \in Procs |-> running[p] /\ p \notin On(w)]
    /\ task_queue' = [p \in Procs |-> IF p \in On(w) THEN <<>> ELSE task_queue[p]]
    /\ current_task' = [p \in Procs |-> IF p \in On(w) THEN None ELSE current_task[p]]
    /\ task_command_received' = [p \in Procs |-> task_command_received[p] /\ p \notin On(w)]
    /\ send_buffer' = [p \in Procs |-> IF p \in On(w) THEN <<>> ELSE send_buffer[p]]
    /\ conn' = [p \in Procs |-> IF p \in On(w) /\ conn[p] # "req" THEN "down" ELSE conn[p]]
    /\ wire' = [p \in Procs |-> IF p \in On(w) /\ conn[p] # "req" THEN NoPacket ELSE wire[p]]
    /\ UNCHANGED executed

\* The request of a process that is gone never arrives.
LoseRequest(p) ==
    /\ ~running[p]
    /\ conn[p] = "req"
    /\ conn' = [conn EXCEPT ![p] = "down"]
    /\ wire' = [wire EXCEPT ![p] = NoPacket]
    /\ UNCHANGED <<running, task_queue, current_task, task_command_received,
                   send_buffer, executed>>

-----------------------------------------------------------------------------
\* heartbeat(): one per interval, also while nothing can be sent.
GenerateHeartbeat(p) ==
    /\ running[p]
    /\ Len(send_buffer[p]) < MaxBuffer
    /\ send_buffer' = [send_buffer EXCEPT
                           ![p] = Append(@, Heartbeat(task_command_received[p]))]
    /\ UNCHANGED <<running, task_queue, current_task, task_command_received,
                   conn, wire, executed>>

(***************************************************************************)
(* process(): take the next task, download its file, predict, report. The  *)
(* argument `stored` is the content of the files bucket.                   *)
(***************************************************************************)
Ready(p) == running[p] /\ current_task[p] = None /\ task_queue[p] # <<>>

Process(p, stored) ==
    /\ Ready(p)
    /\ Head(task_queue[p]) \in stored
    /\ task_queue' = [task_queue EXCEPT ![p] = Tail(@)]
    /\ executed' = executed \cup {Head(task_queue[p])}
    /\ send_buffer' = [send_buffer EXCEPT ![p] = Append(@, Done(Head(task_queue[p])))]
    /\ UNCHANGED <<running, current_task, task_command_received, conn, wire>>

\* The download raises: process() ends, with current_task still set.
ProcessCrash(p) ==
    /\ Ready(p)
    /\ task_queue' = [task_queue EXCEPT ![p] = Tail(@)]
    /\ current_task' = [current_task EXCEPT ![p] = Head(task_queue[p])]
    /\ UNCHANGED <<running, task_command_received, send_buffer, conn, wire, executed>>

-----------------------------------------------------------------------------
\* run(): open_connection succeeds.
Connect(p) ==
    /\ running[p]
    /\ conn[p] = "down"
    /\ conn' = [conn EXCEPT ![p] = "idle"]
    /\ UNCHANGED <<running, task_queue, current_task, task_command_received,
                   send_buffer, wire, executed>>

\* run(): the oldest packet leaves; the client then awaits the answer.
ClientSend(p) ==
    /\ running[p]
    /\ conn[p] = "idle"
    /\ send_buffer[p] # <<>>
    /\ conn' = [conn EXCEPT ![p] = "req"]
    /\ wire' = [wire EXCEPT ![p] = Head(send_buffer[p])]
    /\ send_buffer' = [send_buffer EXCEPT ![p] = Tail(@)]
    /\ UNCHANGED <<running, task_queue, current_task, task_command_received, executed>>

\* Mutant: the acknowledgement of a "done" does not clear the flag.
ReceivedUncleared(p, packet) == task_command_received[p] \/ packet.kind = "task"

\* process_command: has a task command been received since the last
\* acknowledged "done"?
Received(p, packet) ==
    \/ packet.kind = "task"
    \/ task_command_received[p] /\ packet.kind # "done"

\* Mutant: every packet is enqueued, not only task commands.
EnqueuedAlways(p, packet) == Append(task_queue[p], packet.task)

Enqueued(p, packet) ==
    IF packet.kind = "task" THEN Append(task_queue[p], packet.task) ELSE task_queue[p]

\* run(): the answer arrives; process_message with process_command.
ClientReceive(p) ==
    /\ running[p]
    /\ conn[p] = "resp"
    /\ task_queue' = [task_queue EXCEPT ![p] = Enqueued(p, wire[p])]
    /\ task_command_received' = [task_command_received EXCEPT ![p] = Received(p, wire[p])]
    /\ conn' = [conn EXCEPT ![p] = "idle"]
    /\ wire' = [wire EXCEPT ![p] = NoPacket]
    /\ UNCHANGED <<running, current_task, send_buffer, executed>>

\* run(): after EOF the loop goes on, takes the next packet and loses it.
ClientEof(p) ==
    /\ running[p]
    /\ conn[p] = "closed"
    /\ send_buffer[p] # <<>>
    /\ send_buffer' = [send_buffer EXCEPT ![p] = Tail(@)]
    /\ UNCHANGED <<running, task_queue, current_task, task_command_received,
                   conn, wire, executed>>

\* Connecting fails, or the connection breaks with whatever is under way:
\* run() ends and is never started again.
NetFail(p) ==
    /\ NetMayFail
    /\ running[p]
    /\ conn[p] # "lost"
    /\ conn' = [conn EXCEPT ![p] = "lost"]
    /\ wire' = [wire EXCEPT ![p] = NoPacket]
    /\ UNCHANGED <<running, task_queue, current_task, task_command_received,
                   send_buffer, executed>>

\* run() of the server: decode_packet raises, because the packet did not arrive
\* in one read of 1024 bytes, and the server closes the connection. Heartbeats
\* of a process that has crashed carry its traceback and may be that long.
ServerClose(p) ==
    /\ NetMayFail \/ current_task[p] # None
    /\ running[p]
    /\ conn[p] = "req"
    /\ conn' = [conn EXCEPT ![p] = "closed"]
    /\ wire' = [wire EXCEPT ![p] = NoPacket]
    /\ UNCHANGED <<running, task_queue, current_task, task_command_received,
                   send_buffer, executed>>

-----------------------------------------------------------------------------
\* Server side of the connection: the answer to the request of p, or the end
\* of the connection when the handler raised. There is nobody left to answer
\* when the process is gone.
Respond(p, reply) ==
    /\ conn[p] = "req"
    /\ conn' = [conn EXCEPT ![p] = IF ~running[p] THEN "down"
                                   ELSE IF reply = HandlerError THEN "closed" ELSE "resp"]
    /\ wire' = [wire EXCEPT ![p] = IF running[p] /\ reply # HandlerError
                                   THEN reply ELSE NoPacket]
    /\ UNCHANGED <<running, task_queue, current_task, task_command_received,
                   send_buffer, executed>>

\* Types of the workers' state.
WorkerTypeOK ==
    /\ running \in [Procs -> BOOLEAN]
    /\ task_queue \in [Procs -> Seq(Tasks)]
    /\ current_task \in [Procs -> Tasks \cup {None}]
    /\ task_command_received \in [Procs -> BOOLEAN]
    /\ send_buffer \in [Procs -> Seq(Requests)]
    /\ conn \in [Procs -> Conns]
    /\ wire \in [Procs -> Answers \cup {NoPacket}]
    /\ executed \in SUBSET Tasks
=============================================================================
