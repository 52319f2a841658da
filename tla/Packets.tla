------------------------------ MODULE Packets ------------------------------
(***************************************************************************)
(* What travels between a worker and the Node Manager.                     *)
(*                                                                         *)
(* The protocol of connection.py is lock-step: a client sends one packet   *)
(* and awaits one answer. The answer is either the packet itself, sent     *)
(* back as an acknowledgement, or a "task" command; when the handler of    *)
(* the server raises, the server closes the connection instead.            *)
(***************************************************************************)
CONSTANTS
    Workers,   \* instance ids of the worker instances
    Tasks,     \* file names of registered tasks
    None       \* no task

ASSUME NoneAssumption == None \notin Tasks

Packet(kind, t, b) == [kind |-> kind, task |-> t, no_hb_task |-> b]

\* Heartbeat of a worker; b says that a task command has been received.
Heartbeat(b) == Packet("heartbeat", None, b)

\* A worker reports task t done.
Done(t) == Packet("done", t, FALSE)

\* The Node Manager hands out task t.
TaskCommand(t) == Packet("task", t, FALSE)

\* The handler raised; no packet is sent and the connection is closed.
HandlerError == Packet("error", None, FALSE)

Heartbeats == {Heartbeat(b) : b \in BOOLEAN}
Dones == {Done(t) : t \in Tasks}
Requests == Heartbeats \cup Dones
Answers == Requests \cup {TaskCommand(t) : t \in Tasks}
=============================================================================
