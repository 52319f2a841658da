---------------------------- MODULE TaskService ----------------------------
(***************************************************************************)
(* What a user of the system relies on, whatever workers come and go: the  *)
(* service accepts tasks, keeps each of them until it has been executed at *)
(* least once, and takes none back up after it has let go of it.           *)
(***************************************************************************)
CONSTANT Tasks

VARIABLES
    submitted,     \* tasks accepted so far
    outstanding,   \* tasks the service still holds
    executed       \* tasks executed at least once

vars == <<submitted, outstanding, executed>>

Init ==
    /\ submitted = {}
    /\ outstanding = {}
    /\ executed = {}

Submit(S) ==
    /\ S \cap submitted = {}
    /\ submitted' = submitted \cup S
    /\ outstanding' = outstanding \cup S
    /\ UNCHANGED executed

Execute(t) ==
    /\ t \in outstanding
    /\ executed' = executed \cup {t}
    /\ UNCHANGED <<submitted, outstanding>>

Retire(t) ==
    /\ t \in outstanding \cap executed
    /\ outstanding' = outstanding \ {t}
    /\ UNCHANGED <<submitted, executed>>

Next ==
    \/ \E S \in SUBSET Tasks : Submit(S)
    \/ \E t \in Tasks : Execute(t) \/ Retire(t)

Spec == Init /\ [][Next]_vars
=============================================================================
