------------------------ MODULE InstanceManagerProofs ------------------------
(***************************************************************************)
(* Proofs about InstanceManager, for any instances and every fault that    *)
(* the model knows: what the table of instances may be relied on for.      *)
(***************************************************************************)
EXTENDS InstanceManager, TLAPS

\* Every step of the Instance Manager and of its environment keeps the types.
LEMMA TypeStep == TypeOK /\ [Next]_vars => TypeOK'
<1> SUFFICES ASSUME TypeOK, [Next]_vars PROVE TypeOK'
  OBVIOUS
<1> USE DEF TypeOK, PCs, Times, Recorded, Real, Commands
<1>1. CASE UNCHANGED vars
  BY <1>1 DEF vars, tableVars, timeVars, envVars
<1>2. CASE WaitForNodeManager \/ FindNodeManager \/ NoNodeManager
  <2>1. Synced \in [Ids -> Recorded] /\ SyncedAddresses \in SUBSET NodeManagers
    BY DEF Synced, SyncedAddresses, Addresses
  <2> QED
    BY <1>2, <2>1 DEF WaitForNodeManager, FindNodeManager, NoNodeManager, timeVars, envVars
<1>3. ASSUME NEW m \in NodeManagers, StartNodeManager(m) PROVE TypeOK'
  <2>1. Synced \in [Ids -> Recorded] /\ SyncedAddresses \in SUBSET NodeManagers /\ m \in Ids
    BY DEF Synced, SyncedAddresses, Addresses, Ids
  <2> QED
    BY <1>3, <2>1 DEF StartNodeManager
<1>4. CASE BeginRound
  BY <1>4 DEF BeginRound, Addresses, timeVars, envVars
<1>5. ASSUME NEW i \in Ids, CheckFine(i) PROVE TypeOK'
  BY <1>5 DEF CheckFine, timeVars, envVars
<1>6. ASSUME NEW i \in Ids, CheckStart(i) PROVE TypeOK'
  BY <1>6 DEF CheckStart, SendStartCommand, CommandFor
<1>7. ASSUME NEW i \in Ids, CheckTimedOut(i) PROVE TypeOK'
  BY <1>7 DEF CheckTimedOut, envVars
<1>8. CASE EndCheck \/ NoDecision
  BY <1>8 DEF EndCheck, NoDecision, tableVars, timeVars, envVars
<1>9. ASSUME NEW w \in Workers, StartWorker(w) PROVE TypeOK'
  BY <1>9 DEF StartWorker, Started, Ids
<1>10. ASSUME NEW w \in Workers, KillWorker(w) PROVE TypeOK'
  BY <1>10 DEF KillWorker, KilledState, ClearedTime, ToldToStop, Ids
<1>11. CASE CancelAll \/ CancelFails
  BY <1>11 DEF CancelAll, CancelFails, ToldToStop
<1>12. ASSUME NEW i \in Ids, MachineStep(i) \/ ProgramStarts(i) \/ ProgramDies(i) PROVE TypeOK'
  BY <1>12 DEF MachineStep, ProgramStarts, ProgramDies, tableVars, timeVars
<1>13. ASSUME NEW i \in Ids, HeartbeatTimesOut(i) \/ SignalTimesOut(i) PROVE TypeOK'
  BY <1>13 DEF HeartbeatTimesOut, SignalTimesOut, envVars
<1>14. ASSUME NEW i \in Ids, ProcessHeartbeat(i) PROVE TypeOK'
  BY <1>14 DEF ProcessHeartbeat, ChargedOnBeat, envVars
<1>15. ASSUME NEW m \in NodeManagers, StartedByHand(m) PROVE TypeOK'
  BY <1>15 DEF StartedByHand, tableVars, timeVars, Ids
<1>16. CASE Ec2Failure
  <2>1. Synced \in [Ids -> Recorded] /\ SyncedAddresses \in SUBSET NodeManagers
    BY DEF Synced, SyncedAddresses, Addresses
  <2>2. CASE SyncFails
    BY <2>2 DEF SyncFails, Ec2Raises
  <2>3. ASSUME NEW m \in NodeManagers, StartNodeManagerFails(m) PROVE TypeOK'
    BY <2>1, <2>3 DEF StartNodeManagerFails, Ec2Raises, Ids
  <2>4. ASSUME NEW i \in Ids, RestartFails(i) PROVE TypeOK'
    BY <2>4 DEF RestartFails, Ec2Raises
  <2>5. ASSUME NEW w \in Workers, StartWorkerFails(w) PROVE TypeOK'
    BY <2>5 DEF StartWorkerFails, Ec2Raises, Ids
  <2>6. ASSUME NEW w \in Workers, KillWorkerFails(w) PROVE TypeOK'
    BY <2>6 DEF KillWorkerFails, Ec2Raises, ToldToStop, Ids
  <2> QED
    BY <1>16, <2>2, <2>3, <2>4, <2>5, <2>6 DEF Ec2Failure
<1> QED
  BY <1>1, <1>2, <1>3, <1>4, <1>5, <1>6, <1>7, <1>8, <1>9, <1>10, <1>11, <1>12, <1>13, <1>14,
     <1>15, <1>16
  DEF Next, SchedulerStep

\* The error of a call of EC2 ends run().
LEMMA FailureFails == Ec2Failure => pc' = "failed" /\ pc # "ended"
  BY DEF Ec2Failure, SyncFails, StartNodeManagerFails, RestartFails, StartWorkerFails,
         KillWorkerFails, Ec2Raises, MayInitialize, NextToCheck

-----------------------------------------------------------------------------
(***************************************************************************)
(* The table of instances and EC2. Both properties say how `nodes` relates *)
(* to `ec2`, so only the steps that change one of them, or pc, matter.     *)
(***************************************************************************)
Tracked == RecordedStopped /\ OnAreWatched

\* A synchronisation with EC2, and what is left of the table without one.
LEMMA SyncedTracks ==
    ASSUME TypeOK, Tracked, pc \in {"start", "wait"}, NEW i \in Managed
    PROVE  /\ Synced[i] = "stopped" => ec2[i] = "stopped"
           /\ ec2[i] \in ActiveStates => Synced[i] \in ActiveStates
  BY DEF Tracked, RecordedStopped, OnAreWatched, Synced, Managed, Ids

\* The debug flag never changes.
LEMMA FlagStays == [Next]_vars => UNCHANGED debug
  BY DEF Next, vars, SchedulerStep, Ec2Failure, WaitForNodeManager, FindNodeManager,
         StartNodeManager, NoNodeManager, BeginRound, CheckFine, CheckStart, CheckTimedOut,
         EndCheck, NoDecision, StartWorker, KillWorker, SyncFails, StartNodeManagerFails,
         RestartFails, StartWorkerFails, KillWorkerFails, Ec2Raises, CancelAll, CancelFails,
         StartedByHand, MachineStep, ProgramStarts, ProgramDies, HeartbeatTimesOut,
         SignalTimesOut, ProcessHeartbeat

\* Every step keeps the table in line with EC2.
LEMMA TrackedStep == TypeOK /\ Tracked /\ [Next]_vars => Tracked'
<1> SUFFICES ASSUME TypeOK, Tracked, [Next]_vars PROVE Tracked'
  OBVIOUS
<1>0. Managed \subseteq Ids /\ (debug => Managed = Workers) /\ UNCHANGED Managed
  BY FlagStays DEF Managed, Ids
<1> USE <1>0 DEF Tracked, RecordedStopped, OnAreWatched
<1>1. CASE UNCHANGED vars
  BY <1>1 DEF vars, tableVars, timeVars, envVars
<1>2. CASE WaitForNodeManager \/ FindNodeManager \/ NoNodeManager
  <2>1. /\ pc \in {"start", "wait"}
        /\ nodes' = Synced
        /\ UNCHANGED ec2
    BY <1>2 DEF WaitForNodeManager, FindNodeManager, NoNodeManager, MayInitialize, envVars
  <2> QED
    BY <2>1, SyncedTracks DEF ActiveStates
<1>3. ASSUME NEW m \in NodeManagers, StartNodeManager(m) PROVE Tracked'
  <2>1. /\ pc \in {"start", "wait"}
        /\ nodes' = [Synced EXCEPT ![m] = "running"]
        /\ ec2' = [ec2 EXCEPT ![m] = "running"]
    BY <1>3 DEF StartNodeManager, MayInitialize
  <2>2. DOMAIN Synced = Ids /\ DOMAIN ec2 = Ids
    BY DEF TypeOK, Synced
  <2> QED
    BY <2>1, <2>2, SyncedTracks DEF ActiveStates
<1>4. CASE BeginRound
  BY <1>4 DEF BeginRound, envVars, TypeOK
<1>5. ASSUME NEW i \in Ids, CheckFine(i) PROVE Tracked'
  BY <1>5 DEF CheckFine, NextToCheck, ActiveStates, envVars, TypeOK
<1>6. ASSUME NEW i \in Ids, CheckStart(i) PROVE Tracked'
  BY <1>6 DEF CheckStart, NextToCheck
<1>7. ASSUME NEW i \in Ids, CheckTimedOut(i) PROVE Tracked'
  BY <1>7 DEF CheckTimedOut, NextToCheck, ActiveStates, envVars, TypeOK
<1>8. CASE EndCheck \/ NoDecision
  BY <1>8 DEF EndCheck, NoDecision, tableVars, envVars
<1>9. ASSUME NEW w \in Workers, StartWorker(w) PROVE Tracked'
  BY <1>9 DEF StartWorker, Started, ActiveStates, Ids, TypeOK
<1>10. ASSUME NEW w \in Workers, KillWorker(w) PROVE Tracked'
  BY <1>10 DEF KillWorker, KilledState, ToldToStop, ActiveStates, Ids, TypeOK
<1>11. CASE CancelAll \/ CancelFails
  BY <1>11 DEF CancelAll, CancelFails
<1>12. ASSUME NEW i \in Ids, MachineStep(i) \/ ProgramStarts(i) \/ ProgramDies(i) PROVE Tracked'
  BY <1>12 DEF MachineStep, ProgramStarts, ProgramDies, tableVars, ActiveStates, TypeOK
<1>13. ASSUME NEW i \in Ids, HeartbeatTimesOut(i) \/ SignalTimesOut(i) PROVE Tracked'
  BY <1>13 DEF HeartbeatTimesOut, SignalTimesOut, envVars
<1>14. ASSUME NEW i \in Ids, ProcessHeartbeat(i) PROVE Tracked'
  BY <1>14 DEF ProcessHeartbeat, envVars
<1>15. ASSUME NEW m \in NodeManagers, StartedByHand(m) PROVE Tracked'
  BY <1>15, InstancesAssumption DEF StartedByHand, tableVars, TypeOK
<1>16. CASE Ec2Failure
  BY <1>16, FailureFails
<1> QED
  BY <1>1, <1>2, <1>3, <1>4, <1>5, <1>6, <1>7, <1>8, <1>9, <1>10, <1>11, <1>12, <1>13, <1>14,
     <1>15, <1>16
  DEF Next, SchedulerStep

-----------------------------------------------------------------------------
\* A fresh Instance Manager satisfies the invariant.
LEMMA TableInit == Init => TypeOK /\ Tracked
<1> SUFFICES ASSUME Init PROVE TypeOK /\ Tracked
  OBVIOUS
<1>1. pc \in PCs /\ node_manager_running \in BOOLEAN /\ ec2 \in [Ids -> Real]
  BY DEF Init, PCs
<1>2. /\ nodes \in [Ids -> Recorded]
      /\ last_heartbeat \in [Ids -> Times] /\ start_signal \in [Ids -> Times]
      /\ command \in [Ids -> Commands] /\ program \in [Ids -> Commands]
  BY DEF Init, Recorded, Times, Commands
<1>3. TypeOK
  BY <1>1, <1>2 DEF Init, TypeOK
<1>4. Tracked
  BY DEF Init, Tracked, RecordedStopped, OnAreWatched, Managed, Ids
<1> QED
  BY <1>3, <1>4

\* Types and table together form an inductive invariant.
THEOREM TableInvariant == Spec => [](TypeOK /\ Tracked)
<1>1. TypeOK /\ Tracked /\ [Next]_vars => (TypeOK /\ Tracked)'
  BY TypeStep, TrackedStep
<1> QED
  BY <1>1, TableInit, PTL DEF Spec

\* The fields of the Instance Manager keep their types.
THEOREM ManagerTypeCorrect == Spec => []TypeOK
  BY TableInvariant, PTL

\* An instance counts as STOPPED only when its machine has stopped, so
\* start_instances is never called for a machine that is still stopping.
THEOREM StoppedAreOff == Spec => []RecordedStopped
<1>1. Tracked => RecordedStopped
  BY DEF Tracked
<1> QED
  BY <1>1, TableInvariant, PTL

\* No machine that is on is forgotten, whatever faults happen.
THEOREM NoMachineForgotten == Spec => []OnAreWatched
<1>1. Tracked => OnAreWatched
  BY DEF Tracked
<1> QED
  BY <1>1, TableInvariant, PTL

-----------------------------------------------------------------------------
(***************************************************************************)
(* The heartbeats and charge_time, under every fault of the model.         *)
(***************************************************************************)
\* Every step keeps the charge of the instances that beat: what deletes one, a
\* kill or a timeout, comes with a cleared or a stale heartbeat, and that of a
\* node manager starts again at once.
LEMMA ChargedStep == TypeOK /\ BeatsAreCharged /\ [Next]_vars => BeatsAreCharged'
<1> SUFFICES ASSUME TypeOK, BeatsAreCharged, [Next]_vars PROVE BeatsAreCharged'
  OBVIOUS
<1> USE InstancesAssumption DEF BeatsAreCharged, TypeOK, Ids
<1>1. CASE UNCHANGED vars
  BY <1>1 DEF vars, tableVars, timeVars
<1>2. CASE WaitForNodeManager \/ FindNodeManager \/ NoNodeManager
  BY <1>2 DEF WaitForNodeManager, FindNodeManager, NoNodeManager, MayInitialize, timeVars
<1>3. ASSUME NEW m \in NodeManagers, StartNodeManager(m) PROVE BeatsAreCharged'
  BY <1>3 DEF StartNodeManager, MayInitialize
<1>4. CASE BeginRound \/ EndCheck \/ NoDecision
  BY <1>4 DEF BeginRound, EndCheck, NoDecision, tableVars, timeVars
<1>5. ASSUME NEW i \in Ids, CheckFine(i) \/ CheckStart(i) PROVE BeatsAreCharged'
  BY <1>5 DEF CheckFine, CheckStart, timeVars
<1>6. ASSUME NEW i \in Ids, CheckTimedOut(i) PROVE BeatsAreCharged'
  BY <1>6 DEF CheckTimedOut, NextToCheck, Refused
<1>7. ASSUME NEW w \in Workers, StartWorker(w) PROVE BeatsAreCharged'
  BY <1>7 DEF StartWorker
<1>8. ASSUME NEW w \in Workers, KillWorker(w) PROVE BeatsAreCharged'
  BY <1>8 DEF KillWorker, ClearedTime
<1>9. CASE CancelAll \/ CancelFails
  BY <1>9 DEF CancelAll, CancelFails
<1>10. ASSUME NEW i \in Ids, MachineStep(i) \/ ProgramStarts(i) \/ ProgramDies(i)
       PROVE  BeatsAreCharged'
  BY <1>10 DEF MachineStep, ProgramStarts, ProgramDies, tableVars, timeVars
<1>11. ASSUME NEW i \in Ids, HeartbeatTimesOut(i) \/ SignalTimesOut(i) PROVE BeatsAreCharged'
  BY <1>11 DEF HeartbeatTimesOut, SignalTimesOut
<1>12. ASSUME NEW i \in Ids, ProcessHeartbeat(i) PROVE BeatsAreCharged'
  BY <1>12 DEF ProcessHeartbeat, ChargedOnBeat
<1>13. ASSUME NEW m \in NodeManagers, StartedByHand(m) PROVE BeatsAreCharged'
  BY <1>13 DEF StartedByHand, tableVars, timeVars
<1>14. CASE Ec2Failure
  <2>1. pc' = "failed" /\ pc # "down"
    BY <1>14 DEF Ec2Failure, SyncFails, StartNodeManagerFails, RestartFails, StartWorkerFails,
                 KillWorkerFails, Ec2Raises, MayInitialize, NextToCheck
  <2>2. ASSUME NEW i \in Ids, RestartFails(i) PROVE BeatsAreCharged'
    BY <2>1, <2>2 DEF RestartFails, Ec2Raises
  <2>3. CASE UNCHANGED <<last_heartbeat, charge_time>>
    BY <2>1, <2>3
  <2> QED
    BY <1>14, <2>2, <2>3 DEF Ec2Failure, SyncFails, StartNodeManagerFails, StartWorkerFails,
                             KillWorkerFails, Ec2Raises
<1> QED
  BY <1>1, <1>2, <1>3, <1>4, <1>5, <1>6, <1>7, <1>8, <1>9, <1>10, <1>11, <1>12, <1>13, <1>14
  DEF Next, SchedulerStep

\* An instance that beats in time is charged, and a node manager for as long as
\* its heartbeat is recorded.
THEOREM InstancesAreCharged == Spec => []BeatsAreCharged
<1>1. Init => BeatsAreCharged
  BY DEF Init, BeatsAreCharged, Ids
<1> QED
  BY <1>1, ChargedStep, ManagerTypeCorrect, PTL DEF Spec

\* The only step of a round that raises an exception is the look-up in
\* charge_time of an instance whose heartbeat has timed out, and for a node
\* manager it finds the entry.
LEMMA RoundEnds ==
    ASSUME BeatsAreCharged, [Next]_vars, InRounds, pc' = "ended"
    PROVE  \E w \in Workers : /\ nodes[w] \in ActiveStates
                             /\ last_heartbeat[w] = "stale"
                             /\ w \notin charge_time
<1>1. PICK i \in Ids : CheckTimedOut(i)
  <2> USE DEF InRounds
  <2>1. ~UNCHANGED vars
    BY DEF vars
  <2>2. ~Ec2Failure
    BY FailureFails
  <2>3. ~CancelAll /\ ~CancelFails
    BY DEF CancelAll, CancelFails
  <2>4. \A m \in NodeManagers : ~StartedByHand(m)
    BY DEF StartedByHand
  <2>5. \A i \in Ids : ~(\/ MachineStep(i) \/ ProgramStarts(i) \/ ProgramDies(i)
                        \/ HeartbeatTimesOut(i) \/ SignalTimesOut(i) \/ ProcessHeartbeat(i))
    BY DEF MachineStep, ProgramStarts, ProgramDies, HeartbeatTimesOut, SignalTimesOut,
           ProcessHeartbeat
  <2>6. \A i \in Ids : ~CheckFine(i) /\ ~CheckStart(i)
    BY DEF CheckFine, CheckStart, NextToCheck
  <2>7. \A w \in Workers : ~StartWorker(w) /\ ~KillWorker(w)
    BY DEF StartWorker, KillWorker
  <2>8. ~WaitForNodeManager /\ ~FindNodeManager /\ ~NoNodeManager
    BY DEF WaitForNodeManager, FindNodeManager, NoNodeManager, MayInitialize
  <2>9. ~BeginRound /\ ~EndCheck /\ ~NoDecision /\ \A m \in NodeManagers : ~StartNodeManager(m)
    BY DEF BeginRound, EndCheck, NoDecision, StartNodeManager, MayInitialize
  <2> QED
    BY <2>1, <2>2, <2>3, <2>4, <2>5, <2>6, <2>7, <2>8, <2>9 DEF Next, SchedulerStep
<1>2. /\ pc = "check" /\ nodes[i] \in ActiveStates
      /\ last_heartbeat[i] = "stale" /\ i \notin charge_time
  BY <1>1 DEF CheckTimedOut, NextToCheck
<1>3. i \in Workers
  BY <1>2 DEF BeatsAreCharged, Ids
<1> QED
  BY <1>2, <1>3

\* A node manager never ends the rounds of the scheduler, whatever its faults.
THEOREM NodeManagersNeverEndIt == Spec => OnlyWorkersEndIt
<1>1. BeatsAreCharged /\ [Next]_vars =>
        [(InRounds /\ pc' = "ended") =>
            \E w \in Workers : /\ nodes[w] \in ActiveStates
                              /\ last_heartbeat[w] = "stale"
                              /\ w \notin charge_time]_vars
  BY RoundEnds
<1> QED
  BY <1>1, InstancesAreCharged, PTL DEF Spec, OnlyWorkersEndIt
=============================================================================
