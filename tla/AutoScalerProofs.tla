-------------------------- MODULE AutoScalerProofs --------------------------
(***************************************************************************)
(* Proofs about AutoScaler, for any number of workers, any scenario and    *)
(* any thresholds of the load balancer: the pool keeps its promises when   *)
(* the load balancer decides when there are workers, the types, and what   *)
(* the counter all_assigned_tasks counts.                                  *)
(***************************************************************************)
EXTENDS AutoScaler, TaskPoolProofs, SumTheorems

\* EC2's listing is a sequence, so there are finitely many workers.
LEMMA FiniteWorkers == IsFiniteSet(Workers)
<1>1. Listing \in Seq(Workers) /\ Range(Listing) = Workers
  BY ListingAssumption
<1>2. DOMAIN Listing = 1 .. Len(Listing) /\ Len(Listing) \in Nat /\ Listing \in [1 .. Len(Listing) -> Workers]
  BY <1>1
<1>3. Listing \in Surjection(1 .. Len(Listing), Workers)
  BY <1>1, <1>2 DEF Surjection, Range
<1>4. IsFiniteSet(1 .. Len(Listing))
  BY <1>2, FS_Interval
<1> QED
  BY <1>3, <1>4, FS_Surjection

\* The size of a set of workers is a natural number.
LEMMA WorkersCounted == \A S \in SUBSET Workers : Cardinality(S) \in Nat
  BY FiniteWorkers, FS_Subset, FS_CardinalityType

-----------------------------------------------------------------------------
(***************************************************************************)
(* The control loop makes only steps of the pool: its workers and its      *)
(* Instance Manager are one of the environments that TaskPool allows.      *)
(***************************************************************************)
LEMMA PoolOrNot ==
    ASSUME PoolTypeOK, TypeOK, [Next]_vars
    PROVE  [PoolNext]_poolVars
<1>1. CASE GenerateHeartbeat
  BY <1>1 DEF GenerateHeartbeat, PoolNext
<1>2. CASE RecordHeartbeat
  BY <1>2 DEF RecordHeartbeat
<1>3. CASE ReceiveAnswer
  <2>1. Head(answers) \in SUBSET Workers
    BY <1>3 DEF ReceiveAnswer, TypeOK
  <2> QED
    BY <1>3, <2>1 DEF ReceiveAnswer, PoolNext
<1>4. CASE PoolStep
  BY <1>4 DEF PoolStep, PoolNext
<1>5. ASSUME NEW w \in Workers,
             StartWorker(w) \/ KillWorker(w) \/ WorkerUp(w) \/ StopRecorded(w)
      PROVE  UNCHANGED poolVars
  BY <1>5 DEF StartWorker, KillWorker, WorkerUp, StopRecorded
<1>6. ASSUME NEW w \in Workers, TakeBack(w)
      PROVE  PoolNext
  BY <1>6 DEF TakeBack, PoolNext
<1>7. ASSUME NEW w \in Workers, AskForTask(w)
      PROVE  PoolNext
  <2>1. PICK t \in Tasks : ProcessHeartbeat(w, Heartbeat(FALSE), TaskCommand(t))
    BY <1>7 DEF AskForTask
  <2>2. Heartbeat(FALSE) \in Heartbeats /\ TaskCommand(t) \in Answers
    BY Zenon DEF Heartbeats, Answers
  <2> QED
    BY <2>1, <2>2 DEF PoolNext
<1>8. ASSUME NEW w \in Workers, ReportDone(w)
      PROVE  PoolNext
  <2>1. PICK reply \in Answers : ProcessDone(w, Done(Head(task_processing[w])), reply)
    BY <1>8 DEF ReportDone
  <2>2. task_processing[w] \in Seq(Tasks) /\ task_processing[w] # <<>>
    BY <1>8 DEF ReportDone, PoolTypeOK
  <2>3. Done(Head(task_processing[w])) \in Dones
    BY <2>2 DEF Dones
  <2>4. reply \in Answers \cup {HandlerError}
    OBVIOUS
  <2> QED
    BY <2>1, <2>3, <2>4 DEF PoolNext
<1>9. CASE UNCHANGED vars
  BY <1>9 DEF vars
<1> QED
  BY <1>1, <1>2, <1>3, <1>4, <1>5, <1>6, <1>7, <1>8, <1>9 DEF Next

-----------------------------------------------------------------------------
(***************************************************************************)
(* Types. The window never has more than WINDOW_SIZE entries, and the      *)
(* divisor of each is positive.                                            *)
(***************************************************************************)
ReportType == [jobs : Int, size : Nat, least : Workers \cup {None}, work : BOOLEAN]

\* What generate_heartbeat reports.
LEMMA ReportTyped ==
    ASSUME PoolTypeOK, NEW w \in LeastAllocated
    PROVE  [jobs |-> ReportedJobs, size |-> Cardinality(Busy), least |-> w,
            work |-> InPool # {}] \in ReportType
<1>1. keys \in SUBSET Workers /\ Busy \in SUBSET Workers
  BY DEF PoolTypeOK, Busy
<1>2. Cardinality(keys) \in Nat /\ Cardinality(Busy) \in Nat
  BY <1>1, WorkersCounted
<1>3. ReportedJobs \in Int
  <2>1. all_assigned_tasks \in Int /\ Len(tasks) \in Nat
    BY DEF PoolTypeOK
  <2> QED
    BY <1>2, <2>1 DEF ReportedJobs
<1>4. w \in Workers \cup {None}
  BY <1>1 DEF LeastAllocated
<1>5. (InPool # {}) \in BOOLEAN
  BY Zenon
<1> HIDE DEF ReportedJobs, Busy, InPool
<1> QED
  BY <1>2, <1>3, <1>4, <1>5 DEF ReportType

\* update_node_manager keeps the window within its size.
LEMMA WindowTyped ==
    ASSUME NEW window \in Seq([jobs : Int, per : Nat \ {0}]), Len(window) <= WINDOW_SIZE,
           NEW hb \in ReportType
    PROVE  /\ Slid(Append(window, Load(hb.jobs, hb.size))) \in Seq([jobs : Int, per : Nat \ {0}])
           /\ Len(Slid(Append(window, Load(hb.jobs, hb.size)))) <= WINDOW_SIZE
<1> DEFINE L == [jobs : Int, per : Nat \ {0}]
           l == Load(hb.jobs, hb.size)
           longer == Append(window, l)
<1>1. hb.jobs \in Int /\ hb.size \in Nat
  BY DEF ReportType
<1>2. l \in L
  BY <1>1 DEF Load
<1>3. longer \in Seq(L) /\ Len(longer) = Len(window) + 1 /\ longer # <<>>
  <2>1. window \in Seq(L)
    OBVIOUS
  <2> HIDE DEF L, l
  <2>2. longer \in Seq(L) /\ Len(longer) = Len(window) + 1
    BY <1>2, <2>1, AppendProperties
  <2>3. Len(window) \in Nat
    BY <2>1
  <2> QED
    BY <2>2, <2>3
<1> HIDE DEF L, l
<1>4. WINDOW_SIZE \in Nat /\ Len(window) \in Nat
  BY WindowAssumption
<1> HIDE DEF longer
<1>5. Tail(longer) \in Seq(L) /\ Len(Tail(longer)) = Len(longer) - 1
  BY <1>3
<1>6. Slid(longer) \in Seq(L) /\ Len(Slid(longer)) <= WINDOW_SIZE
  BY <1>3, <1>4, <1>5 DEF Slid
<1> QED
  BY <1>6 DEF L, l, longer

\* A fresh system has the types.
LEMMA ScalerTypeInit == Init => TypeOK
<1> SUFFICES ASSUME Init PROVE TypeOK
  OBVIOUS
<1>1. work_seen \in BOOLEAN
  BY Zenon DEF Init
<1>2. /\ mean_total_tasks \in Seq([jobs : Int, per : Nat \ {0}])
      /\ Len(mean_total_tasks) <= WINDOW_SIZE
  BY WindowAssumption DEF Init, WindowInit
<1>3. worker_allocation \in [size : Nat, least : Workers \cup {None}]
  BY DEF Init, WindowInit
<1>4. vm \in [Workers -> {"off", "pending", "on", "stopping"}]
  BY DEF Init
<1>5. reports \in Seq(ReportType) /\ answers \in Seq(SUBSET Workers)
  BY DEF Init
<1>6. stolen \in Nat /\ taken_back \in Nat
  BY DEF Init
<1> QED
  BY <1>1, <1>2, <1>3, <1>4, <1>5, <1>6 DEF TypeOK, ReportType

\* Every step keeps the types.
LEMMA ScalerTypeStep ==
    ASSUME PoolTypeOK, TypeOK, [Next]_vars
    PROVE  TypeOK'
<1> USE DEF TypeOK, ReportType, windowVars, machineVars, historyVars
<1>1. CASE GenerateHeartbeat
  <2>1. PICK w \in LeastAllocated :
          reports' = Append(reports, [jobs |-> ReportedJobs, size |-> Cardinality(Busy),
                                      least |-> w, work |-> InPool # {}])
    BY <1>1 DEF GenerateHeartbeat
  <2>2. reports' \in Seq(ReportType)
    <3> DEFINE report == [jobs |-> ReportedJobs, size |-> Cardinality(Busy), least |-> w,
                          work |-> InPool # {}]
    <3>1. report \in ReportType
      BY ReportTyped
    <3>2. reports \in Seq(ReportType)
      OBVIOUS
    <3> HIDE DEF report, ReportType
    <3>3. Append(reports, report) \in Seq(ReportType)
      BY <3>1, <3>2, AppendProperties
    <3> QED
      BY <2>1, <3>3 DEF report
  <2> QED
    BY <1>1, <2>2 DEF GenerateHeartbeat
<1>2. CASE RecordHeartbeat
  <2> DEFINE hb == Head(reports)
  <2>1. hb \in ReportType
    <3> HIDE DEF ReportType
    <3>1. reports \in Seq(ReportType) /\ reports # <<>>
      BY <1>2 DEF RecordHeartbeat, ReportType
    <3> QED
      BY <3>1
  <2>2. /\ mean_total_tasks' \in Seq([jobs : Int, per : Nat \ {0}])
        /\ Len(mean_total_tasks') <= WINDOW_SIZE
    BY <1>2, <2>1, WindowTyped DEF RecordHeartbeat, UpdateNodeManager
  <2>3. worker_allocation' \in [size : Nat, least : Workers \cup {None}]
    BY <1>2, <2>1 DEF RecordHeartbeat, UpdateNodeManager
  <2>4. work_seen' \in BOOLEAN
    BY <1>2, <2>1 DEF RecordHeartbeat
  <2>5. answers' \in Seq(SUBSET Workers) /\ reports' \in Seq(ReportType)
    <3>1. Active \in SUBSET Workers
      BY DEF Active
    <3> QED
      BY <1>2, <3>1 DEF RecordHeartbeat
  <2>6. UNCHANGED <<vm, stolen, taken_back>>
    BY <1>2 DEF RecordHeartbeat
  <2> QED
    BY <2>2, <2>3, <2>4, <2>5, <2>6
<1>3. CASE ReceiveAnswer
  BY <1>3 DEF ReceiveAnswer
<1>4. CASE PoolStep
  BY <1>4 DEF PoolStep
<1>5. ASSUME NEW w \in Workers,
             StartWorker(w) \/ KillWorker(w) \/ WorkerUp(w) \/ StopRecorded(w)
      PROVE  TypeOK'
  <2>1. vm' \in [Workers -> {"off", "pending", "on", "stopping"}]
    BY <1>5 DEF StartWorker, KillWorker, WorkerUp, StopRecorded
  <2>2. UNCHANGED <<windowVars, reports, answers, historyVars>>
    BY <1>5 DEF StartWorker, KillWorker, WorkerUp, StopRecorded
  <2> QED
    BY <2>1, <2>2
<1>6. ASSUME NEW w \in Workers, TakeBack(w)
      PROVE  TypeOK'
  <2>1. taken_back' = taken_back + Len(task_processing[w])
    BY <1>6 DEF TakeBack
  <2>2. Len(task_processing[w]) \in Nat
    BY DEF PoolTypeOK
  <2>3. taken_back' \in Nat
    BY <2>1, <2>2
  <2> QED
    BY <1>6, <2>3 DEF TakeBack
<1>7. ASSUME NEW w \in Workers, AskForTask(w) \/ ReportDone(w)
      PROVE  TypeOK'
  <2>1. \E reply : stolen' = Counted(w, reply)
    BY <1>7 DEF AskForTask, ReportDone
  <2>2. stolen' \in Nat
    BY <2>1 DEF Counted
  <2> QED
    BY <1>7, <2>2 DEF AskForTask, ReportDone
<1>8. CASE UNCHANGED vars
  BY <1>8 DEF vars
<1> QED
  BY <1>1, <1>2, <1>3, <1>4, <1>5, <1>6, <1>7, <1>8 DEF Next

-----------------------------------------------------------------------------
(***************************************************************************)
(* The counter. Of(A, B, w) is the number of tasks of worker w in two      *)
(* families of queues, and Total the sum over a set of workers.            *)
(***************************************************************************)
Queues == [Workers -> Seq(Tasks)]

Of(A, B, w) == Len(A[w]) + Len(B[w])

Lengths(A, B) == [w \in Workers |-> Of(A, B, w)]

Total(A, B, K) == SumFunctionOnSet(Lengths(A, B), K)

\* On the workers in S, the queues are the same.
SameOn(A, B, C, D, S) == \A w \in S : A[w] = C[w] /\ B[w] = D[w]

\* The queues of the workers in S are empty.
EmptyOn(A, B, S) == \A w \in S : A[w] = <<>> /\ B[w] = <<>>

\* Lengths are natural numbers.
LEMMA LengthsTyped ==
    ASSUME NEW A \in Queues, NEW B \in Queues
    PROVE  /\ Lengths(A, B) \in [Workers -> Nat]
           /\ \A w \in Workers : /\ Len(A[w]) \in Nat /\ Len(B[w]) \in Nat
                                 /\ Of(A, B, w) \in Nat
                                 /\ Lengths(A, B)[w] = Of(A, B, w)
<1>1. \A w \in Workers : Len(A[w]) \in Nat /\ Len(B[w]) \in Nat
  BY DEF Queues
<1>2. \A w \in Workers : Of(A, B, w) \in Nat
  <2>1. \A m, n \in Nat : m + n \in Nat
    OBVIOUS
  <2> QED
    BY <1>1, <2>1, Zenon DEF Of
<1>3. Lengths(A, B) \in [Workers -> Nat]
  BY <1>2 DEF Lengths
<1>4. \A w \in Workers : Lengths(A, B)[w] = Of(A, B, w)
  BY DEF Lengths
<1> QED
  BY <1>1, <1>2, <1>3, <1>4

\* The total is a natural number, and 0 if there is no worker.
LEMMA TotalTyped ==
    ASSUME NEW A \in Queues, NEW B \in Queues, NEW K \in SUBSET Workers
    PROVE  Total(A, B, K) \in Nat /\ Total(A, B, {}) = 0
<1>1. Lengths(A, B) \in [Workers -> Nat]
  BY LengthsTyped
<1> QED
  BY <1>1, FiniteWorkers, SumType DEF Total

\* The total after a change of the queues of one worker.
LEMMA TotalChanged ==
    ASSUME NEW A \in Queues, NEW B \in Queues, NEW C \in Queues, NEW D \in Queues,
           NEW K \in SUBSET Workers, NEW v \in K,
           SameOn(A, B, C, D, K \ {v})
    PROVE  Total(C, D, K) = Total(A, B, K) - Of(A, B, v) + Of(C, D, v)
<1> DEFINE a == Lengths(A, B)
           c == Lengths(C, D)
<1>1. a \in [Workers -> Nat] /\ c \in [Workers -> Nat]
  BY LengthsTyped
<1>2. \A w \in K \ {v} : a[w] = c[w]
  BY DEF SameOn, Lengths, Of
<1>3. a[v] = Of(A, B, v) /\ c[v] = Of(C, D, v)
  BY LengthsTyped
<1> HIDE DEF a, c
<1>4. SumFunctionOnSet(c, K) = SumFunctionOnSet(a, K) - a[v] + c[v]
  BY <1>1, <1>2, FiniteWorkers, SumUpdate
<1> QED
  BY <1>3, <1>4 DEF Total, a, c

\* The total without a worker.
LEMMA TotalWithout ==
    ASSUME NEW A \in Queues, NEW B \in Queues, NEW C \in Queues, NEW D \in Queues,
           NEW K \in SUBSET Workers, NEW v \in K,
           SameOn(A, B, C, D, K \ {v})
    PROVE  Total(C, D, K \ {v}) = Total(A, B, K) - Of(A, B, v)
<1> DEFINE a == Lengths(A, B)
           c == Lengths(C, D)
           rest == K \ {v}
<1>1. a \in [Workers -> Nat] /\ c \in [Workers -> Nat]
  BY LengthsTyped
<1>2. rest \in SUBSET Workers /\ \A w \in rest : a[w] = c[w]
  BY DEF SameOn, Lengths, Of
<1>3. a[v] = Of(A, B, v)
  BY LengthsTyped
<1> HIDE DEF a, c
<1>4. SumFunctionOnSet(c, rest) = SumFunctionOnSet(a, rest)
  BY <1>1, <1>2, FiniteWorkers, SumSame
<1>5. SumFunctionOnSet(a, K) = a[v] + SumFunctionOnSet(a, rest)
  BY <1>1, FiniteWorkers, SumRemove
<1>6. SumFunctionOnSet(a, rest) \in Nat /\ a[v] \in Nat
  BY <1>1, <1>2, FiniteWorkers, SumType
<1> HIDE DEF rest
<1>7. SumFunctionOnSet(c, rest) = SumFunctionOnSet(a, K) - a[v]
  BY <1>4, <1>5, <1>6
<1> QED
  BY <1>3, <1>7 DEF Total, a, c, rest

\* The total after workers with empty queues joined.
LEMMA TotalJoined ==
    ASSUME NEW A \in Queues, NEW B \in Queues, NEW C \in Queues, NEW D \in Queues,
           NEW K \in SUBSET Workers, NEW N \in SUBSET Workers,
           SameOn(A, B, C, D, K), EmptyOn(C, D, N)
    PROVE  Total(C, D, K \cup N) = Total(A, B, K)
<1> DEFINE a == Lengths(A, B)
           c == Lengths(C, D)
<1>1. a \in [Workers -> Nat] /\ c \in [Workers -> Nat]
  BY LengthsTyped
<1>2. \A w \in K : a[w] = c[w]
  BY DEF SameOn, Lengths, Of
<1>3. ASSUME NEW w \in N
      PROVE  c[w] = 0
  <2>1. c[w] = Len(C[w]) + Len(D[w])
    BY LengthsTyped DEF Of
  <2>2. Len(C[w]) = 0 /\ Len(D[w]) = 0
    BY DEF EmptyOn
  <2> QED
    BY <2>1, <2>2
<1> HIDE DEF a, c
<1>4. SumFunctionOnSet(c, K) = SumFunctionOnSet(a, K)
  BY <1>1, <1>2, FiniteWorkers, SumSame
<1>5. ZeroOn(c, N)
  BY <1>3 DEF ZeroOn
<1>6. SumFunctionOnSet(c, K \cup N) = SumFunctionOnSet(c, K)
  BY <1>1, <1>5, FiniteWorkers, SumZeros
<1> QED
  BY <1>4, <1>6 DEF Total, a, c

\* Entries is the total of the pool.
LEMMA EntriesTotal == Entries = Total(task_assignment, task_processing, keys)
  BY DEF Entries, Total, Lengths, Of, Allocated

\* The queues have their types, also after a hand-out.
LEMMA GivenQueues ==
    ASSUME PoolTypeOK, NEW w \in keys, NEW t, NEW processing \in Seq(Tasks),
           Given(w, t, processing)
    PROVE  /\ task_assignment \in Queues /\ task_processing \in Queues
           /\ task_assignment' \in Queues /\ task_processing' \in Queues
           /\ t \in Tasks /\ w \in Workers /\ keys \in SUBSET Workers
           /\ Len(task_processing'[w]) = Len(processing) + 1
           /\ \A v \in keys \ {w} : task_processing'[v] = task_processing[v]
<1>1. /\ task_assignment \in Queues /\ task_processing \in Queues
      /\ w \in Workers /\ keys \in SUBSET Workers
  BY DEF PoolTypeOK, Queues
<1>2. t \in Tasks /\ task_assignment' \in Queues
  BY DEF Given, Queues
<1>3. Append(processing, t) \in Seq(Tasks) /\ Len(Append(processing, t)) = Len(processing) + 1
  BY <1>2
<1> DEFINE longer == Append(processing, t)
<1>4. task_processing' = [task_processing EXCEPT ![w] = longer]
  BY DEF Given
<1> HIDE DEF longer
<1>5. longer \in Seq(Tasks)
  BY <1>3 DEF longer
<1>6. /\ task_processing' \in Queues
      /\ task_processing'[w] = longer
      /\ \A v \in keys \ {w} : task_processing'[v] = task_processing[v]
  BY <1>1, <1>4, <1>5 DEF Queues
<1>7. Len(task_processing'[w]) = Len(processing) + 1
  BY <1>3, <1>6 DEF longer
<1> QED
  BY <1>1, <1>2, <1>6, <1>7

\* A task from the worker's own queue only changes queues.
LEMMA GiveOwnTotal ==
    ASSUME PoolTypeOK, NEW w \in keys, NEW t, NEW processing \in Seq(Tasks),
           GiveOwn(w, t, processing)
    PROVE  Total(task_assignment', task_processing', keys)
             = Total(task_assignment, task_processing, keys)
                 - Len(task_processing[w]) + Len(processing)
<1>1. Given(w, t, processing)
  BY GiveOwnGives
<1>2. /\ task_assignment \in Queues /\ task_processing \in Queues
      /\ task_assignment' \in Queues /\ task_processing' \in Queues
      /\ w \in Workers /\ keys \in SUBSET Workers
      /\ Len(task_processing'[w]) = Len(processing) + 1
      /\ \A v \in keys \ {w} : task_processing'[v] = task_processing[v]
  BY <1>1, GivenQueues
<1>3. /\ task_assignment'[w] = Tail(task_assignment[w])
      /\ \A v \in keys \ {w} : task_assignment'[v] = task_assignment[v]
  BY <1>2 DEF GiveOwn, Queues
<1>4. Len(task_assignment'[w]) = Len(task_assignment[w]) - 1
  BY <1>2, <1>3 DEF GiveOwn, Queues
<1>5. Total(task_assignment', task_processing', keys)
        = Total(task_assignment, task_processing, keys)
            - Of(task_assignment, task_processing, w)
            + Of(task_assignment', task_processing', w)
  <2>1. SameOn(task_assignment, task_processing, task_assignment', task_processing', keys \ {w})
    BY <1>2, <1>3 DEF SameOn
  <2> QED
    BY <1>2, <2>1, TotalChanged
<1>6. /\ Total(task_assignment, task_processing, keys) \in Nat
      /\ Len(task_assignment[w]) \in Nat /\ Len(task_processing[w]) \in Nat
      /\ Len(processing) \in Nat
  <2>1. Total(task_assignment, task_processing, keys) \in Nat
    BY <1>2, TotalTyped
  <2> QED
    BY <1>2, <2>1, LengthsTyped
<1> DEFINE total == Total(task_assignment, task_processing, keys)
           a == Len(task_assignment[w])
           p == Len(task_processing[w])
           q == Len(processing)
<1>7. Total(task_assignment', task_processing', keys) = total - (a + p) + ((a - 1) + (q + 1))
  BY <1>2, <1>4, <1>5 DEF Of
<1>8. total \in Nat /\ a \in Nat /\ p \in Nat /\ q \in Nat
  BY <1>6
<1> HIDE DEF total, a, p, q
<1>9. total - (a + p) + ((a - 1) + (q + 1)) = total - p + q
  BY <1>8
<1>10. Total(task_assignment', task_processing', keys) = total - p + q
  BY <1>7, <1>9
<1> QED
  BY <1>10 DEF total, p, q

\* A stolen task is in both of the thief's queues afterwards.
LEMMA StealTotal ==
    ASSUME PoolTypeOK, NEW w \in keys, NEW t, NEW processing \in Seq(Tasks),
           StealTask(w, t, processing)
    PROVE  Total(task_assignment', task_processing', keys)
             = Total(task_assignment, task_processing, keys)
                 - Len(task_processing[w]) + Len(processing) + 1
<1>1. Given(w, t, processing)
  BY StealTaskGives
<1>2. /\ task_assignment \in Queues /\ task_processing \in Queues
      /\ task_assignment' \in Queues /\ task_processing' \in Queues
      /\ w \in Workers /\ keys \in SUBSET Workers /\ t \in Tasks
      /\ Len(task_processing'[w]) = Len(processing) + 1
      /\ \A v \in keys \ {w} : task_processing'[v] = task_processing[v]
  BY <1>1, GivenQueues
<1>3. PICK victim \in MostLoaded :
        /\ Len(task_assignment[victim]) >= 2
        /\ task_assignment' = [task_assignment EXCEPT ![victim] = Front(@), ![w] = Append(@, t)]
  BY DEF StealTask
<1>4. task_assignment[w] = <<>> /\ victim \in keys /\ victim # w
  BY <1>3 DEF StealTask, MostLoaded
<1> DEFINE front == Front(task_assignment[victim])
           between == [task_assignment EXCEPT ![victim] = front]
<1>5. front \in Seq(Tasks) /\ Len(front) = Len(task_assignment[victim]) - 1
  <2>1. task_assignment[victim] \in Seq(Tasks) /\ Len(task_assignment[victim]) >= 1
    BY <1>2, <1>3, <1>4 DEF Queues
  <2> QED
    BY <2>1 DEF Front
<1> HIDE DEF front
<1>6. /\ between \in Queues
      /\ between[victim] = front
      /\ \A v \in keys \ {victim} : between[v] = task_assignment[v]
  BY <1>2, <1>4, <1>5 DEF Queues
<1> HIDE DEF between
<1>7. Total(between, task_processing, keys)
        = Total(task_assignment, task_processing, keys)
            - Of(task_assignment, task_processing, victim)
            + Of(between, task_processing, victim)
  <2>1. SameOn(task_assignment, task_processing, between, task_processing, keys \ {victim})
    BY <1>6 DEF SameOn
  <2> QED
    BY <1>2, <1>4, <1>6, <2>1, TotalChanged
<1>8. /\ task_assignment'[w] = <<t>>
      /\ \A v \in keys \ {w} : task_assignment'[v] = between[v]
  <2>1. Append(task_assignment[w], t) = <<t>>
    BY <1>4
  <2> QED
    BY <1>2, <1>3, <1>4, <1>6, <2>1 DEF between, front, Queues
<1>9. Total(task_assignment', task_processing', keys)
        = Total(between, task_processing, keys)
            - Of(between, task_processing, w)
            + Of(task_assignment', task_processing', w)
  <2>1. SameOn(between, task_processing, task_assignment', task_processing', keys \ {w})
    BY <1>2, <1>8 DEF SameOn
  <2> QED
    BY <1>2, <1>6, <2>1, TotalChanged
<1>10. Len(between[w]) = 0 /\ Len(task_assignment'[w]) = 1
  BY <1>4, <1>6, <1>8
<1>11. /\ Total(task_assignment, task_processing, keys) \in Nat
       /\ Len(task_assignment[victim]) \in Nat /\ Len(task_processing[victim]) \in Nat
       /\ Len(task_processing[w]) \in Nat
       /\ Len(processing) \in Nat
  <2>1. Total(task_assignment, task_processing, keys) \in Nat
    BY <1>2, TotalTyped
  <2>2. victim \in Workers
    BY <1>2, <1>4
  <2> QED
    BY <1>2, <2>1, <2>2, LengthsTyped
<1> DEFINE total == Total(task_assignment, task_processing, keys)
           a == Len(task_assignment[victim])
           b == Len(task_processing[victim])
           p == Len(task_processing[w])
           q == Len(processing)
<1>12. Total(between, task_processing, keys) = total - (a + b) + ((a - 1) + b)
  BY <1>5, <1>6, <1>7 DEF Of
<1>13. /\ Of(between, task_processing, w) = 0 + p
       /\ Of(task_assignment', task_processing', w) = 1 + (q + 1)
  BY <1>2, <1>10 DEF Of
<1>14. total \in Nat /\ a \in Nat /\ b \in Nat /\ p \in Nat /\ q \in Nat
  BY <1>11
<1> HIDE DEF total, a, b, p, q
<1>15. Total(between, task_processing, keys) = total - 1
  BY <1>12, <1>14
<1>16. Total(task_assignment', task_processing', keys) = total - p + q + 1
  BY <1>9, <1>13, <1>14, <1>15
<1> QED
  BY <1>16 DEF total, p, q

\* Kinds of packets: only a task command counts as a steal.
LEMMA Kinds ==
    /\ \A t : TaskCommand(t).kind = "task" /\ TaskCommand(t) # Heartbeat(FALSE)
    /\ \A t : Done(t).kind # "task"
    /\ HandlerError.kind # "task"
    /\ Heartbeat(FALSE).no_hb_task = FALSE
  BY DEF TaskCommand, Done, HandlerError, Heartbeat, Packet

\* What Counted adds.
LEMMA CountedSteal ==
    ASSUME NEW w, NEW reply, stolen' = Counted(w, reply), stolen \in Nat
    PROVE  /\ reply.kind # "task" => stolen' = stolen
           /\ task_assignment[w] # <<>> => stolen' = stolen
           /\ reply.kind = "task" /\ task_assignment[w] = <<>> => stolen' = stolen + 1
  BY DEF Counted

\* What a step has to do for the law of the counter: change both sides by the
\* same amount.
LEMMA LawKept ==
    ASSUME CounterLaw, PoolTypeOK, TypeOK, NEW d \in Int, NEW s \in Int, NEW b \in Int,
           all_assigned_tasks' = all_assigned_tasks + (d + b - s),
           Total(task_assignment', task_processing', keys')
             = Total(task_assignment, task_processing, keys) + d,
           stolen' = stolen + s,
           taken_back' = taken_back + b
    PROVE  CounterLaw'
<1>1. Entries' = Total(task_assignment', task_processing', keys')
  BY DEF Entries, Total, Lengths, Of, Allocated
<1> DEFINE total == Total(task_assignment, task_processing, keys)
           after == Total(task_assignment', task_processing', keys')
<1>2. all_assigned_tasks = total + taken_back - stolen
  BY EntriesTotal DEF CounterLaw
<1>3. total \in Nat
  <2>1. task_assignment \in Queues /\ task_processing \in Queues /\ keys \in SUBSET Workers
    BY DEF PoolTypeOK, Queues
  <2> QED
    BY <2>1, TotalTyped
<1>4. taken_back \in Nat /\ stolen \in Nat /\ all_assigned_tasks \in Int
  BY DEF TypeOK, PoolTypeOK
<1>5. after = total + d
  OBVIOUS
<1>6. Entries' = after
  BY <1>1
<1> HIDE DEF total, after
<1>7. all_assigned_tasks' = after + taken_back' - stolen'
  BY <1>2, <1>3, <1>4, <1>5
<1> QED
  BY <1>6, <1>7 DEF CounterLaw

\* A worker that asks for a task.
LEMMA AskCounter ==
    ASSUME CounterLaw, PoolTypeOK, TypeOK, NEW w \in Workers, AskForTask(w)
    PROVE  CounterLaw'
<1>1. PICK t \in Tasks : /\ ProcessHeartbeat(w, Heartbeat(FALSE), TaskCommand(t))
                        /\ stolen' = Counted(w, TaskCommand(t))
  BY DEF AskForTask
<1>2. /\ w \in keys
      /\ \E u \in Tasks : \/ GiveOwn(w, u, task_processing[w])
                          \/ StealTask(w, u, task_processing[w])
  BY <1>1, Kinds DEF ProcessHeartbeat
<1>3. keys' = keys /\ all_assigned_tasks' = all_assigned_tasks /\ taken_back' = taken_back
  BY <1>1 DEF ProcessHeartbeat, AskForTask
<1>4. /\ task_processing[w] \in Seq(Tasks) /\ Len(task_processing[w]) \in Nat
      /\ stolen \in Nat /\ taken_back \in Nat /\ all_assigned_tasks \in Int
  BY DEF PoolTypeOK, TypeOK
<1> DEFINE total == Total(task_assignment, task_processing, keys)
           after == Total(task_assignment', task_processing', keys')
           p == Len(task_processing[w])
<1>5. total \in Nat
  <2>1. task_assignment \in Queues /\ task_processing \in Queues /\ keys \in SUBSET Workers
    BY DEF PoolTypeOK, Queues
  <2> QED
    BY <2>1, TotalTyped
<1>6. CASE \E u \in Tasks : GiveOwn(w, u, task_processing[w])
  <2>1. PICK u \in Tasks : GiveOwn(w, u, task_processing[w])
    BY <1>6
  <2>2. Total(task_assignment', task_processing', keys) = total - p + p
    BY <1>2, <1>4, <2>1, GiveOwnTotal
  <2>3. stolen' = stolen
    BY <1>1, <1>4, <2>1, CountedSteal DEF GiveOwn
  <2>4. after = total - p + p
    BY <1>3, <2>2
  <2>5. p \in Nat
    BY <1>4
  <2> HIDE DEF total, after, p
  <2>6. /\ after = total + 0
        /\ all_assigned_tasks' = all_assigned_tasks + (0 + 0 - 0)
        /\ stolen' = stolen + 0 /\ taken_back' = taken_back + 0
    BY <1>3, <1>4, <1>5, <2>3, <2>4, <2>5
  <2> QED
    BY <2>6, LawKept DEF total, after
<1>7. CASE \E u \in Tasks : StealTask(w, u, task_processing[w])
  <2>1. PICK u \in Tasks : StealTask(w, u, task_processing[w])
    BY <1>7
  <2>2. Total(task_assignment', task_processing', keys) = total - p + p + 1
    BY <1>2, <1>4, <2>1, StealTotal
  <2>3. stolen' = stolen + 1
    BY <1>1, <1>4, <2>1, CountedSteal, Kinds DEF StealTask
  <2>4. after = total - p + p + 1
    BY <1>3, <2>2
  <2>5. p \in Nat
    BY <1>4
  <2> HIDE DEF total, after, p
  <2>6. /\ after = total + 1
        /\ all_assigned_tasks' = all_assigned_tasks + (1 + 0 - 1)
        /\ stolen' = stolen + 1 /\ taken_back' = taken_back + 0
    BY <1>3, <1>4, <1>5, <2>3, <2>4, <2>5
  <2> QED
    BY <2>6, LawKept DEF total, after
<1> QED
  BY <1>2, <1>6, <1>7

\* The report of a task is popped, and no other task is handed out.
LEMMA RestTotal ==
    ASSUME PoolTypeOK, NEW w \in keys, task_processing[w] # <<>>,
           task_processing' = [task_processing EXCEPT ![w] = Rest(w)],
           task_assignment' = task_assignment
    PROVE  Total(task_assignment', task_processing', keys)
             = Total(task_assignment, task_processing, keys) - 1
<1>1. /\ task_assignment \in Queues /\ task_processing \in Queues
      /\ w \in Workers /\ keys \in SUBSET Workers
  BY DEF PoolTypeOK, Queues
<1> DEFINE rest == Tail(task_processing[w])
<1>2. /\ rest \in Seq(Tasks) /\ Len(rest) = Len(task_processing[w]) - 1
      /\ Len(task_processing[w]) \in Nat /\ Len(task_assignment[w]) \in Nat
  <2>1. task_processing[w] \in Seq(Tasks) /\ task_assignment[w] \in Seq(Tasks)
    BY <1>1 DEF Queues
  <2> QED
    BY <2>1
<1>3. task_processing' = [task_processing EXCEPT ![w] = rest]
  BY DEF Rest
<1> HIDE DEF rest
<1>4. /\ task_processing' \in Queues /\ task_processing'[w] = rest
      /\ \A v \in keys \ {w} : task_processing'[v] = task_processing[v]
  BY <1>1, <1>2, <1>3 DEF Queues
<1>5. SameOn(task_assignment, task_processing, task_assignment', task_processing', keys \ {w})
  BY <1>4 DEF SameOn
<1>6. task_assignment' \in Queues
  BY <1>1
<1>7. Total(task_assignment', task_processing', keys)
        = Total(task_assignment, task_processing, keys)
            - Of(task_assignment, task_processing, w)
            + Of(task_assignment', task_processing', w)
  BY <1>1, <1>4, <1>5, <1>6, TotalChanged
<1> DEFINE total == Total(task_assignment, task_processing, keys)
           a == Len(task_assignment[w])
           p == Len(task_processing[w])
<1>8. /\ Of(task_assignment, task_processing, w) = a + p
      /\ Of(task_assignment', task_processing', w) = a + (p - 1)
  BY <1>2, <1>4 DEF Of
<1>9. total \in Nat /\ a \in Nat /\ p \in Nat
  BY <1>1, <1>2, TotalTyped
<1> HIDE DEF total, a, p
<1>10. Total(task_assignment', task_processing', keys) = total - 1
  BY <1>7, <1>8, <1>9 DEF total
<1> QED
  BY <1>10 DEF total

\* A worker that reports a task done.
LEMMA DoneCounter ==
    ASSUME CounterLaw, PoolTypeOK, KeysAgree, TypeOK, NEW w \in Workers, ReportDone(w)
    PROVE  CounterLaw'
<1> DEFINE command == Done(Head(task_processing[w]))
<1>1. PICK reply \in Answers : /\ ProcessDone(w, command, reply)
                              /\ stolen' = Counted(w, reply)
  BY DEF ReportDone
<1>2. command.kind # "task"
  BY Kinds
<1> HIDE DEF command
<1>3. keys' = keys /\ taken_back' = taken_back /\ task_processing[w] # <<>>
  BY <1>1 DEF ProcessDone, ReportDone
<1> DEFINE total == Total(task_assignment, task_processing, keys)
           after == Total(task_assignment', task_processing', keys')
           p == Len(task_processing[w])
<1>4. /\ task_processing[w] \in Seq(Tasks)
      /\ stolen \in Nat /\ taken_back \in Nat /\ all_assigned_tasks \in Int
  BY DEF PoolTypeOK, TypeOK
<1>5. p \in Nat /\ Rest(w) \in Seq(Tasks) /\ Len(Rest(w)) = p - 1
  BY <1>3, <1>4 DEF Rest
<1>6. total \in Nat
  <2>1. task_assignment \in Queues /\ task_processing \in Queues /\ keys \in SUBSET Workers
    BY DEF PoolTypeOK, Queues
  <2> QED
    BY <2>1, TotalTyped
<1>7. CASE /\ reply = command
           /\ UNCHANGED <<task_assignment, task_processing, all_assigned_tasks, retired>>
  <2>1. stolen' = stolen
    BY <1>1, <1>2, <1>4, <1>7, CountedSteal
  <2>2. after = total
    BY <1>3, <1>7
  <2> HIDE DEF total, after
  <2>3. /\ after = total + 0
        /\ all_assigned_tasks' = all_assigned_tasks + (0 + 0 - 0)
        /\ stolen' = stolen + 0 /\ taken_back' = taken_back + 0
    BY <1>3, <1>4, <1>6, <1>7, <2>1, <2>2
  <2> QED
    BY <2>3, LawKept DEF total, after
<1>8. CASE /\ w \in workers
           /\ all_assigned_tasks' = all_assigned_tasks - 1
           /\ reply = HandlerError \/ reply = command
           /\ task_processing' = [task_processing EXCEPT ![w] = Rest(w)]
           /\ UNCHANGED task_assignment
  <2>1. w \in keys
    BY <1>1, <1>8, IdleKeys DEF ProcessDone
  <2>2. stolen' = stolen
    BY <1>1, <1>2, <1>4, <1>8, CountedSteal, Kinds
  <2>3. Total(task_assignment', task_processing', keys) = total - 1
    BY <1>3, <1>8, <2>1, RestTotal
  <2>4. after = total - 1
    BY <1>3, <2>3
  <2> HIDE DEF total, after
  <2>5. /\ after = total + (-1)
        /\ all_assigned_tasks' = all_assigned_tasks + ((-1) + 0 - 0)
        /\ stolen' = stolen + 0 /\ taken_back' = taken_back + 0
    BY <1>3, <1>4, <1>6, <1>8, <2>2, <2>4
  <2>6. -1 \in Int
    OBVIOUS
  <2> QED
    BY <2>5, <2>6, LawKept DEF total, after
<1>9. CASE /\ w \in workers
           /\ all_assigned_tasks' = all_assigned_tasks - 1
           /\ \E u \in Tasks : GiveOwn(w, u, Rest(w))
  <2>1. w \in keys
    BY <1>1, <1>9, IdleKeys DEF ProcessDone
  <2>2. PICK u \in Tasks : GiveOwn(w, u, Rest(w))
    BY <1>9
  <2>3. stolen' = stolen
    BY <1>1, <1>4, <2>2, CountedSteal DEF GiveOwn
  <2>4. Total(task_assignment', task_processing', keys) = total - p + Len(Rest(w))
    BY <1>5, <2>1, <2>2, GiveOwnTotal
  <2>5. after = total - p + (p - 1)
    BY <1>3, <1>5, <2>4
  <2> HIDE DEF total, after, p
  <2>6. /\ after = total + (-1)
        /\ all_assigned_tasks' = all_assigned_tasks + ((-1) + 0 - 0)
        /\ stolen' = stolen + 0 /\ taken_back' = taken_back + 0
    BY <1>3, <1>4, <1>5, <1>6, <1>9, <2>3, <2>5
  <2>7. -1 \in Int
    OBVIOUS
  <2> QED
    BY <2>6, <2>7, LawKept DEF total, after
<1>10. CASE /\ w \in workers
            /\ all_assigned_tasks' = all_assigned_tasks - 1
            /\ \E u \in Tasks : StealTask(w, u, Rest(w)) /\ reply = TaskCommand(u)
  <2>1. w \in keys
    BY <1>1, <1>10, IdleKeys DEF ProcessDone
  <2>2. PICK u \in Tasks : StealTask(w, u, Rest(w)) /\ reply = TaskCommand(u)
    BY <1>10
  <2>3. stolen' = stolen + 1
    BY <1>1, <1>4, <2>2, CountedSteal, Kinds DEF StealTask
  <2>4. Total(task_assignment', task_processing', keys) = total - p + Len(Rest(w)) + 1
    BY <1>5, <2>1, <2>2, StealTotal
  <2>5. after = total - p + (p - 1) + 1
    BY <1>3, <1>5, <2>4
  <2> HIDE DEF total, after, p
  <2>6. /\ after = total + 0
        /\ all_assigned_tasks' = all_assigned_tasks + (0 + 0 - 1)
        /\ stolen' = stolen + 1 /\ taken_back' = taken_back + 0
    BY <1>3, <1>4, <1>5, <1>6, <1>10, <2>3, <2>5
  <2> QED
    BY <2>6, LawKept DEF total, after
<1> QED
  BY <1>1, <1>3, <1>7, <1>8, <1>9, <1>10 DEF ProcessDone

\* A task is assigned to a worker: one entry more.
LEMMA AssignCounter ==
    ASSUME CounterLaw, PoolTypeOK, TypeOK, AssignTask, UNCHANGED <<stolen, taken_back>>
    PROVE  CounterLaw'
<1>1. /\ task_assignment \in Queues /\ task_processing \in Queues /\ keys \in SUBSET Workers
  BY DEF PoolTypeOK, Queues
<1>2. PICK w \in LeastLoaded :
        task_assignment' = [task_assignment EXCEPT ![w] = Append(@, Head(tasks))]
  BY DEF AssignTask
<1>3. w \in keys /\ w \in Workers /\ keys' = keys /\ task_processing' = task_processing
  BY <1>1 DEF LeastLoaded, AssignTask
<1> DEFINE longer == Append(task_assignment[w], Head(tasks))
<1>4. /\ longer \in Seq(Tasks) /\ Len(longer) = Len(task_assignment[w]) + 1
      /\ Len(task_processing[w]) \in Nat /\ Len(task_assignment[w]) \in Nat
  <2>1. Head(tasks) \in Tasks
    BY DEF AssignTask, PoolTypeOK
  <2>2. task_processing[w] \in Seq(Tasks) /\ task_assignment[w] \in Seq(Tasks)
    BY <1>1, <1>3 DEF Queues
  <2> QED
    BY <2>1, <2>2
<1>5. task_assignment' = [task_assignment EXCEPT ![w] = longer]
  BY <1>2
<1> HIDE DEF longer
<1>6. /\ task_assignment' \in Queues /\ task_assignment'[w] = longer
      /\ \A v \in keys \ {w} : task_assignment'[v] = task_assignment[v]
  BY <1>1, <1>3, <1>4, <1>5 DEF Queues
<1>7. SameOn(task_assignment, task_processing, task_assignment', task_processing', keys \ {w})
  BY <1>3, <1>6 DEF SameOn
<1>8. task_processing' \in Queues
  BY <1>1, <1>3
<1>9. Total(task_assignment', task_processing', keys)
        = Total(task_assignment, task_processing, keys)
            - Of(task_assignment, task_processing, w)
            + Of(task_assignment', task_processing', w)
  BY <1>1, <1>3, <1>6, <1>7, <1>8, TotalChanged
<1> DEFINE total == Total(task_assignment, task_processing, keys)
           after == Total(task_assignment', task_processing', keys')
           a == Len(task_assignment[w])
           p == Len(task_processing[w])
<1>10. /\ Of(task_assignment, task_processing, w) = a + p
       /\ Of(task_assignment', task_processing', w) = (a + 1) + p
  BY <1>3, <1>4, <1>6 DEF Of
<1>11. after = total - (a + p) + ((a + 1) + p)
  BY <1>3, <1>9, <1>10
<1>12. total \in Nat /\ a \in Nat /\ p \in Nat
  BY <1>1, <1>4, TotalTyped
<1>13. /\ all_assigned_tasks' = all_assigned_tasks + 1 /\ all_assigned_tasks \in Int
       /\ stolen \in Nat /\ taken_back \in Nat
  BY DEF AssignTask, PoolTypeOK, TypeOK
<1> HIDE DEF total, after, a, p
<1>14. /\ after = total + 1
       /\ all_assigned_tasks' = all_assigned_tasks + (1 + 0 - 0)
       /\ stolen' = stolen + 0 /\ taken_back' = taken_back + 0
  BY <1>11, <1>12, <1>13
<1> QED
  BY <1>14, LawKept DEF total, after

\* The tasks of a worker that left go back: its waiting tasks are no longer
\* counted, the ones it had been handed still are.
LEMMA TakeBackCounter ==
    ASSUME CounterLaw, PoolTypeOK, KeysAgree, TypeOK, NEW w \in Workers, TakeBack(w)
    PROVE  CounterLaw'
<1>1. /\ task_assignment \in Queues /\ task_processing \in Queues /\ keys \in SUBSET Workers
  BY DEF PoolTypeOK, Queues
<1>2. /\ w \in keys
      /\ keys' = keys \ {w}
      /\ task_assignment' = [task_assignment EXCEPT ![w] = <<>>]
      /\ task_processing' = [task_processing EXCEPT ![w] = <<>>]
      /\ all_assigned_tasks' = all_assigned_tasks - Len(task_assignment[w])
      /\ taken_back' = taken_back + Len(task_processing[w])
      /\ stolen' = stolen
  BY DEF TakeBack, RequeueStopped, Uncounted, KeysAgree
<1>3. /\ task_assignment' \in Queues /\ task_processing' \in Queues
      /\ \A v \in keys \ {w} : /\ task_assignment'[v] = task_assignment[v]
                               /\ task_processing'[v] = task_processing[v]
  BY <1>1, <1>2 DEF Queues
<1>4. SameOn(task_assignment, task_processing, task_assignment', task_processing', keys \ {w})
  BY <1>3 DEF SameOn
<1> DEFINE total == Total(task_assignment, task_processing, keys)
           after == Total(task_assignment', task_processing', keys')
           a == Len(task_assignment[w])
           p == Len(task_processing[w])
<1>5. Total(task_assignment', task_processing', keys \ {w})
        = total - Of(task_assignment, task_processing, w)
  BY <1>1, <1>2, <1>3, <1>4, TotalWithout
<1>6. after = total - (a + p)
  BY <1>2, <1>5 DEF Of
<1>7. total \in Nat
  BY <1>1, TotalTyped
<1>8. a \in Nat /\ p \in Nat
  BY <1>1, LengthsTyped
<1>9. all_assigned_tasks \in Int /\ stolen \in Nat /\ taken_back \in Nat
  BY DEF PoolTypeOK, TypeOK
<1>10. /\ all_assigned_tasks' = all_assigned_tasks - a
       /\ taken_back' = taken_back + p /\ stolen' = stolen
  BY <1>2
<1> HIDE DEF total, after, a, p
<1>11. /\ after = total + (0 - (a + p)) /\ 0 - (a + p) \in Int
       /\ all_assigned_tasks' = all_assigned_tasks + ((0 - (a + p)) + p - 0)
       /\ stolen' = stolen + 0 /\ taken_back' = taken_back + p
  BY <1>6, <1>7, <1>8, <1>9, <1>10
<1> DEFINE d == 0 - (a + p)
<1>12. /\ after = total + d /\ d \in Int /\ p \in Int
       /\ all_assigned_tasks' = all_assigned_tasks + (d + p - 0)
       /\ stolen' = stolen + 0 /\ taken_back' = taken_back + p
  BY <1>8, <1>11
<1> HIDE DEF d
<1> QED
  BY <1>12, LawKept DEF total, after

\* Workers that join bring empty queues.
LEMMA RegisterCounter ==
    ASSUME CounterLaw, PoolTypeOK, KeysAgree, TypeOK, RegisterNewWorkers,
           UNCHANGED <<stolen, taken_back>>
    PROVE  CounterLaw'
<1>1. /\ task_assignment \in Queues /\ task_processing \in Queues
      /\ keys \in SUBSET Workers /\ new_workers \in SUBSET Workers
  BY DEF PoolTypeOK, Queues
<1>2. keys \cap new_workers = {}
  BY DEF KeysAgree
<1>3. /\ task_assignment' \in Queues /\ task_processing' \in Queues
      /\ \A w \in new_workers : task_assignment'[w] = <<>> /\ task_processing'[w] = <<>>
      /\ \A w \in keys : /\ task_assignment'[w] = task_assignment[w]
                         /\ task_processing'[w] = task_processing[w]
  <2>1. <<>> \in Seq(Tasks)
    OBVIOUS
  <2> QED
    BY <1>1, <1>2, <2>1 DEF RegisterNewWorkers, Queues
<1>4. /\ SameOn(task_assignment, task_processing, task_assignment', task_processing', keys)
      /\ EmptyOn(task_assignment', task_processing', new_workers)
  BY <1>3 DEF SameOn, EmptyOn
<1> DEFINE total == Total(task_assignment, task_processing, keys)
           after == Total(task_assignment', task_processing', keys')
<1>5. Total(task_assignment', task_processing', keys \cup new_workers) = total
  BY <1>1, <1>3, <1>4, TotalJoined
<1>6. after = total
  BY <1>5 DEF RegisterNewWorkers
<1>7. total \in Nat
  BY <1>1, TotalTyped
<1>8. all_assigned_tasks \in Int /\ stolen \in Nat /\ taken_back \in Nat
  BY DEF PoolTypeOK, TypeOK
<1>9. all_assigned_tasks' = all_assigned_tasks
  BY DEF RegisterNewWorkers
<1> HIDE DEF total, after
<1>10. /\ after = total + 0
       /\ all_assigned_tasks' = all_assigned_tasks + (0 + 0 - 0)
       /\ stolen' = stolen + 0 /\ taken_back' = taken_back + 0
  BY <1>6, <1>7, <1>8, <1>9
<1> QED
  BY <1>10, LawKept DEF total, after

\* Every step keeps the law of the counter.
LEMMA CounterStep ==
    ASSUME CounterLaw, PoolTypeOK, KeysAgree, TypeOK, [Next]_vars
    PROVE  CounterLaw'
<1>1. ASSUME UNCHANGED <<all_assigned_tasks, keys, task_assignment, task_processing,
                         stolen, taken_back>>
      PROVE  CounterLaw'
  BY <1>1 DEF CounterLaw, Entries, Allocated
<1>2. CASE GenerateHeartbeat
  BY <1>1, <1>2 DEF GenerateHeartbeat, RunTaskPool, historyVars
<1>3. CASE RecordHeartbeat
  BY <1>1, <1>3 DEF RecordHeartbeat, poolVars
<1>4. CASE ReceiveAnswer
  BY <1>1, <1>4 DEF ReceiveAnswer, WorkerChange, historyVars
<1>5. CASE PoolStep
  <2>1. UNCHANGED <<stolen, taken_back>>
    BY <1>5 DEF PoolStep, historyVars
  <2>2. CASE CreateTasks
    BY <1>1, <2>1, <2>2 DEF CreateTasks
  <2>3. CASE AssignTask
    BY <2>1, <2>3, AssignCounter
  <2>4. CASE EndAssign
    BY <1>1, <2>1, <2>4 DEF EndAssign
  <2>5. CASE RegisterNewWorkers
    BY <2>1, <2>5, RegisterCounter
  <2> QED
    BY <1>5, <2>2, <2>3, <2>4, <2>5 DEF PoolStep
<1>6. ASSUME NEW w \in Workers,
             StartWorker(w) \/ KillWorker(w) \/ WorkerUp(w) \/ StopRecorded(w)
      PROVE  CounterLaw'
  BY <1>1, <1>6 DEF StartWorker, KillWorker, WorkerUp, StopRecorded, poolVars, historyVars
<1>7. ASSUME NEW w \in Workers, TakeBack(w) \/ AskForTask(w) \/ ReportDone(w)
      PROVE  CounterLaw'
  BY <1>7, TakeBackCounter, AskCounter, DoneCounter
<1>8. CASE UNCHANGED vars
  BY <1>1, <1>8 DEF vars, poolVars, historyVars
<1> QED
  BY <1>2, <1>3, <1>4, <1>5, <1>6, <1>7, <1>8 DEF Next

-----------------------------------------------------------------------------
(***************************************************************************)
(* The theorems. The invariant is the pool's own, the types and the law of *)
(* the counter: the law needs KeysAgree, because a worker that left must   *)
(* still have its queues when they are taken back, and one that joins must *)
(* not have any.                                                           *)
(***************************************************************************)
ScalerInv == PoolInv /\ TypeOK /\ CounterLaw

\* A fresh system satisfies the invariant.
LEMMA ScalerInvInit == Init => ScalerInv
<1> SUFFICES ASSUME Init PROVE ScalerInv
  OBVIOUS
<1>1. PoolInv
  BY PoolInvInit DEF Init
<1>2. TypeOK
  BY ScalerTypeInit
<1>3. CounterLaw
  <2>1. task_assignment \in Queues /\ task_processing \in Queues /\ keys \in SUBSET Workers
    BY <1>1 DEF PoolInv, PoolTypeOK, Queues
  <2>2. Total(task_assignment, task_processing, {}) = 0
    BY <2>1, TotalTyped
  <2>3. Entries = 0
    BY <2>2, EntriesTotal DEF Init, PoolInit
  <2> QED
    BY <2>3 DEF Init, PoolInit, CounterLaw
<1> QED
  BY <1>1, <1>2, <1>3 DEF ScalerInv

\* Every step of the control loop keeps it.
LEMMA ScalerInvStep == ScalerInv /\ [Next]_vars => ScalerInv' /\ [PoolNext]_poolVars
<1> SUFFICES ASSUME ScalerInv, [Next]_vars
             PROVE  ScalerInv' /\ [PoolNext]_poolVars
  OBVIOUS
<1>1. PoolTypeOK /\ KeysAgree /\ TypeOK /\ CounterLaw /\ PoolInv
  BY DEF ScalerInv, PoolInv
<1>2. [PoolNext]_poolVars
  BY <1>1, PoolOrNot
<1>3. PoolInv'
  BY <1>1, <1>2, PoolInvStep
<1>4. TypeOK' /\ CounterLaw'
  BY <1>1, ScalerTypeStep, CounterStep
<1> QED
  BY <1>2, <1>3, <1>4 DEF ScalerInv

\* The invariant holds whenever the load balancer starts and stops workers.
THEOREM ScalerInvariant == Spec => []ScalerInv
  BY ScalerInvInit, ScalerInvStep, PTL DEF Spec

\* The control loop implements the task pool: the load balancer, the machines
\* and the reduced workers are an environment that TaskPool allows, so all that
\* is proved of TaskPool holds here.
THEOREM ScalerImplementsPool == Spec => PoolSpec
<1>1. Init => PoolInit
  BY DEF Init
<1> QED
  BY <1>1, ScalerInvariant, ScalerInvStep, PTL DEF Spec, PoolSpec

\* Types: the window of the load balancer never exceeds WINDOW_SIZE and never
\* holds a load per zero workers, and the heartbeats are well formed.
THEOREM ScalerTypeCorrect == Spec => []TypeOK
<1>1. ScalerInv => TypeOK
  BY DEF ScalerInv
<1> QED
  BY <1>1, ScalerInvariant, PTL

\* all_assigned_tasks counts the queue entries, off by exactly the tasks that
\* were stolen or taken back from a worker that had been handed them.
THEOREM ScalerCounterLaw == Spec => []CounterLaw
<1>1. ScalerInv => CounterLaw
  BY DEF ScalerInv
<1> QED
  BY <1>1, ScalerInvariant, PTL
=============================================================================
