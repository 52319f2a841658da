--------------------------- MODULE TaskPoolProofs ---------------------------
(***************************************************************************)
(* Proofs about TaskPool, for any number of workers and any scenario, and  *)
(* for an environment (workers, Instance Manager) that may do anything.    *)
(***************************************************************************)
EXTENDS TaskPool, SequenceTheorems, TLAPS

-----------------------------------------------------------------------------
(***************************************************************************)
(* The elements of a sequence under the deque operations of the pool.      *)
(***************************************************************************)
\* append() adds its argument to the elements of a deque.
LEMMA RangeAppend ==
    ASSUME NEW S, NEW s \in Seq(S), NEW x \in S
    PROVE  Range(Append(s, x)) = Range(s) \cup {x}
<1> DEFINE a == Append(s, x)
<1>1. /\ DOMAIN s = 1 .. Len(s) /\ Len(s) \in Nat
      /\ DOMAIN a = 1 .. Len(s) + 1
  OBVIOUS
<1>2. \A i \in DOMAIN s : i \in DOMAIN a /\ a[i] = s[i]
  BY <1>1
<1>3. Len(s) + 1 \in DOMAIN a /\ a[Len(s) + 1] = x
  BY <1>1
<1>4. \A i \in DOMAIN a : i \in DOMAIN s \/ a[i] = x
  BY <1>1
<1> HIDE DEF a
<1>5. Range(a) = Range(s) \cup {x}
  BY <1>2, <1>3, <1>4 DEF Range
<1> QED
  BY <1>5 DEF a

\* Extending a deque with another one unites their elements.
LEMMA RangeConcat ==
    ASSUME NEW S, NEW s \in Seq(S), NEW t \in Seq(S)
    PROVE  Range(s \o t) = Range(s) \cup Range(t)
<1> DEFINE c == s \o t
<1>1. /\ DOMAIN s = 1 .. Len(s) /\ Len(s) \in Nat
      /\ DOMAIN t = 1 .. Len(t) /\ Len(t) \in Nat
      /\ DOMAIN c = 1 .. Len(s) + Len(t)
  OBVIOUS
<1>2. \A i \in DOMAIN s : i \in DOMAIN c /\ c[i] = s[i]
  BY <1>1
<1>3. \A i \in DOMAIN t : Len(s) + i \in DOMAIN c /\ c[Len(s) + i] = t[i]
  BY <1>1
<1>4. \A i \in DOMAIN c :
        i \in DOMAIN s \/ (i - Len(s) \in DOMAIN t /\ c[i] = t[i - Len(s)])
  BY <1>1
<1> HIDE DEF c
<1>5. Range(c) = Range(s) \cup Range(t)
  BY <1>2, <1>3, <1>4 DEF Range
<1> QED
  BY <1>5 DEF c

\* popleft() removes at most the element it returns.
LEMMA RangeHeadTail ==
    ASSUME NEW S, NEW s \in Seq(S), s # <<>>
    PROVE  /\ Head(s) \in S
           /\ Tail(s) \in Seq(S)
           /\ Range(s) = {Head(s)} \cup Range(Tail(s))
<1> DEFINE r == Tail(s)
<1>1. /\ Head(s) = s[1] /\ Head(s) \in S
      /\ DOMAIN s = 1 .. Len(s) /\ Len(s) \in Nat /\ 1 \in DOMAIN s
  OBVIOUS
<1>2. /\ r \in Seq(S) /\ DOMAIN r = 1 .. Len(s) - 1
      /\ \A i \in 1 .. Len(s) - 1 : r[i] = s[i + 1]
  OBVIOUS
<1> HIDE DEF r
<1>3. \A i \in DOMAIN r : i + 1 \in DOMAIN s /\ r[i] = s[i + 1]
  BY <1>1, <1>2
<1>4. \A i \in DOMAIN s : i = 1 \/ (i - 1 \in DOMAIN r /\ s[i] = r[i - 1])
  BY <1>1, <1>2
<1>5. Range(s) = {Head(s)} \cup Range(r)
  BY <1>1, <1>3, <1>4 DEF Range
<1> QED
  BY <1>1, <1>2, <1>5 DEF r

\* pop() removes at most the element it returns.
LEMMA RangeFrontLast ==
    ASSUME NEW S, NEW s \in Seq(S), Len(s) >= 1
    PROVE  /\ Last(s) \in S
           /\ Front(s) \in Seq(S)
           /\ Range(s) = Range(Front(s)) \cup {Last(s)}
<1> DEFINE f == Front(s)
<1>1. f = [i \in 1 .. Len(s) - 1 |-> s[i]]
  BY DEF Front
<1>2. f \in Seq(S) /\ DOMAIN f = 1 .. Len(s) - 1
  BY <1>1
<1>3. Last(s) = s[Len(s)] /\ Last(s) \in S
  BY DEF Last
<1>4. Range(s) = Range(f) \cup {Last(s)}
  BY <1>1, <1>2, <1>3 DEF Range
<1> QED
  BY <1>2, <1>3, <1>4

\* Cutting a sequence in two loses no element.
LEMMA RangeSplit ==
    ASSUME NEW S, NEW s \in Seq(S), NEW n \in 1 .. Len(s)
    PROVE  /\ SubSeq(s, 1, n) \in Seq(S)
           /\ SubSeq(s, n + 1, Len(s)) \in Seq(S)
           /\ Range(s) = Range(SubSeq(s, 1, n)) \cup Range(SubSeq(s, n + 1, Len(s)))
<1> DEFINE l == SubSeq(s, 1, n)
           r == SubSeq(s, n + 1, Len(s))
<1>1. /\ l \in Seq(S) /\ DOMAIN l = 1 .. n
      /\ \A i \in 1 .. n : l[i] = s[i]
  OBVIOUS
<1>2. /\ r \in Seq(S) /\ DOMAIN r = 1 .. Len(s) - n
      /\ \A i \in 1 .. Len(s) - n : r[i] = s[n + i]
  OBVIOUS
<1>3. DOMAIN s = 1 .. Len(s) /\ Len(s) \in Nat
  OBVIOUS
<1> HIDE DEF l, r
<1>4. \A i \in DOMAIN s :
        (i \in DOMAIN l /\ s[i] = l[i]) \/ (i - n \in DOMAIN r /\ s[i] = r[i - n])
  BY <1>1, <1>2, <1>3
<1>5. \A i \in DOMAIN r : n + i \in DOMAIN s /\ r[i] = s[n + i]
  BY <1>2, <1>3
<1>6. \A i \in DOMAIN l : i \in DOMAIN s /\ l[i] = s[i]
  BY <1>1, <1>3
<1>7. Range(s) = Range(l) \cup Range(r)
  BY <1>4, <1>5, <1>6 DEF Range
<1> QED
  BY <1>1, <1>2, <1>7 DEF l, r

-----------------------------------------------------------------------------
(***************************************************************************)
(* What handing out task t to worker w does, whether the task comes from   *)
(* the worker's own queue or is stolen: it was queued for some worker, no  *)
(* other task leaves a queue, and it ends up with the worker.              *)
(***************************************************************************)
Given(w, t, processing) ==
    /\ t \in Tasks
    /\ \E v \in keys : t \in Range(task_assignment[v])
    /\ task_assignment' \in [Workers -> Seq(Tasks)]
    /\ \A v \in Workers : Range(task_assignment[v]) \subseteq Range(task_assignment'[v]) \cup {t}
    /\ \A v \in Workers : Range(task_assignment'[v]) \subseteq Range(task_assignment[v]) \cup {t}
    /\ task_processing' = [task_processing EXCEPT ![w] = Append(processing, t)]

\* Popping the worker's own queue hands out one of its tasks.
LEMMA GiveOwnGives ==
    ASSUME PoolTypeOK, NEW w \in keys, NEW t, NEW processing, GiveOwn(w, t, processing)
    PROVE  Given(w, t, processing)
<1>1. w \in Workers /\ task_assignment[w] \in Seq(Tasks)
  BY DEF PoolTypeOK
<1>2. /\ t \in Tasks
      /\ Tail(task_assignment[w]) \in Seq(Tasks)
      /\ Range(task_assignment[w]) = {t} \cup Range(Tail(task_assignment[w]))
  BY <1>1, RangeHeadTail DEF GiveOwn
<1>3. task_assignment' = [task_assignment EXCEPT ![w] = Tail(task_assignment[w])]
  BY DEF GiveOwn
<1>4. task_assignment' \in [Workers -> Seq(Tasks)]
  BY <1>2, <1>3 DEF PoolTypeOK
<1>5. /\ task_assignment'[w] = Tail(task_assignment[w])
      /\ \A v \in Workers \ {w} : task_assignment'[v] = task_assignment[v]
  BY <1>1, <1>3 DEF PoolTypeOK
<1>6. \A v \in Workers :
        /\ Range(task_assignment[v]) \subseteq Range(task_assignment'[v]) \cup {t}
        /\ Range(task_assignment'[v]) \subseteq Range(task_assignment[v]) \cup {t}
  BY <1>2, <1>5
<1> QED
  BY <1>2, <1>4, <1>6 DEF Given, GiveOwn

\* steal_task moves one task between two different queues.
LEMMA StealTaskGives ==
    ASSUME PoolTypeOK, NEW w \in keys, NEW t, NEW processing, StealTask(w, t, processing)
    PROVE  Given(w, t, processing)
<1>1. w \in Workers /\ task_assignment[w] = <<>>
  BY DEF PoolTypeOK, StealTask
<1>2. PICK victim \in MostLoaded :
        /\ Len(task_assignment[victim]) >= 2
        /\ t = Last(task_assignment[victim])
        /\ task_assignment' = [task_assignment EXCEPT ![victim] = Front(@), ![w] = Append(@, t)]
  BY DEF StealTask
<1>3. victim \in keys /\ victim \in Workers /\ task_assignment[victim] \in Seq(Tasks)
  BY <1>2 DEF MostLoaded, PoolTypeOK
<1>4. victim # w
  BY <1>1, <1>2
<1>5. /\ t \in Tasks
      /\ Front(task_assignment[victim]) \in Seq(Tasks)
      /\ Range(task_assignment[victim]) = Range(Front(task_assignment[victim])) \cup {t}
  BY <1>2, <1>3, RangeFrontLast
<1>6. /\ Append(task_assignment[w], t) \in Seq(Tasks)
      /\ Range(Append(task_assignment[w], t)) = Range(task_assignment[w]) \cup {t}
  <2>1. task_assignment[w] \in Seq(Tasks)
    BY <1>1 DEF PoolTypeOK
  <2>2. Append(task_assignment[w], t) \in Seq(Tasks)
    BY <1>5, <2>1, AppendProperties
  <2> QED
    BY <1>5, <2>1, <2>2, RangeAppend
<1>7. /\ task_assignment'[victim] = Front(task_assignment[victim])
      /\ task_assignment'[w] = Append(task_assignment[w], t)
      /\ \A v \in Workers \ {victim, w} : task_assignment'[v] = task_assignment[v]
  BY <1>1, <1>2, <1>3, <1>4 DEF PoolTypeOK
<1>8. task_assignment' \in [Workers -> Seq(Tasks)]
  BY <1>2, <1>3, <1>4, <1>5, <1>6 DEF PoolTypeOK
<1>9. \A v \in Workers :
        /\ Range(task_assignment[v]) \subseteq Range(task_assignment'[v]) \cup {t}
        /\ Range(task_assignment'[v]) \subseteq Range(task_assignment[v]) \cup {t}
  BY <1>5, <1>6, <1>7
<1> QED
  BY <1>3, <1>5, <1>8, <1>9 DEF Given, StealTask

-----------------------------------------------------------------------------
\* When no loop holds the event loop, the workers the pool knows are the keys
\* of its dicts.
LEMMA IdleKeys == KeysAgree /\ step # "change" => keys = workers
  BY DEF KeysAgree

\* What a handler of a packet from worker w may do with the queues: nothing,
\* pop the oldest task handed to w, or give w a task.
QueueStep(w) ==
    \/ UNCHANGED <<task_assignment, task_processing, retired>>
    \/ /\ UNCHANGED retired
       /\ \E t \in Tasks : Given(w, t, task_processing[w])
    \/ /\ task_processing[w] # <<>>
       /\ retired' = retired \cup {Head(task_processing[w])}
       /\ \/ /\ UNCHANGED task_assignment
             /\ task_processing' = [task_processing EXCEPT ![w] = Rest(w)]
          \/ \E t \in Tasks : Given(w, t, Rest(w))

\* What process_heartbeat does to the queues is such a step.
LEMMA HeartbeatQueues ==
    ASSUME PoolTypeOK, NEW w \in Workers, NEW hb, NEW reply, ProcessHeartbeat(w, hb, reply)
    PROVE  (w \in keys \/ UNCHANGED <<task_assignment, task_processing, retired>>) /\ QueueStep(w)
<1>1. CASE UNCHANGED <<task_assignment, task_processing>>
  BY <1>1 DEF QueueStep, ProcessHeartbeat
<1>2. CASE /\ w \in keys
           /\ \E t \in Tasks : \/ GiveOwn(w, t, task_processing[w])
                              \/ StealTask(w, t, task_processing[w])
  BY <1>2, GiveOwnGives, StealTaskGives DEF QueueStep, ProcessHeartbeat
<1> QED
  BY <1>1, <1>2 DEF ProcessHeartbeat

\* What process_command does to the queues is such a step.
LEMMA DoneQueues ==
    ASSUME PoolTypeOK, KeysAgree, NEW w \in Workers, NEW command, NEW reply,
           ProcessDone(w, command, reply)
    PROVE  (w \in keys \/ UNCHANGED <<task_assignment, task_processing, retired>>) /\ QueueStep(w)
<1>1. CASE UNCHANGED <<task_assignment, task_processing, retired>>
  BY <1>1 DEF QueueStep
<1>2. CASE /\ w \in workers
           /\ task_processing[w] # <<>>
           /\ retired' = retired \cup {Head(task_processing[w])}
  <2>1. w \in keys
    BY <1>2, IdleKeys DEF ProcessDone
  <2>2. CASE /\ UNCHANGED task_assignment
             /\ task_processing' = [task_processing EXCEPT ![w] = Rest(w)]
    BY <1>2, <2>1, <2>2 DEF QueueStep
  <2>3. CASE \E u \in Tasks : GiveOwn(w, u, Rest(w)) \/ StealTask(w, u, Rest(w))
    BY <1>2, <2>1, <2>3, GiveOwnGives, StealTaskGives DEF QueueStep
  <2> QED
    BY <1>2, <2>1, <2>2, <2>3 DEF ProcessDone
<1> QED
  BY <1>1, <1>2 DEF ProcessDone

\* The types of the queues survive the handler of a packet.
LEMMA QueueStepType ==
    ASSUME PoolTypeOK, NEW w \in Workers, QueueStep(w)
    PROVE  /\ task_assignment' \in [Workers -> Seq(Tasks)]
           /\ task_processing' \in [Workers -> Seq(Tasks)]
           /\ retired' \in SUBSET Tasks
<1>1. task_processing[w] \in Seq(Tasks)
  BY DEF PoolTypeOK
<1>2. CASE UNCHANGED <<task_assignment, task_processing, retired>>
  BY <1>2 DEF PoolTypeOK
<1>3. ASSUME NEW t \in Tasks, NEW processing \in Seq(Tasks), Given(w, t, processing)
      PROVE  /\ task_assignment' \in [Workers -> Seq(Tasks)]
             /\ task_processing' \in [Workers -> Seq(Tasks)]
  <2>1. Append(processing, t) \in Seq(Tasks)
    BY <1>3, AppendProperties
  <2> QED
    BY <1>3, <2>1 DEF Given, PoolTypeOK
<1>4. CASE UNCHANGED retired /\ \E t \in Tasks : Given(w, t, task_processing[w])
  BY <1>1, <1>3, <1>4 DEF PoolTypeOK
<1>5. CASE /\ task_processing[w] # <<>>
           /\ retired' = retired \cup {Head(task_processing[w])}
           /\ \/ /\ UNCHANGED task_assignment
                 /\ task_processing' = [task_processing EXCEPT ![w] = Rest(w)]
              \/ \E t \in Tasks : Given(w, t, Rest(w))
  <2>1. Rest(w) \in Seq(Tasks) /\ Head(task_processing[w]) \in Tasks
    BY <1>1, <1>5, RangeHeadTail DEF Rest
  <2>2. retired' \in SUBSET Tasks
    BY <1>5, <2>1 DEF PoolTypeOK
  <2>3. CASE UNCHANGED task_assignment /\ task_processing' = [task_processing EXCEPT ![w] = Rest(w)]
    BY <2>1, <2>2, <2>3 DEF PoolTypeOK
  <2>4. CASE \E t \in Tasks : Given(w, t, Rest(w))
    BY <1>3, <2>1, <2>2, <2>4
  <2> QED
    BY <1>5, <2>3, <2>4
<1> QED
  BY <1>2, <1>4, <1>5 DEF QueueStep

\* Every step keeps the types.
LEMMA TypeStep ==
    ASSUME PoolTypeOK, KeysAgree, [PoolNext]_poolVars
    PROVE  PoolTypeOK'
<1>1. CASE CreateTasks
  <2>1. PICK n \in 1 .. Len(benchmark_tasks) :
          /\ \E stored \in SUBSET Range(Due(n)) : bucket' = bucket \cup stored
          /\ tasks' = tasks \o Due(n)
          /\ benchmark_tasks' = SubSeq(benchmark_tasks, n + 1, Len(benchmark_tasks))
    BY <1>1 DEF CreateTasks
  <2>2. benchmark_tasks \in Seq(Tasks) /\ tasks \in Seq(Tasks) /\ bucket \subseteq Tasks
    BY DEF PoolTypeOK
  <2>3. Due(n) \in Seq(Tasks) /\ benchmark_tasks' \in Seq(Tasks)
    BY <2>1, <2>2, RangeSplit DEF Due
  <2>4. Range(Due(n)) \subseteq Tasks
    BY <2>3 DEF Range
  <2>5. tasks' \in Seq(Tasks) /\ bucket' \subseteq Tasks
    BY <2>1, <2>2, <2>3, <2>4, ConcatProperties
  <2> QED
    BY <1>1, <2>3, <2>5 DEF CreateTasks, PoolTypeOK
<1>2. CASE RunTaskPool
  BY <1>2 DEF RunTaskPool, PoolTypeOK, Steps
<1>3. CASE AssignTask
  <2>1. tasks \in Seq(Tasks) /\ tasks # <<>>
    BY <1>3 DEF AssignTask, PoolTypeOK
  <2>2. Head(tasks) \in Tasks /\ Tail(tasks) \in Seq(Tasks)
    BY <2>1, RangeHeadTail
  <2>3. PICK w \in LeastLoaded :
          task_assignment' = [task_assignment EXCEPT ![w] = Append(@, Head(tasks))]
    BY <1>3 DEF AssignTask
  <2>4. w \in Workers /\ Append(task_assignment[w], Head(tasks)) \in Seq(Tasks)
    BY <2>2, AppendProperties DEF LeastLoaded, PoolTypeOK
  <2>5. task_assignment' \in [Workers -> Seq(Tasks)]
    BY <2>3, <2>4 DEF PoolTypeOK
  <2> QED
    BY <1>3, <2>2, <2>5 DEF AssignTask, Timed, PoolTypeOK
<1>4. CASE EndAssign
  BY <1>4 DEF EndAssign, PoolTypeOK, Steps
<1>5. ASSUME NEW current \in SUBSET Workers, WorkerChange(current)
      PROVE  PoolTypeOK'
  BY <1>5 DEF WorkerChange, NewWorkers, PoolTypeOK, Steps
<1>6. ASSUME NEW w \in Workers, RequeueStopped(w)
      PROVE  PoolTypeOK'
  <2>1. /\ task_assignment[w] \in Seq(Tasks)
        /\ task_processing[w] \in Seq(Tasks)
        /\ tasks \in Seq(Tasks)
    BY DEF PoolTypeOK
  <2>2. Requeued(w) \in Seq(Tasks) /\ Len(task_assignment[w]) \in Nat
    BY <2>1, ConcatProperties DEF Requeued
  <2> QED
    BY <1>6, <2>2, EmptySeq DEF RequeueStopped, Uncounted, PoolTypeOK
<1>7. CASE RegisterNewWorkers
  BY <1>7, EmptySeq DEF RegisterNewWorkers, PoolTypeOK, Steps
<1>8. ASSUME NEW w \in Workers, NEW hb, NEW reply, ProcessHeartbeat(w, hb, reply)
      PROVE  PoolTypeOK'
  <2>1. QueueStep(w)
    BY <1>8, HeartbeatQueues
  <2> QED
    BY <1>8, <2>1, QueueStepType DEF ProcessHeartbeat, PoolTypeOK
<1>9. ASSUME NEW w \in Workers, NEW command, NEW reply, ProcessDone(w, command, reply)
      PROVE  PoolTypeOK'
  <2>1. QueueStep(w)
    BY <1>9, DoneQueues
  <2>2. all_assigned_tasks' \in Int
    BY <1>9 DEF ProcessDone, PoolTypeOK
  <2> QED
    BY <1>9, <2>1, <2>2, QueueStepType DEF ProcessDone, PoolTypeOK
<1>10. CASE UNCHANGED poolVars
  BY <1>10 DEF poolVars, PoolTypeOK
<1> QED
  BY <1>1, <1>2, <1>3, <1>4, <1>5, <1>6, <1>7, <1>8, <1>9, <1>10 DEF PoolNext

\* Every step keeps the dicts and the lists of workers in agreement.
LEMMA KeysStep ==
    ASSUME PoolTypeOK, KeysAgree, [PoolNext]_poolVars
    PROVE  KeysAgree'
<1>1. CASE CreateTasks
  BY <1>1 DEF CreateTasks, KeysAgree
<1>2. CASE RunTaskPool
  BY <1>2 DEF RunTaskPool, KeysAgree
<1>3. CASE AssignTask
  BY <1>3 DEF AssignTask, KeysAgree
<1>4. CASE EndAssign
  BY <1>4 DEF EndAssign, KeysAgree
<1>5. ASSUME NEW current \in SUBSET Workers, WorkerChange(current)
      PROVE  KeysAgree'
  BY <1>5 DEF WorkerChange, NewWorkers, KeysAgree
<1>6. ASSUME NEW w \in Workers, RequeueStopped(w)
      PROVE  KeysAgree'
  BY <1>6 DEF RequeueStopped, KeysAgree
<1>7. CASE RegisterNewWorkers
  BY <1>7 DEF RegisterNewWorkers, KeysAgree
<1>8. ASSUME NEW w \in Workers, NEW hb, NEW reply, ProcessHeartbeat(w, hb, reply)
      PROVE  KeysAgree'
  BY <1>8 DEF ProcessHeartbeat, KeysAgree
<1>9. ASSUME NEW w \in Workers, NEW command, NEW reply, ProcessDone(w, command, reply)
      PROVE  KeysAgree'
  BY <1>9 DEF ProcessDone, KeysAgree
<1>10. CASE UNCHANGED poolVars
  BY <1>10 DEF poolVars, KeysAgree
<1> QED
  BY <1>1, <1>2, <1>3, <1>4, <1>5, <1>6, <1>7, <1>8, <1>9, <1>10 DEF PoolNext

-----------------------------------------------------------------------------
(***************************************************************************)
(* Giving and popping, seen from the sets of tasks that the workers hold.  *)
(***************************************************************************)
\* Giving task t to w, to which `processing` is what it holds apart from it,
\* makes no other task disappear and no unqueued task appear.
LEMMA GivenHeld ==
    ASSUME PoolTypeOK, NEW w \in keys, NEW t, NEW processing \in Seq(Tasks),
           Given(w, t, processing)
    PROVE  /\ t \in Range(task_processing'[w])
           /\ Range(task_processing'[w]) = Range(processing) \cup {t}
           /\ \A v \in Workers \ {w} : task_processing'[v] = task_processing[v]
<1>1. w \in Workers /\ t \in Tasks
  BY DEF PoolTypeOK, Given
<1>2. /\ task_processing'[w] = Append(processing, t)
      /\ \A v \in Workers \ {w} : task_processing'[v] = task_processing[v]
  BY <1>1 DEF Given, PoolTypeOK
<1>3. Range(Append(processing, t)) = Range(processing) \cup {t}
  BY <1>1, RangeAppend
<1> QED
  BY <1>2, <1>3

\* A task that is given to w was held by some worker and still is; of the other
\* tasks only those that left task_processing of w before may be gone.
LEMMA GivenKeeps ==
    ASSUME PoolTypeOK, NEW w \in keys, NEW t \in Tasks, NEW processing \in Seq(Tasks),
           Given(w, t, processing), NEW gone,
           Range(processing) \subseteq Range(task_processing[w]),
           Range(task_processing[w]) \subseteq Range(processing) \cup gone
    PROVE  /\ \A x : (\E v \in keys : x \in Held(v))
                  => x \in gone \/ \E v \in keys : x \in Held(v)'
           /\ \A x : (\E v \in keys : x \in Held(v)') => \E v \in keys : x \in Held(v)
<1>0. keys \subseteq Workers /\ w \in Workers
  BY DEF PoolTypeOK
<1>1. /\ t \in Range(task_processing'[w])
      /\ Range(task_processing'[w]) = Range(processing) \cup {t}
      /\ \A v \in Workers \ {w} : task_processing'[v] = task_processing[v]
  BY GivenHeld
<1>2. ASSUME NEW x, NEW v \in keys, x \in Held(v)
      PROVE  x \in gone \/ x \in Held(v)' \/ x \in Held(w)'
  <2>1. Range(task_assignment[v]) \subseteq Range(task_assignment'[v]) \cup {t}
    BY <1>0 DEF Given
  <2>2. Range(task_processing[v]) \subseteq Range(task_processing'[v]) \cup gone
    BY <1>0, <1>1
  <2> QED
    BY <1>1, <1>2, <2>1, <2>2 DEF Held
<1>3. PICK u \in keys : t \in Range(task_assignment[u])
  BY DEF Given
<1>4. ASSUME NEW x, NEW v \in keys, x \in Held(v)'
      PROVE  x \in Held(v) \/ x \in Held(u)
  <2>1. Range(task_assignment'[v]) \subseteq Range(task_assignment[v]) \cup {t}
    BY <1>0 DEF Given
  <2>2. Range(task_processing'[v]) \subseteq Range(task_processing[v]) \cup {t}
    BY <1>0, <1>1
  <2> QED
    BY <1>3, <1>4, <2>1, <2>2 DEF Held
<1> QED
  BY <1>2, <1>4

\* The handler of a packet keeps every task that workers hold, except that a
\* "done" may retire the oldest one of its sender, and gives no worker a task
\* that none of them held.
LEMMA QueueStepHeld ==
    ASSUME PoolTypeOK, NEW w \in keys, QueueStep(w)
    PROVE  /\ \A x : (\E v \in keys : x \in Held(v)') => \E v \in keys : x \in Held(v)
           /\ \/ /\ retired' = retired
                 /\ \A x : (\E v \in keys : x \in Held(v)) => \E v \in keys : x \in Held(v)'
              \/ /\ task_processing[w] # <<>>
                 /\ retired' = retired \cup {Head(task_processing[w])}
                 /\ \A x : (\E v \in keys : x \in Held(v))
                        => x = Head(task_processing[w]) \/ \E v \in keys : x \in Held(v)'
<1>1. keys \subseteq Workers /\ w \in Workers /\ task_processing[w] \in Seq(Tasks)
  BY DEF PoolTypeOK
<1>2. CASE UNCHANGED <<task_assignment, task_processing, retired>>
  BY <1>2 DEF Held
<1>3. CASE UNCHANGED retired /\ \E t \in Tasks : Given(w, t, task_processing[w])
  <2>1. PICK t \in Tasks : Given(w, t, task_processing[w])
    BY <1>3
  <2>2. Range(task_processing[w]) \subseteq Range(task_processing[w]) \cup {}
    OBVIOUS
  <2> QED
    BY <1>1, <1>3, <2>1, <2>2, GivenKeeps
<1>4. CASE /\ task_processing[w] # <<>>
           /\ retired' = retired \cup {Head(task_processing[w])}
           /\ \/ /\ UNCHANGED task_assignment
                 /\ task_processing' = [task_processing EXCEPT ![w] = Rest(w)]
              \/ \E t \in Tasks : Given(w, t, Rest(w))
  <2>1. /\ Rest(w) \in Seq(Tasks)
        /\ Range(task_processing[w]) = {Head(task_processing[w])} \cup Range(Rest(w))
    BY <1>1, <1>4, RangeHeadTail DEF Rest
  <2>2. CASE UNCHANGED task_assignment /\ task_processing' = [task_processing EXCEPT ![w] = Rest(w)]
    <3>1. /\ task_processing'[w] = Rest(w)
          /\ \A v \in Workers \ {w} : task_processing'[v] = task_processing[v]
      BY <1>1, <2>2 DEF PoolTypeOK
    <3>2. ASSUME NEW v \in keys
          PROVE  Held(v) \subseteq Held(v)' \cup {Head(task_processing[w])} /\ Held(v)' \subseteq Held(v)
      BY <1>1, <1>4, <2>1, <2>2, <3>1 DEF Held
    <3> QED
      BY <1>4, <3>2
  <2>3. ASSUME NEW t \in Tasks, Given(w, t, Rest(w))
        PROVE  /\ \A x : (\E v \in keys : x \in Held(v))
                    => x \in {Head(task_processing[w])} \/ \E v \in keys : x \in Held(v)'
               /\ \A x : (\E v \in keys : x \in Held(v)') => \E v \in keys : x \in Held(v)
    <3>1. /\ Range(Rest(w)) \subseteq Range(task_processing[w])
          /\ Range(task_processing[w]) \subseteq Range(Rest(w)) \cup {Head(task_processing[w])}
      BY <2>1
    <3> QED
      BY <2>1, <2>3, <3>1, GivenKeeps
  <2> QED
    BY <1>4, <2>2, <2>3
<1> QED
  BY <1>2, <1>3, <1>4 DEF QueueStep

-----------------------------------------------------------------------------
(***************************************************************************)
(* What each handler does to the set of tasks that the pool holds.         *)
(***************************************************************************)
\* create_full_taskpool adds the rows that are due.
LEMMA CreateMoves ==
    ASSUME PoolTypeOK, CreateTasks
    PROVE  \E n \in 1 .. Len(benchmark_tasks) :
              /\ InPool' = InPool \cup Range(Due(n))
              /\ benchmark_tasks' = SubSeq(benchmark_tasks, n + 1, Len(benchmark_tasks))
              /\ retired' = retired
<1>1. PICK n \in 1 .. Len(benchmark_tasks) :
          /\ tasks' = tasks \o Due(n)
          /\ benchmark_tasks' = SubSeq(benchmark_tasks, n + 1, Len(benchmark_tasks))
  BY DEF CreateTasks
<1>2. Due(n) \in Seq(Tasks) /\ tasks \in Seq(Tasks)
  BY <1>1, RangeSplit DEF Due, PoolTypeOK
<1>3. Range(tasks') = Range(tasks) \cup Range(Due(n))
  BY <1>1, <1>2, RangeConcat
<1>4. UNCHANGED <<keys, task_assignment, task_processing, retired>>
  BY DEF CreateTasks
<1>5. InPool' = InPool \cup Range(Due(n))
  BY <1>3, <1>4 DEF InPool, Held
<1> QED
  BY <1>1, <1>4, <1>5

\* The two loops move tasks between the pool and the queues, and lose none.
LEMMA LoopMoves ==
    ASSUME PoolTypeOK, KeysAgree,
           \/ RunTaskPool \/ AssignTask \/ EndAssign
           \/ \E current \in SUBSET Workers : WorkerChange(current)
           \/ \E w \in Workers : RequeueStopped(w)
           \/ RegisterNewWorkers
    PROVE  InPool' = InPool /\ retired' = retired
<1> DEFINE Goal == InPool' = InPool /\ retired' = retired
<1>1. CASE RunTaskPool \/ EndAssign
  BY <1>1 DEF RunTaskPool, EndAssign, InPool, Held
<1>2. CASE AssignTask
  <2>1. tasks \in Seq(Tasks) /\ tasks # <<>>
    BY <1>2 DEF AssignTask, PoolTypeOK
  <2>2. Head(tasks) \in Tasks /\ Range(tasks) = {Head(tasks)} \cup Range(Tail(tasks))
    BY <2>1, RangeHeadTail
  <2>3. PICK w \in LeastLoaded :
          task_assignment' = [task_assignment EXCEPT ![w] = Append(@, Head(tasks))]
    BY <1>2 DEF AssignTask
  <2>4. w \in keys /\ keys \subseteq Workers /\ task_assignment[w] \in Seq(Tasks)
    BY DEF LeastLoaded, PoolTypeOK
  <2>5. /\ task_assignment'[w] = Append(task_assignment[w], Head(tasks))
        /\ \A v \in Workers \ {w} : task_assignment'[v] = task_assignment[v]
    BY <2>3, <2>4 DEF PoolTypeOK
  <2>6. Range(task_assignment'[w]) = Range(task_assignment[w]) \cup {Head(tasks)}
    BY <2>2, <2>4, <2>5, RangeAppend
  <2>7. /\ Held(w)' = Held(w) \cup {Head(tasks)}
        /\ \A v \in keys \ {w} : Held(v)' = Held(v)
    BY <1>2, <2>4, <2>5, <2>6 DEF AssignTask, Held
  <2>8. Range(tasks) = {Head(tasks)} \cup Range(tasks') /\ keys' = keys /\ retired' = retired
    BY <1>2, <2>2 DEF AssignTask
  <2> QED
    BY <2>4, <2>7, <2>8 DEF InPool
<1>3. ASSUME NEW current \in SUBSET Workers, WorkerChange(current)
      PROVE  Goal
  BY <1>3 DEF WorkerChange, InPool, Held
<1>4. ASSUME NEW w \in Workers, RequeueStopped(w)
      PROVE  Goal
  <2>1. /\ task_assignment[w] \in Seq(Tasks)
        /\ task_processing[w] \in Seq(Tasks)
        /\ tasks \in Seq(Tasks)
    BY DEF PoolTypeOK
  <2> DEFINE front == task_processing[w] \o tasks
  <2>2. front \in Seq(Tasks) /\ Range(front) = Range(task_processing[w]) \cup Range(tasks)
    BY <2>1, RangeConcat, ConcatProperties
  <2>3. Requeued(w) = front \o task_assignment[w]
    BY DEF Requeued
  <2> HIDE DEF front
  <2>4. Range(Requeued(w)) = Range(front) \cup Range(task_assignment[w])
    BY <2>1, <2>2, <2>3, RangeConcat
  <2>5. Range(tasks') = Range(tasks) \cup Held(w)
    BY <1>4, <2>2, <2>4 DEF RequeueStopped, Held
  <2>6. \A v \in Workers \ {w} : Held(v)' = Held(v)
    BY <1>4 DEF RequeueStopped, Held, PoolTypeOK
  <2>7. keys \subseteq Workers /\ w \in keys /\ keys' = keys \ {w} /\ retired' = retired
    BY <1>4 DEF RequeueStopped, PoolTypeOK, KeysAgree
  <2> QED
    BY <2>5, <2>6, <2>7 DEF InPool
<1>5. CASE RegisterNewWorkers
  <2>1. /\ keys \subseteq Workers /\ new_workers \subseteq Workers /\ keys' = keys \cup new_workers
        /\ keys \cap new_workers = {}
    BY <1>5 DEF RegisterNewWorkers, KeysAgree, PoolTypeOK
  <2>2. /\ \A v \in keys : Held(v)' = Held(v)
        /\ \A v \in new_workers : task_assignment'[v] = <<>> /\ task_processing'[v] = <<>>
    BY <1>5, <2>1 DEF RegisterNewWorkers, Held
  <2>3. \A v \in new_workers : Held(v)' = {}
    <3>1. Range(<<>>) = {}
      BY DEF Range
    <3> QED
      BY <2>2, <3>1 DEF Held
  <2>4. tasks' = tasks /\ retired' = retired
    BY <1>5 DEF RegisterNewWorkers
  <2> QED
    BY <2>1, <2>2, <2>3, <2>4 DEF InPool
<1> QED
  BY <1>1, <1>2, <1>3, <1>4, <1>5

\* A heartbeat takes no task out of the pool.
LEMMA HeartbeatMoves ==
    ASSUME PoolTypeOK, NEW w \in Workers, NEW hb, NEW reply, ProcessHeartbeat(w, hb, reply)
    PROVE  InPool' = InPool /\ retired' = retired
<1>1. keys' = keys /\ tasks' = tasks /\ retired' = retired
  BY DEF ProcessHeartbeat
<1>2. CASE UNCHANGED <<task_assignment, task_processing>>
  BY <1>1, <1>2 DEF InPool, Held
<1>3. ASSUME w \in keys, NEW t \in Tasks,
             GiveOwn(w, t, task_processing[w]) \/ StealTask(w, t, task_processing[w])
      PROVE  InPool' = InPool
  <2>1. task_processing[w] \in Seq(Tasks)
    BY DEF PoolTypeOK
  <2>2. Given(w, t, task_processing[w])
    BY <1>3, GiveOwnGives, StealTaskGives
  <2>3. Range(task_processing[w]) \subseteq Range(task_processing[w]) \cup {}
    OBVIOUS
  <2>4. /\ \A x : (\E v \in keys : x \in Held(v)) => x \in {} \/ \E v \in keys : x \in Held(v)'
        /\ \A x : (\E v \in keys : x \in Held(v)') => \E v \in keys : x \in Held(v)
    BY <1>3, <2>1, <2>2, <2>3, GivenKeeps
  <2> QED
    BY <1>1, <2>4 DEF InPool
<1> QED
  BY <1>1, <1>2, <1>3 DEF ProcessHeartbeat

\* A "done" takes at most the oldest task of its sender out of the pool.
LEMMA DoneMoves ==
    ASSUME PoolTypeOK, KeysAgree, NEW w \in Workers, NEW command, NEW reply,
           ProcessDone(w, command, reply)
    PROVE  \/ InPool' = InPool /\ retired' = retired
           \/ /\ w \in keys /\ task_processing[w] # <<>>
              /\ retired' = retired \cup {Head(task_processing[w])}
              /\ InPool' \subseteq InPool
              /\ InPool \subseteq InPool' \cup {Head(task_processing[w])}
<1>1. keys' = keys /\ tasks' = tasks
  BY DEF ProcessDone
<1>2. (w \in keys \/ UNCHANGED <<task_assignment, task_processing, retired>>) /\ QueueStep(w)
  BY DoneQueues
<1>3. CASE UNCHANGED <<task_assignment, task_processing, retired>>
  BY <1>1, <1>3 DEF InPool, Held
<1>4. CASE w \in keys
  BY <1>1, <1>2, <1>4, QueueStepHeld DEF InPool
<1> QED
  BY <1>2, <1>3, <1>4

\* No step drops a task: what the pool holds it still holds afterwards, unless
\* a "done" retired it.
LEMMA PoolKeeps ==
    ASSUME PoolTypeOK, KeysAgree, [PoolNext]_poolVars
    PROVE  InPool \subseteq InPool' \cup retired' /\ retired \subseteq retired'
<1>1. CASE CreateTasks
  BY <1>1, CreateMoves
<1>2. CASE \/ RunTaskPool \/ AssignTask \/ EndAssign
           \/ \E current \in SUBSET Workers : WorkerChange(current)
           \/ \E w \in Workers : RequeueStopped(w)
           \/ RegisterNewWorkers
  BY <1>2, LoopMoves
<1>3. ASSUME NEW w \in Workers, NEW packet, NEW reply,
             ProcessHeartbeat(w, packet, reply) \/ ProcessDone(w, packet, reply)
      PROVE  InPool \subseteq InPool' \cup retired' /\ retired \subseteq retired'
  BY <1>3, HeartbeatMoves, DoneMoves
<1>4. CASE UNCHANGED poolVars
  BY <1>4 DEF poolVars, InPool, Held
<1> QED
  BY <1>1, <1>2, <1>3, <1>4 DEF PoolNext

\* Every step keeps NoTaskDropped.
LEMMA DroppedStep ==
    ASSUME PoolTypeOK, KeysAgree, NoTaskDropped, [PoolNext]_poolVars
    PROVE  NoTaskDropped'
<1>1. InPool \subseteq InPool' \cup retired' /\ retired \subseteq retired'
  BY PoolKeeps
<1>2. CASE CreateTasks
  <2>1. PICK n \in 1 .. Len(benchmark_tasks) :
          /\ tasks' = tasks \o Due(n)
          /\ benchmark_tasks' = SubSeq(benchmark_tasks, n + 1, Len(benchmark_tasks))
    BY <1>2 DEF CreateTasks
  <2>2. /\ Due(n) \in Seq(Tasks) /\ tasks \in Seq(Tasks)
        /\ Range(benchmark_tasks) = Range(Due(n)) \cup Range(benchmark_tasks')
    BY <2>1, RangeSplit DEF Due, PoolTypeOK
  <2>3. Range(Due(n)) \subseteq Range(tasks')
    BY <2>1, <2>2, RangeConcat
  <2>4. Created' \subseteq Created \cup Range(tasks')
    BY <2>2, <2>3 DEF Created
  <2> QED
    BY <1>1, <2>4 DEF NoTaskDropped, InPool
<1>3. CASE benchmark_tasks' = benchmark_tasks
  <2>1. Created' = Created
    BY <1>3 DEF Created
  <2> QED
    BY <1>1, <2>1 DEF NoTaskDropped
<1>4. CreateTasks \/ benchmark_tasks' = benchmark_tasks
  BY DEF PoolNext, poolVars, RunTaskPool, AssignTask, EndAssign, WorkerChange,
         RequeueStopped, RegisterNewWorkers, ProcessHeartbeat, ProcessDone
<1> QED
  BY <1>2, <1>3, <1>4

\* Every step keeps AssignedAreTimed.
LEMMA TimedStep ==
    ASSUME PoolTypeOK, KeysAgree, AssignedAreTimed, [PoolNext]_poolVars
    PROVE  AssignedAreTimed'
<1>1. CASE UNCHANGED <<keys, task_assignment, task_processing, assign_time>>
  BY <1>1 DEF AssignedAreTimed, Held
<1>2. CASE AssignTask
  <2>1. tasks \in Seq(Tasks) /\ tasks # <<>>
    BY <1>2 DEF AssignTask, PoolTypeOK
  <2>2. Head(tasks) \in Tasks
    BY <2>1, RangeHeadTail
  <2>3. PICK w \in LeastLoaded :
          task_assignment' = [task_assignment EXCEPT ![w] = Append(@, Head(tasks))]
    BY <1>2 DEF AssignTask
  <2>4. w \in keys /\ keys \subseteq Workers /\ task_assignment[w] \in Seq(Tasks)
    BY DEF LeastLoaded, PoolTypeOK
  <2>5. /\ task_assignment'[w] = Append(task_assignment[w], Head(tasks))
        /\ \A v \in Workers \ {w} : task_assignment'[v] = task_assignment[v]
    BY <2>3, <2>4 DEF PoolTypeOK
  <2>6. Range(task_assignment'[w]) = Range(task_assignment[w]) \cup {Head(tasks)}
    BY <2>2, <2>4, <2>5, RangeAppend
  <2>7. /\ keys' = keys /\ task_processing' = task_processing
        /\ assign_time' = assign_time \cup {Head(tasks)}
    BY <1>2 DEF AssignTask, Timed
  <2> QED
    BY <2>4, <2>5, <2>6, <2>7 DEF AssignedAreTimed, Held
<1>3. ASSUME NEW w \in Workers, RequeueStopped(w)
      PROVE  AssignedAreTimed'
  <2>1. \A v \in Workers \ {w} : Held(v)' = Held(v)
    BY <1>3 DEF RequeueStopped, Held, PoolTypeOK
  <2>2. keys \subseteq Workers /\ keys' = keys \ {w} /\ assign_time' = assign_time
    BY <1>3 DEF RequeueStopped, PoolTypeOK
  <2> QED
    BY <2>1, <2>2 DEF AssignedAreTimed
<1>4. CASE RegisterNewWorkers
  <2>1. /\ keys' = keys \cup new_workers /\ keys' \subseteq Workers
        /\ assign_time' = assign_time
    BY <1>4 DEF RegisterNewWorkers, PoolTypeOK
  <2>2. \A v \in new_workers : Held(v)' = {}
    BY <1>4, <2>1 DEF RegisterNewWorkers, Held, Range
  <2>3. \A v \in keys \ new_workers : Held(v)' = Held(v)
    BY <1>4, <2>1 DEF RegisterNewWorkers, Held
  <2> QED
    BY <2>1, <2>2, <2>3 DEF AssignedAreTimed
<1>5. ASSUME NEW w \in Workers, keys' = keys, assign_time' = assign_time, QueueStep(w),
             w \in keys \/ UNCHANGED <<task_assignment, task_processing, retired>>
      PROVE  AssignedAreTimed'
  <2>1. CASE w \in keys
    BY <1>5, <2>1, QueueStepHeld DEF AssignedAreTimed
  <2>2. CASE UNCHANGED <<task_assignment, task_processing, retired>>
    BY <1>1, <1>5, <2>2
  <2> QED
    BY <1>5, <2>1, <2>2
<1>6. ASSUME NEW w \in Workers, NEW hb, NEW reply, ProcessHeartbeat(w, hb, reply)
      PROVE  AssignedAreTimed'
  <2>1. keys' = keys /\ assign_time' = assign_time
    BY <1>6 DEF ProcessHeartbeat
  <2> QED
    BY <1>5, <1>6, <2>1, HeartbeatQueues
<1>7. ASSUME NEW w \in Workers, NEW command, NEW reply, ProcessDone(w, command, reply)
      PROVE  AssignedAreTimed'
  <2>1. keys' = keys /\ assign_time' = assign_time
    BY <1>7 DEF ProcessDone
  <2> QED
    BY <1>5, <1>7, <2>1, DoneQueues
<1>8. CASE CreateTasks \/ RunTaskPool \/ EndAssign \/ UNCHANGED poolVars
           \/ \E current \in SUBSET Workers : WorkerChange(current)
  BY <1>1, <1>8 DEF CreateTasks, RunTaskPool, EndAssign, WorkerChange, poolVars
<1> QED
  BY <1>2, <1>3, <1>4, <1>6, <1>7, <1>8 DEF PoolNext

-----------------------------------------------------------------------------
(***************************************************************************)
(* The inductive invariant is the conjunction of the four: the types and   *)
(* the agreement of the keys are what the other two need to get through a  *)
(* change of workers.                                                      *)
(***************************************************************************)
PoolInv == PoolTypeOK /\ KeysAgree /\ NoTaskDropped /\ AssignedAreTimed

\* A fresh Node Manager satisfies the invariant.
LEMMA PoolInvInit == PoolInit => PoolInv
<1> SUFFICES ASSUME PoolInit PROVE PoolInv
  OBVIOUS
<1>1. PoolTypeOK
  <2>1. <<>> \in Seq(Tasks) /\ benchmark_tasks \in Seq(Tasks) /\ tasks \in Seq(Tasks)
    BY BenchmarkAssumption DEF PoolInit
  <2>2. task_assignment \in [Workers -> Seq(Tasks)] /\ task_processing \in [Workers -> Seq(Tasks)]
    BY <2>1, Zenon DEF PoolInit
  <2>3. all_assigned_tasks \in Int /\ step \in Steps
    BY DEF PoolInit, Steps
  <2>4. beat \in BOOLEAN
    BY Zenon DEF PoolInit
  <2> QED
    BY <2>1, <2>2, <2>3, <2>4 DEF PoolInit, PoolTypeOK
<1>2. KeysAgree
  BY DEF PoolInit, KeysAgree
<1>3. NoTaskDropped /\ AssignedAreTimed
  BY DEF PoolInit, NoTaskDropped, Created, AssignedAreTimed
<1> QED
  BY <1>1, <1>2, <1>3 DEF PoolInv

\* Every handler of the Node Manager preserves it.
LEMMA PoolInvStep == PoolInv /\ [PoolNext]_poolVars => PoolInv'
  BY TypeStep, KeysStep, DroppedStep, TimedStep DEF PoolInv

\* The invariant holds in every state of the Node Manager.
THEOREM PoolInvariant == PoolSpec => []PoolInv
<1> QED
  BY PoolInvInit, PoolInvStep, PTL DEF PoolSpec

\* Types: whatever the workers and the Instance Manager send, the fields of
\* TaskPool keep their types.
THEOREM PoolTypeCorrect == PoolSpec => []PoolTypeOK
<1>1. PoolInv => PoolTypeOK
  BY DEF PoolInv
<1> QED
  BY <1>1, PoolInvariant, PTL

\* The two dicts and the lists of workers agree, so no subscript of a handler
\* raises KeyError.
THEOREM PoolKeysAgree == PoolSpec => []KeysAgree
<1>1. PoolInv => KeysAgree
  BY DEF PoolInv
<1> QED
  BY <1>1, PoolInvariant, PTL

\* No handler drops a task, for any number of workers and any scenario.
THEOREM PoolDropsNoTask == PoolSpec => []NoTaskDropped
<1>1. PoolInv => NoTaskDropped
  BY DEF PoolInv
<1> QED
  BY <1>1, PoolInvariant, PTL

\* A task that a worker holds has an assign_time, whatever came before.
THEOREM PoolTimesTasks == PoolSpec => []AssignedAreTimed
<1>1. PoolInv => AssignedAreTimed
  BY DEF PoolInv
<1> QED
  BY <1>1, PoolInvariant, PTL
=============================================================================
