-------------------------- MODULE NodeClusterProofs --------------------------
(***************************************************************************)
(* Proofs about NodeCluster: the Node Manager's pool together with its     *)
(* workers, for any number of workers and tasks, any limit on the buffers  *)
(* and any number of stops and restarts.                                   *)
(***************************************************************************)
EXTENDS NodeCluster, TaskPoolProofs, SetInduction

-----------------------------------------------------------------------------
(***************************************************************************)
(* The packets.                                                            *)
(***************************************************************************)
\* The fields of a request, and which requests are reports.
LEMMA RequestFields ==
    ASSUME NEW packet \in Requests
    PROVE  /\ packet.kind \in {"heartbeat", "done"}
           /\ packet.kind = "heartbeat" => packet \in Heartbeats
           /\ packet.kind = "done" => packet.task \in Tasks /\ packet = Done(packet.task)
  BY DEF Requests, Heartbeats, Dones, Heartbeat, Done, Packet

-----------------------------------------------------------------------------
(***************************************************************************)
(* Concatenated deques.                                                    *)
(***************************************************************************)
\* append() to the last of two deques.
LEMMA AppendToConcat ==
    \A s, t \in Seq(Tasks) : \A x \in Tasks : Append(s \o t, x) = s \o Append(t, x)
<1> SUFFICES ASSUME NEW s \in Seq(Tasks), NEW t \in Seq(Tasks), NEW x \in Tasks
             PROVE  Append(s \o t, x) = s \o Append(t, x)
  OBVIOUS
<1>1. <<x>> \in Seq(Tasks) /\ s \o t \in Seq(Tasks)
  BY ConcatProperties
<1>2. Append(s \o t, x) = (s \o t) \o <<x>> /\ Append(t, x) = t \o <<x>>
  BY <1>1, AppendIsConcat
<1> QED
  BY <1>1, <1>2, ConcatAssociative

\* popleft() from a deque with x in front of s.
LEMMA ConsHeadTail ==
    \A x \in Tasks : \A s \in Seq(Tasks) :
        /\ <<x>> \o s # <<>>
        /\ Head(<<x>> \o s) = x
        /\ Tail(<<x>> \o s) = s
<1> SUFFICES ASSUME NEW x \in Tasks, NEW s \in Seq(Tasks)
             PROVE  /\ <<x>> \o s # <<>>
                    /\ Head(<<x>> \o s) = x
                    /\ Tail(<<x>> \o s) = s
  OBVIOUS
<1> DEFINE c == <<x>> \o s
<1>1. /\ c \in Seq(Tasks) /\ Len(c) = 1 + Len(s) /\ Len(s) \in Nat
      /\ \A i \in 1 .. 1 + Len(s) : c[i] = IF i <= 1 THEN x ELSE s[i - 1]
  OBVIOUS
<1> HIDE DEF c
<1>2. c # <<>> /\ Head(c) = x
  BY <1>1
<1>3. /\ Tail(c) \in Seq(Tasks) /\ Len(Tail(c)) = Len(s)
      /\ \A i \in 1 .. Len(s) : Tail(c)[i] = c[i + 1]
  BY <1>1, <1>2, HeadTailProperties
<1>4. \A i \in 1 .. Len(s) : Tail(c)[i] = s[i]
  BY <1>1, <1>3
<1>5. Tail(c) = s
  BY <1>3, <1>4, SeqEqual
<1> QED
  BY <1>2, <1>5 DEF c

-----------------------------------------------------------------------------
(***************************************************************************)
(* Owed is five deques in a row. What moves between neighbours, or enters  *)
(* at the end, leaves the order of the tasks as it is.                     *)
(***************************************************************************)
InLine(a, b, c, d, e) == a \o b \o c \o d \o e

\* Concatenation keeps the type, <<>> is neutral, brackets may be moved.
LEMMA ConcatFacts ==
    /\ \A s, t \in Seq(Tasks) : s \o t \in Seq(Tasks)
    /\ \A s \in Seq(Tasks) : s \o <<>> = s /\ <<>> \o s = s
    /\ \A s, t, u \in Seq(Tasks) : (s \o t) \o u = s \o (t \o u)
  BY ConcatProperties, ConcatEmptySeq, ConcatAssociative

\* The last of these facts by itself.
LEMMA ConcatAssoc == \A s, t, u \in Seq(Tasks) : (s \o t) \o u = s \o (t \o u)
  BY ConcatFacts, Zenon

\* A deque is its first task followed by the rest.
LEMMA HeadInFront ==
    \A s \in Seq(Tasks) : s # <<>> =>
        Head(s) \in Tasks /\ Tail(s) \in Seq(Tasks) /\ s = <<Head(s)>> \o Tail(s)
<1> SUFFICES ASSUME NEW s \in Seq(Tasks), s # <<>>
             PROVE  Head(s) \in Tasks /\ Tail(s) \in Seq(Tasks) /\ s = <<Head(s)>> \o Tail(s)
  OBVIOUS
<1>1. /\ Head(s) \in Tasks /\ Tail(s) \in Seq(Tasks) /\ Len(Tail(s)) = Len(s) - 1
      /\ Head(s) = s[1] /\ \A i \in 1 .. Len(s) - 1 : Tail(s)[i] = s[i + 1]
  BY HeadTailProperties
<1> DEFINE c == <<Head(s)>> \o Tail(s)
<1>2. /\ c \in Seq(Tasks) /\ Len(c) = Len(s)
      /\ \A i \in 1 .. Len(s) : c[i] = IF i <= 1 THEN Head(s) ELSE Tail(s)[i - 1]
  BY <1>1
<1> HIDE DEF c
<1>3. \A i \in 1 .. Len(s) : c[i] = s[i]
  BY <1>1, <1>2
<1>4. c = s
  BY <1>2, <1>3, SeqEqual
<1> QED
  BY <1>1, <1>4 DEF c

\* Five deques in a row are a deque.
LEMMA InLineType ==
    \A a, b, c, d, e \in Seq(Tasks) : InLine(a, b, c, d, e) \in Seq(Tasks)
  BY ConcatFacts DEF InLine

\* Where the brackets are does not matter.
LEMMA ConcatFour ==
    \A s, t, u, v \in Seq(Tasks) : (s \o (t \o u)) \o v = (s \o t) \o (u \o v)
<1> SUFFICES ASSUME NEW s \in Seq(Tasks), NEW t \in Seq(Tasks), NEW u \in Seq(Tasks),
                    NEW v \in Seq(Tasks)
             PROVE  (s \o (t \o u)) \o v = (s \o t) \o (u \o v)
  OBVIOUS
<1>1. s \o t \in Seq(Tasks) /\ (s \o t) \o u = s \o (t \o u)
  BY ConcatFacts
<1>2. \A f \in Seq(Tasks) : (f \o u) \o v = f \o (u \o v)
  BY ConcatAssoc, Zenon
<1>3. ((s \o t) \o u) \o v = (s \o t) \o (u \o v)
  BY <1>1, <1>2, Zenon
<1> QED
  BY <1>1, <1>3, Zenon

\* process() takes a task from the queue and its report goes to the buffer.
LEMMA LineProcess ==
    \A a, b, d, e \in Seq(Tasks) : d # <<>> =>
        InLine(a, Append(b, Head(d)), <<>>, Tail(d), e) = InLine(a, b, <<>>, d, e)
<1> SUFFICES ASSUME NEW a \in Seq(Tasks), NEW b \in Seq(Tasks), NEW d \in Seq(Tasks),
                    NEW e \in Seq(Tasks), d # <<>>
             PROVE  InLine(a, Append(b, Head(d)), <<>>, Tail(d), e) = InLine(a, b, <<>>, d, e)
  OBVIOUS
<1>1. Head(d) \in Tasks /\ Tail(d) \in Seq(Tasks) /\ <<Head(d)>> \in Seq(Tasks)
  BY HeadInFront
<1>2. Append(b, Head(d)) = b \o <<Head(d)>> /\ Append(b, Head(d)) \in Seq(Tasks)
  BY <1>1, AppendIsConcat, AppendProperties
<1>3. /\ (a \o Append(b, Head(d))) \o <<>> = a \o Append(b, Head(d))
      /\ (a \o b) \o <<>> = a \o b
  BY <1>2, ConcatFacts
<1>4. (a \o (b \o <<Head(d)>>)) \o Tail(d) = (a \o b) \o (<<Head(d)>> \o Tail(d))
  <2>1. \A h, r \in Seq(Tasks) : (a \o (b \o h)) \o r = (a \o b) \o (h \o r)
    BY ConcatFour
  <2> QED
    BY <1>1, <2>1, Zenon
<1>5. d = <<Head(d)>> \o Tail(d)
  BY HeadInFront
<1> QED
  BY <1>2, <1>3, <1>4, <1>5, Zenon DEF InLine

\* process() crashes on the task that it takes from the queue.
LEMMA LineCrash ==
    \A a, b, d, e \in Seq(Tasks) : d # <<>> =>
        InLine(a, b, <<Head(d)>>, Tail(d), e) = InLine(a, b, <<>>, d, e)
<1> SUFFICES ASSUME NEW a \in Seq(Tasks), NEW b \in Seq(Tasks), NEW d \in Seq(Tasks),
                    NEW e \in Seq(Tasks), d # <<>>
             PROVE  InLine(a, b, <<Head(d)>>, Tail(d), e) = InLine(a, b, <<>>, d, e)
  OBVIOUS
<1>1. /\ Head(d) \in Tasks /\ Tail(d) \in Seq(Tasks) /\ <<Head(d)>> \in Seq(Tasks)
      /\ d = <<Head(d)>> \o Tail(d)
  BY HeadInFront
<1>2. a \o b \in Seq(Tasks) /\ (a \o b) \o <<>> = a \o b
  BY ConcatFacts
<1>3. ((a \o b) \o <<Head(d)>>) \o Tail(d) = (a \o b) \o (<<Head(d)>> \o Tail(d))
  BY <1>1, <1>2, ConcatAssoc, Zenon
<1> QED
  BY <1>1, <1>2, <1>3, Zenon DEF InLine

\* A task command reaches the queue; the Node Manager hands out a task.
LEMMA LineGive ==
    \A b, c, d \in Seq(Tasks) : \A t \in Tasks :
        /\ InLine(<<>>, b, c, Append(d, t), <<>>) = InLine(<<>>, b, c, d, <<t>>)
        /\ Append(InLine(<<>>, b, c, d, <<>>), t) = InLine(<<>>, b, c, d, <<t>>)
<1> SUFFICES ASSUME NEW b \in Seq(Tasks), NEW c \in Seq(Tasks), NEW d \in Seq(Tasks), NEW t \in Tasks
             PROVE  /\ InLine(<<>>, b, c, Append(d, t), <<>>) = InLine(<<>>, b, c, d, <<t>>)
                    /\ Append(InLine(<<>>, b, c, d, <<>>), t) = InLine(<<>>, b, c, d, <<t>>)
  OBVIOUS
<1> DEFINE front == (<<>> \o b) \o c
<1>1. front \in Seq(Tasks) /\ front \o d \in Seq(Tasks) /\ <<t>> \in Seq(Tasks)
  BY ConcatFacts
<1> HIDE DEF front
<1>2. Append(d, t) = d \o <<t>> /\ Append(front \o d, t) = (front \o d) \o <<t>>
  BY <1>1, AppendIsConcat
<1>3. (front \o (d \o <<t>>)) \o <<>> = (front \o d) \o <<t>> /\ (front \o d) \o <<>> = front \o d
  BY <1>1, ConcatFacts
<1> QED
  BY <1>2, <1>3 DEF InLine, front

\* A report is handled: the reported task was the oldest.
LEMMA LineDone ==
    \A b, c, d \in Seq(Tasks) : \A t \in Tasks :
        /\ InLine(<<t>>, b, c, d, <<>>) # <<>>
        /\ Head(InLine(<<t>>, b, c, d, <<>>)) = t
        /\ Tail(InLine(<<t>>, b, c, d, <<>>)) = InLine(<<>>, b, c, d, <<>>)
<1> SUFFICES ASSUME NEW b \in Seq(Tasks), NEW c \in Seq(Tasks), NEW d \in Seq(Tasks), NEW t \in Tasks
             PROVE  /\ InLine(<<t>>, b, c, d, <<>>) # <<>>
                    /\ Head(InLine(<<t>>, b, c, d, <<>>)) = t
                    /\ Tail(InLine(<<t>>, b, c, d, <<>>)) = InLine(<<>>, b, c, d, <<>>)
  OBVIOUS
<1>1. <<t>> \in Seq(Tasks) /\ b \o c \in Seq(Tasks) /\ (b \o c) \o d \in Seq(Tasks)
  BY ConcatFacts
<1>2. InLine(<<>>, b, c, d, <<>>) = (b \o c) \o d
  BY <1>1, ConcatFacts DEF InLine
<1>3. ((<<t>> \o b) \o c) \o d = <<t>> \o ((b \o c) \o d)
  <2>1. (<<t>> \o b) \o c = <<t>> \o (b \o c)
    BY <1>1, ConcatFacts
  <2> QED
    BY <1>1, <2>1, ConcatFacts
<1>4. InLine(<<t>>, b, c, d, <<>>) = <<t>> \o ((b \o c) \o d)
  BY <1>1, <1>3, ConcatFacts DEF InLine
<1> QED
  BY <1>1, <1>2, <1>4, ConsHeadTail

-----------------------------------------------------------------------------
(***************************************************************************)
(* What Reports, which is defined by recursion on a position, yields for   *)
(* the empty buffer, after an append and after a popleft.                  *)
(***************************************************************************)
\* r[n] is what the first n packets of s report.
ReportTable(s, r) ==
    /\ r \in [0 .. Len(s) -> Seq(Tasks)]
    /\ r[0] = <<>>
    /\ \A n \in 1 .. Len(s) : r[n] = WithReport(r[n - 1], s[n])

\* One more packet.
LEMMA WithReportType ==
    ASSUME NEW r \in Seq(Tasks), NEW packet \in Requests
    PROVE  WithReport(r, packet) \in Seq(Tasks)
  BY RequestFields, AppendProperties DEF WithReport

\* The recursion has a solution.
LEMMA ReportTableExists ==
    ASSUME NEW s \in Seq(Requests)
    PROVE  \E r : ReportTable(s, r)
<1> DEFINE Partial(m, r) == /\ r \in [0 .. m -> Seq(Tasks)]
                            /\ r[0] = <<>>
                            /\ \A n \in 1 .. m : r[n] = WithReport(r[n - 1], s[n])
           T == {m \in Nat : m <= Len(s) => \E r : Partial(m, r)}
<1>1. 0 \in T
  <2>1. Partial(0, [n \in 0 .. 0 |-> <<>>])
    OBVIOUS
  <2> QED
    BY <2>1
<1>2. ASSUME NEW m \in Nat, m + 1 <= Len(s), NEW r, Partial(m, r)
      PROVE  \E p : Partial(m + 1, p)
  <2> DEFINE q == [n \in 0 .. m + 1 |-> IF n = m + 1 THEN WithReport(r[m], s[m + 1]) ELSE r[n]]
  <2>1. r[m] \in Seq(Tasks) /\ s[m + 1] \in Requests
    BY <1>2
  <2>2. WithReport(r[m], s[m + 1]) \in Seq(Tasks)
    BY <2>1, WithReportType
  <2>3. q \in [0 .. m + 1 -> Seq(Tasks)] /\ q[0] = <<>>
    BY <1>2, <2>2
  <2>4. ASSUME NEW n \in 1 .. m + 1
        PROVE  q[n] = WithReport(q[n - 1], s[n])
    <3>1. n - 1 \in 0 .. m /\ q[n - 1] = r[n - 1]
      OBVIOUS
    <3>2. CASE n = m + 1
      BY <3>1, <3>2
    <3>3. CASE n \in 1 .. m
      BY <1>2, <3>1, <3>3
    <3> QED
      BY <3>2, <3>3
  <2>5. Partial(m + 1, q)
    BY <2>3, <2>4
  <2> QED
    BY <2>5
<1> HIDE DEF Partial
<1>3. \A m \in Nat : m \in T => m + 1 \in T
  BY <1>2
<1> HIDE DEF T
<1>4. Len(s) \in T
  BY <1>1, <1>3, InductionOnSet
<1>5. PICK r : Partial(Len(s), r)
  BY <1>4 DEF T
<1> QED
  BY <1>5 DEF ReportTable, Partial

\* Buffers that agree up to a position report the same up to there.
LEMMA ReportTablesAgree ==
    ASSUME NEW s \in Seq(Requests), NEW t \in Seq(Requests), NEW q, NEW r,
           ReportTable(s, q), ReportTable(t, r),
           NEW m \in Nat, m <= Len(s), m <= Len(t), \A i \in 1 .. m : s[i] = t[i]
    PROVE  q[m] = r[m]
<1> DEFINE T == {n \in Nat : n <= m => q[n] = r[n]}
<1>1. 0 \in T
  BY DEF ReportTable
<1>2. ASSUME NEW n \in Nat, n \in T
      PROVE  n + 1 \in T
  BY <1>2 DEF ReportTable
<1> HIDE DEF T
<1>3. m \in T
  BY <1>1, <1>2, InductionOnSet
<1> QED
  BY <1>3 DEF T

\* Reports is the last entry of the table.
LEMMA ReportsOfTable ==
    ASSUME NEW s \in Seq(Requests), NEW r, ReportTable(s, r)
    PROVE  Reports(s) = r[Len(s)]
<1> DEFINE Step(f) == [n \in 0 .. Len(s) |-> IF n = 0 THEN <<>> ELSE WithReport(f[n - 1], s[n])]
           upTo == CHOOSE f : f = Step(f)
<1>1. Reports(s) = upTo[Len(s)]
  BY DEF Reports
<1>2. r = Step(r)
  BY DEF ReportTable
<1>3. upTo = Step(upTo)
  BY <1>2
<1> DEFINE T == {n \in Nat : n <= Len(s) => upTo[n] = r[n]}
<1> HIDE DEF upTo
<1>4. 0 \in T
  BY <1>3 DEF ReportTable
<1>5. ASSUME NEW n \in Nat, n \in T
      PROVE  n + 1 \in T
  BY <1>3, <1>5 DEF ReportTable
<1> HIDE DEF T
<1>6. Len(s) \in T
  BY <1>4, <1>5, InductionOnSet
<1> QED
  BY <1>1, <1>6 DEF T

\* An empty buffer reports nothing, an appended packet comes last.
LEMMA ReportsAppend ==
    ASSUME NEW s \in Seq(Requests), NEW packet \in Requests
    PROVE  /\ Reports(s) \in Seq(Tasks)
           /\ Reports(<<>>) = <<>>
           /\ Reports(Append(s, packet)) = WithReport(Reports(s), packet)
<1> DEFINE t == Append(s, packet)
           n == Len(s)
<1>1. t \in Seq(Requests) /\ Len(t) = n + 1 /\ t[n + 1] = packet /\ \A i \in 1 .. n : t[i] = s[i]
  OBVIOUS
<1>2. <<>> \in Seq(Requests) /\ Len(<<>>) = 0 /\ n \in Nat
  OBVIOUS
<1> HIDE DEF t
<1>3. PICK q : ReportTable(s, q)
  BY ReportTableExists
<1>4. PICK r : ReportTable(t, r)
  BY <1>1, ReportTableExists
<1>5. PICK e : ReportTable(<<>>, e)
  BY <1>2, ReportTableExists
<1>6. Reports(s) = q[n] /\ Reports(t) = r[n + 1] /\ Reports(<<>>) = e[0]
  BY <1>1, <1>2, <1>3, <1>4, <1>5, ReportsOfTable
<1>7. q[n] = r[n]
  BY <1>1, <1>2, <1>3, <1>4, ReportTablesAgree
<1>8. r[n + 1] = WithReport(r[n], packet)
  BY <1>1, <1>2, <1>4 DEF ReportTable
<1>9. q[n] \in Seq(Tasks) /\ e[0] = <<>>
  BY <1>2, <1>3, <1>5 DEF ReportTable
<1> QED
  BY <1>6, <1>7, <1>8, <1>9 DEF t

\* A buffer reports what its first packet reports, then what the rest does.
LEMMA ReportsHead ==
    ASSUME NEW s \in Seq(Requests), s # <<>>
    PROVE  Reports(s) = Reports(<<Head(s)>>) \o Reports(Tail(s))
<1> DEFINE t == Tail(s)
           first == WithReport(<<>>, Head(s))
<1>1. /\ t \in Seq(Requests) /\ Len(s) = Len(t) + 1 /\ Len(t) \in Nat
      /\ Head(s) \in Requests /\ s[1] = Head(s)
      /\ \A i \in 1 .. Len(t) : t[i] = s[i + 1]
  OBVIOUS
<1> HIDE DEF t
<1>2. Reports(<<Head(s)>>) = first
  <2>1. <<Head(s)>> = Append(<<>>, Head(s)) /\ <<>> \in Seq(Requests)
    BY <1>1
  <2> QED
    BY <1>1, <2>1, ReportsAppend
<1>3. first \in Seq(Tasks)
  <2>1. <<>> \in Seq(Tasks)
    OBVIOUS
  <2> QED
    BY <1>1, <2>1, WithReportType
<1>4. PICK q : ReportTable(s, q)
  BY ReportTableExists
<1>5. PICK r : ReportTable(t, r)
  BY <1>1, ReportTableExists
<1> HIDE DEF first
<1>6. ASSUME NEW n \in 0 .. Len(t) - 1, q[n + 1] = first \o r[n]
      PROVE  q[(n + 1) + 1] = first \o r[n + 1]
  <2>1. r[n] \in Seq(Tasks)
    <3>1. n \in 0 .. Len(t)
      BY <1>1
    <3> QED
      BY <1>5, <3>1 DEF ReportTable
  <2>2. /\ q[(n + 1) + 1] = WithReport(q[n + 1], t[n + 1])
        /\ r[n + 1] = WithReport(r[n], t[n + 1])
        /\ t[n + 1] \in Requests
    BY <1>1, <1>4, <1>5 DEF ReportTable
  <2>3. CASE t[n + 1].kind = "done"
    <3>1. t[n + 1].task \in Tasks
      BY <2>2, <2>3, RequestFields
    <3>2. Append(first \o r[n], t[n + 1].task) = first \o Append(r[n], t[n + 1].task)
      BY <1>3, <2>1, <3>1, AppendToConcat
    <3> QED
      BY <1>6, <2>2, <2>3, <3>2 DEF WithReport
  <2>4. CASE t[n + 1].kind # "done"
    BY <1>6, <2>2, <2>4 DEF WithReport
  <2> QED
    BY <2>3, <2>4
<1> DEFINE T == {n \in Nat : n <= Len(t) => q[n + 1] = first \o r[n]}
<1>7. 0 \in T
  <2>1. q[0 + 1] = first /\ r[0] = <<>>
    BY <1>1, <1>4, <1>5 DEF ReportTable, first
  <2> QED
    BY <1>3, <2>1
<1>8. ASSUME NEW n \in Nat, n \in T
      PROVE  n + 1 \in T
  <2>1. CASE n + 1 <= Len(t)
    <3>1. n \in 0 .. Len(t) - 1 /\ q[n + 1] = first \o r[n]
      BY <1>1, <1>8, <2>1
    <3>2. q[(n + 1) + 1] = first \o r[n + 1]
      BY <1>6, <3>1
    <3> QED
      BY <3>2
  <2>2. CASE ~(n + 1 <= Len(t))
    BY <2>2
  <2> QED
    BY <2>1, <2>2
<1> HIDE DEF T
<1>9. Len(t) \in T
  BY <1>1, <1>7, <1>8, InductionOnSet
<1>10. q[Len(t) + 1] = first \o r[Len(t)]
  BY <1>1, <1>9 DEF T
<1> QED
  BY <1>1, <1>2, <1>4, <1>5, <1>10, ReportsOfTable DEF t

\* A buffer with heartbeats only reports nothing.
LEMMA ReportsNone ==
    ASSUME NEW s \in Seq(Requests), \A i \in DOMAIN s : s[i].kind = "heartbeat"
    PROVE  Reports(s) = <<>>
<1>1. PICK r : ReportTable(s, r)
  BY ReportTableExists
<1> DEFINE T == {n \in Nat : n <= Len(s) => r[n] = <<>>}
<1>2. 0 \in T
  BY <1>1 DEF ReportTable
<1>3. ASSUME NEW n \in Nat, n \in T
      PROVE  n + 1 \in T
  BY <1>1, <1>3 DEF ReportTable, WithReport
<1> HIDE DEF T
<1>4. Len(s) \in T
  BY <1>2, <1>3, InductionOnSet
<1> QED
  BY <1>1, <1>4, ReportsOfTable DEF T

-----------------------------------------------------------------------------
(***************************************************************************)
(* A step of the cluster is a step of the pool or leaves the pool alone,   *)
(* so what is proved of the pool holds in the cluster.                     *)
(***************************************************************************)
\* What the server receives from a process is a request.
LEMMA WireFields ==
    ASSUME NEW packet \in Answers \cup {NoPacket}
    PROVE  /\ packet.kind \in {"heartbeat", "done", "task", "none"}
           /\ packet.kind = "heartbeat" => packet \in Heartbeats
           /\ packet.kind = "done" => packet \in Dones /\ packet.task \in Tasks
           /\ packet.kind = "task" => packet.task \in Tasks
  BY DEF Answers, Requests, Heartbeats, Dones, Heartbeat, Done, TaskCommand, NoPacket, Packet

\* The pool takes one of its own steps, or none.
LEMMA PoolOrUnchanged ==
    ASSUME TypeOK, [Next]_vars
    PROVE  [PoolNext]_poolVars
<1>1. CASE UNCHANGED vars
  BY <1>1 DEF vars
<1>2. CASE \E w \in Workers : BootWorker(w) \/ RestartWorker(w) \/ KillWorker(w) \/ MachineStops(w)
  BY <1>2 DEF BootWorker, RestartWorker, KillWorker, MachineStops
<1>3. CASE AnswerNodeManager \/ ImConnectionLost
  BY <1>3 DEF AnswerNodeManager, ImConnectionLost
<1>4. CASE ReceiveAnswer
  <2>1. Head(im_answers) \in SUBSET Workers
    BY <1>4, HeadTailProperties DEF ReceiveAnswer, TypeOK
  <2> QED
    BY <1>4, <2>1 DEF ReceiveAnswer, PoolNext
<1>5. CASE PoolStep
  BY <1>5 DEF PoolStep, PoolNext
<1>6. ASSUME NEW p \in Procs, StartCommand(p) \/ WorkerStep(p)
      PROVE  UNCHANGED poolVars
  BY <1>6 DEF StartCommand, WorkerStep
<1>7. ASSUME NEW p \in Procs, ServeHeartbeat(p) \/ ServeDone(p)
      PROVE  PoolNext
  <2>1. instance_id[p] \in Workers /\ wire[p] \in Answers \cup {NoPacket}
    BY WorkerAssumption DEF TypeOK, WorkerTypeOK
  <2>2. CASE ServeHeartbeat(p)
    <3>1. wire[p] \in Heartbeats
      BY <2>1, <2>2, WireFields DEF ServeHeartbeat
    <3> QED
      BY <2>1, <2>2, <3>1 DEF ServeHeartbeat, PoolNext
  <2>3. CASE ServeDone(p)
    <3>1. wire[p] \in Dones
      BY <2>1, <2>3, WireFields DEF ServeDone
    <3> QED
      BY <2>1, <2>3, <3>1 DEF ServeDone, PoolNext
  <2> QED
    BY <1>7, <2>2, <2>3
<1> QED
  BY <1>1, <1>2, <1>3, <1>4, <1>5, <1>6, <1>7 DEF Next

\* Every step of the cluster keeps the invariant of the pool.
LEMMA PoolInvInCluster == TypeOK /\ PoolInv /\ [Next]_vars => PoolInv'
  BY PoolOrUnchanged, PoolInvStep

-----------------------------------------------------------------------------
(***************************************************************************)
(* Types.                                                                  *)
(***************************************************************************)
\* The packets that a process makes are requests.
LEMMA RequestsMade ==
    /\ \A b \in BOOLEAN : Heartbeat(b) \in Requests
    /\ \A t \in Tasks : Done(t) \in Requests
    /\ Requests \subseteq Answers
  BY DEF Requests, Heartbeats, Dones, Answers

\* The worker processes keep the types of their state.
LEMMA WorkerTypeStep ==
    ASSUME TypeOK, NEW p \in Procs, WorkerStep(p)
    PROVE  WorkerTypeOK'
<1>1. /\ task_queue[p] \in Seq(Tasks) /\ send_buffer[p] \in Seq(Requests)
      /\ task_command_received[p] \in BOOLEAN /\ wire[p] \in Answers \cup {NoPacket}
  BY DEF TypeOK, WorkerTypeOK
<1>2. task_queue[p] # <<>> => Head(task_queue[p]) \in Tasks /\ Tail(task_queue[p]) \in Seq(Tasks)
  BY <1>1
<1>3. send_buffer[p] # <<>> =>
        Head(send_buffer[p]) \in Requests /\ Tail(send_buffer[p]) \in Seq(Requests)
  BY <1>1
<1> USE DEF TypeOK, WorkerTypeOK, Conns
<1>4. CASE GenerateHeartbeat(p)
  <2>1. Append(send_buffer[p], Heartbeat(task_command_received[p])) \in Seq(Requests)
    BY <1>1, RequestsMade, AppendProperties
  <2> QED
    BY <1>4, <2>1 DEF GenerateHeartbeat
<1>5. CASE Process(p, bucket)
  <2>1. Head(task_queue[p]) \in Tasks /\ Tail(task_queue[p]) \in Seq(Tasks)
    BY <1>2, <1>5 DEF Process, Ready
  <2>2. Append(send_buffer[p], Done(Head(task_queue[p]))) \in Seq(Requests)
    BY <1>1, <2>1, RequestsMade, AppendProperties
  <2> QED
    BY <1>5, <2>1, <2>2 DEF Process
<1>6. CASE Crash(p)
  BY <1>2, <1>6 DEF Crash, ProcessCrash, Ready
<1>7. CASE Connect(p)
  BY <1>7 DEF Connect
<1>8. CASE ClientSend(p)
  BY <1>3, <1>8, RequestsMade DEF ClientSend
<1>9. CASE ClientReceive(p)
  <2>1. Enqueued(p, wire[p]) \in Seq(Tasks)
    BY <1>1, WireFields, AppendProperties DEF Enqueued
  <2>2. Received(p, wire[p]) \in BOOLEAN
    BY <1>1 DEF Received
  <2> QED
    BY <1>9, <2>1, <2>2 DEF ClientReceive
<1>10. CASE ClientEof(p)
  BY <1>3, <1>10 DEF ClientEof
<1>11. CASE NetFail(p) \/ ServerClose(p) \/ LoseRequest(p)
  BY <1>11 DEF NetFail, ServerClose, LoseRequest
<1> QED
  BY <1>4, <1>5, <1>6, <1>7, <1>8, <1>9, <1>10, <1>11 DEF WorkerStep

\* Every step of the cluster keeps the types.
LEMMA ClusterTypeStep ==
    ASSUME TypeOK, PoolInv, [Next]_vars
    PROVE  TypeOK'
<1>0. PoolTypeOK'
  BY PoolInvInCluster DEF PoolInv
<1> USE DEF TypeOK, VMs
<1>1. CASE UNCHANGED vars
  BY <1>0, <1>1 DEF vars, workerVars, clusterVars, WorkerTypeOK
<1>2. CASE \E w \in Workers : BootWorker(w) \/ RestartWorker(w)
  BY <1>0, <1>2 DEF BootWorker, RestartWorker, workerVars, WorkerTypeOK
<1>3. CASE \E w \in Workers : KillWorker(w)
  BY <1>0, <1>3, ClusterAssumption DEF KillWorker, workerVars, WorkerTypeOK
<1>4. ASSUME NEW w \in Workers, MachineStops(w)
      PROVE  TypeOK'
  <2>1. WorkerTypeOK'
    BY <1>4 DEF MachineStops, StopInstance, WorkerTypeOK, Conns
  <2> QED
    BY <1>0, <1>4, <2>1 DEF MachineStops
<1>5. CASE AnswerNodeManager
  <2>1. im_answers' \in Seq(SUBSET Workers)
    BY <1>5 DEF AnswerNodeManager
  <2> QED
    BY <1>0, <1>5, <2>1 DEF AnswerNodeManager, workerVars, WorkerTypeOK
<1>5a. CASE ImConnectionLost
  BY <1>0, <1>5a DEF ImConnectionLost, workerVars, WorkerTypeOK
<1>6. CASE ReceiveAnswer
  BY <1>0, <1>6 DEF ReceiveAnswer, workerVars, WorkerTypeOK
<1>7. CASE PoolStep
  BY <1>0, <1>7 DEF PoolStep, workerVars, clusterVars, WorkerTypeOK
<1>8. ASSUME NEW p \in Procs, StartCommand(p)
      PROVE  TypeOK'
  BY <1>0, <1>8 DEF StartCommand, StartProcess, clusterVars, WorkerTypeOK
<1>9. ASSUME NEW p \in Procs, NEW reply \in Answers \cup {HandlerError}, Respond(p, reply),
             UNCHANGED clusterVars
      PROVE  TypeOK'
  <2>1. WorkerTypeOK'
    BY <1>9 DEF Respond, WorkerTypeOK, Conns
  <2> QED
    BY <1>0, <1>9, <2>1 DEF clusterVars
<1>10. ASSUME NEW p \in Procs, ServeHeartbeat(p) \/ ServeDone(p)
       PROVE  TypeOK'
  BY <1>9, <1>10 DEF ServeHeartbeat, ServeDone
<1>11. ASSUME NEW p \in Procs, WorkerStep(p)
       PROVE  TypeOK'
  BY <1>0, <1>11, WorkerTypeStep DEF WorkerStep, clusterVars
<1> QED
  BY <1>1, <1>2, <1>3, <1>4, <1>5, <1>5a, <1>6, <1>7, <1>8, <1>10, <1>11 DEF Next

-----------------------------------------------------------------------------
(***************************************************************************)
(* The Instance Manager's answers. A worker that the pool is about to drop *)
(* is not on, and stays so until the pool has dropped it; a worker that    *)
(* the pool knows or is told of has been on.                               *)
(***************************************************************************)
Told(w) == im_answers # <<>> /\ w \in Head(im_answers)
Untold(w) == im_answers # <<>> /\ w \notin Head(im_answers)
Gone(w) == vm[w] \in {"stopping", "off"}

\* A worker comes back only when the Node Manager has heard of its stop: one that
\* comes back unnoticed finds its old task_processing.
StopsAreHeard == ~MayMissStop

AnswersInv ==
    /\ im_answers # <<>> => beat
    /\ step = "change" => ~beat
    /\ \A w \in Workers :
        /\ w \in workers \/ Told(w) => vm[w] # "new"
        /\ w \in workers /\ Untold(w) => Gone(w)
        /\ w \in stopped_workers => Gone(w)

\* Every step keeps the answers in line with the machines.
LEMMA AnswersStep ==
    ASSUME StopsAreHeard, TypeOK, PoolInv, AnswersInv, [Next]_vars
    PROVE  AnswersInv'
<1>0. KeysAgree /\ vm \in [Workers -> VMs] /\ workers \subseteq Workers
  BY DEF TypeOK, PoolInv, PoolTypeOK
<1> USE DEF AnswersInv, Told, Untold, Gone
<1>1. CASE UNCHANGED vars
  BY <1>1 DEF vars, clusterVars, poolVars
<1>2. ASSUME NEW w \in Workers, BootWorker(w) \/ KillWorker(w) \/ MachineStops(w)
      PROVE  AnswersInv'
  BY <1>0, <1>2 DEF BootWorker, KillWorker, MachineStops, poolVars
<1>3. ASSUME NEW w \in Workers, RestartWorker(w)
      PROVE  AnswersInv'
  BY <1>0, <1>3 DEF RestartWorker, HeardOfStop, StopsAreHeard, poolVars, KeysAgree
<1>4. CASE AnswerNodeManager
  <2>1. im_answers' # <<>> /\ Head(im_answers') = {w \in Workers : vm[w] = "on"}
    BY <1>4 DEF AnswerNodeManager
  <2> QED
    BY <1>0, <1>4, <2>1 DEF AnswerNodeManager, poolVars, VMs
<1>4a. CASE ImConnectionLost
  BY <1>4a DEF ImConnectionLost, poolVars
<1>5. CASE ReceiveAnswer
  BY <1>0, <1>5 DEF ReceiveAnswer, WorkerChange
<1>6. CASE PoolStep
  <2>1. UNCHANGED <<workers, im_conn, im_answers, vm>> /\ stopped_workers' \subseteq stopped_workers
    BY <1>6 DEF PoolStep, CreateTasks, RunTaskPool, AssignTask, EndAssign, RequeueStopped,
                RegisterNewWorkers, clusterVars
  <2>2. (beat => beat') /\ (step' = "change" => step = "change" /\ beat' = beat)
    BY <1>6 DEF PoolStep, CreateTasks, RunTaskPool, AssignTask, EndAssign, RequeueStopped,
                RegisterNewWorkers
  <2> QED
    BY <2>1, <2>2
<1>7. ASSUME NEW p \in Procs,
             StartCommand(p) \/ ServeHeartbeat(p) \/ ServeDone(p) \/ WorkerStep(p)
      PROVE  AnswersInv'
  <2>1. UNCHANGED <<beat, step, workers, stopped_workers, im_conn, im_answers, vm>>
    BY <1>7 DEF StartCommand, ServeHeartbeat, ServeDone, WorkerStep, ProcessHeartbeat, ProcessDone,
                clusterVars, poolVars
  <2> QED
    BY <2>1
<1> QED
  BY <1>1, <1>2, <1>3, <1>4, <1>4a, <1>5, <1>6, <1>7 DEF Next

-----------------------------------------------------------------------------
(***************************************************************************)
(* A step of one process leaves the others alone.                          *)
(***************************************************************************)
SameProcess(q) ==
    /\ running'[q] = running[q]
    /\ task_queue'[q] = task_queue[q]
    /\ current_task'[q] = current_task[q]
    /\ send_buffer'[q] = send_buffer[q]
    /\ conn'[q] = conn[q]
    /\ wire'[q] = wire[q]

\* What one process does, or the server for it, no other process notices.
LEMMA OtherProcesses ==
    ASSUME TypeOK, NEW p \in Procs, NEW q \in Procs, q # p,
           StartCommand(p) \/ ServeHeartbeat(p) \/ ServeDone(p) \/ WorkerStep(p)
    PROVE  SameProcess(q)
<1> USE DEF SameProcess, TypeOK, WorkerTypeOK
<1>1. CASE StartCommand(p)
  BY <1>1 DEF StartCommand, StartProcess
<1>2. CASE ServeHeartbeat(p) \/ ServeDone(p)
  <2>1. PICK reply : Respond(p, reply)
    BY <1>2 DEF ServeHeartbeat, ServeDone
  <2> QED
    BY <2>1 DEF Respond
<1>3. CASE WorkerStep(p)
  <2>1. CASE GenerateHeartbeat(p) \/ Process(p, bucket) \/ Crash(p)
    BY <2>1 DEF GenerateHeartbeat, Process, Crash, ProcessCrash
  <2>2. CASE Connect(p) \/ ClientSend(p) \/ ClientReceive(p) \/ ClientEof(p)
    BY <2>2 DEF Connect, ClientSend, ClientReceive, ClientEof
  <2>3. CASE NetFail(p) \/ ServerClose(p) \/ LoseRequest(p)
    BY <2>3 DEF NetFail, ServerClose, LoseRequest
  <2> QED
    BY <1>3, <2>1, <2>2, <2>3 DEF WorkerStep
<1> QED
  BY <1>1, <1>2, <1>3

\* A machine that stops takes only its own processes with it. Their last
\* requests may still be under way.
LEMMA MachineStopsIts ==
    ASSUME TypeOK, NEW w \in Workers, MachineStops(w), NEW p \in Procs
    PROVE  /\ instance_id[p] # w => SameProcess(p) /\ vm'[instance_id[p]] = vm[instance_id[p]]
           /\ instance_id[p] = w =>
                /\ ~running'[p] /\ task_queue'[p] = <<>> /\ current_task'[p] = None
                /\ send_buffer'[p] = <<>> /\ vm'[w] = "off"
                /\ \/ conn[p] = "req" /\ conn'[p] = "req" /\ wire'[p] = wire[p]
                   \/ conn'[p] = "down"
<1>1. instance_id[p] \in Workers
  BY WorkerAssumption
<1> QED
  BY <1>1 DEF MachineStops, StopInstance, On, SameProcess, TypeOK, WorkerTypeOK

-----------------------------------------------------------------------------
(***************************************************************************)
(* The processes. One that does not run holds nothing; its last request    *)
(* may still be under way, but only while its machine is off.              *)
(***************************************************************************)
Silent(p) ==
    /\ task_queue[p] = <<>>
    /\ current_task[p] = None
    /\ send_buffer[p] = <<>>
    /\ conn[p] \in {"down", "req"}
    /\ conn[p] = "req" => vm[instance_id[p]] = "off"

ProcessesInv ==
    \A p \in Procs :
        /\ running[p] => vm[instance_id[p]] \in {"on", "stopping"}
        /\ ~running[p] => Silent(p)
        /\ conn[p] = "req" => wire[p] \in Requests

\* Every step keeps it.
LEMMA ProcessesStep ==
    ASSUME TypeOK, ProcessesInv, [Next]_vars
    PROVE  ProcessesInv'
<1>0. WorkerTypeOK /\ vm \in [Workers -> VMs] /\ \A p \in Procs : instance_id[p] \in Workers
  BY WorkerAssumption DEF TypeOK
<1> USE DEF ProcessesInv, Silent
<1>1. CASE UNCHANGED vars
  BY <1>1 DEF vars, clusterVars, workerVars
<1>2. ASSUME NEW w \in Workers, BootWorker(w) \/ KillWorker(w)
      PROVE  ProcessesInv'
  BY <1>0, <1>2 DEF BootWorker, KillWorker, workerVars
<1>3. ASSUME NEW w \in Workers, RestartWorker(w)
      PROVE  ProcessesInv'
  BY <1>0, <1>3 DEF RestartWorker, workerVars, On
<1>4. ASSUME NEW w \in Workers, MachineStops(w)
      PROVE  ProcessesInv'
  BY <1>4, MachineStopsIts DEF SameProcess
<1>5. CASE AnswerNodeManager \/ ImConnectionLost \/ ReceiveAnswer \/ PoolStep
  BY <1>5 DEF AnswerNodeManager, ImConnectionLost, ReceiveAnswer, PoolStep, clusterVars, workerVars
<1>6. ASSUME NEW p \in Procs, UNCHANGED vm,
             StartCommand(p) \/ ServeHeartbeat(p) \/ ServeDone(p) \/ WorkerStep(p),
             /\ running'[p] => vm[instance_id[p]] \in {"on", "stopping"}
             /\ ~running'[p] => Silent(p)'
             /\ conn'[p] = "req" => wire'[p] \in Requests
      PROVE  ProcessesInv'
  BY <1>6, OtherProcesses DEF SameProcess
<1>7. ASSUME NEW p \in Procs, StartCommand(p)
      PROVE  ProcessesInv'
  <2>1. /\ UNCHANGED vm /\ running'[p] /\ vm[instance_id[p]] = "on"
        /\ conn'[p] = "down"
    BY <1>0, <1>7 DEF StartCommand, StartProcess, clusterVars, WorkerTypeOK
  <2> QED
    BY <1>6, <1>7, <2>1
<1>8. ASSUME NEW p \in Procs, ServeHeartbeat(p) \/ ServeDone(p)
      PROVE  ProcessesInv'
  <2>1. PICK reply : Respond(p, reply) /\ UNCHANGED vm
    BY <1>8 DEF ServeHeartbeat, ServeDone, clusterVars
  <2>2. /\ UNCHANGED <<running, task_queue, current_task, send_buffer>>
        /\ conn'[p] # "req"
        /\ ~running[p] => conn'[p] = "down"
    BY <1>0, <2>1 DEF Respond, WorkerTypeOK
  <2> QED
    BY <1>6, <1>8, <2>1, <2>2
<1>9. ASSUME NEW p \in Procs, WorkerStep(p)
      PROVE  ProcessesInv'
  <2>1. UNCHANGED <<vm, running>>
    BY <1>9 DEF WorkerStep, clusterVars, GenerateHeartbeat, Process, Crash, ProcessCrash, Connect,
                ClientSend, ClientReceive, ClientEof, NetFail, ServerClose, LoseRequest
  <2>2. CASE LoseRequest(p)
    <3>1. conn'[p] = "down" /\ UNCHANGED <<task_queue, current_task, send_buffer>>
      BY <1>0, <2>2 DEF LoseRequest, WorkerTypeOK
    <3> QED
      BY <1>6, <1>9, <2>1, <3>1
  <2>3. CASE ~LoseRequest(p)
    <3>1. running[p]
      BY <1>9, <2>3 DEF WorkerStep, GenerateHeartbeat, Process, Crash, ProcessCrash, Ready, Connect,
                  ClientSend, ClientReceive, ClientEof, NetFail, ServerClose
    <3>2. conn'[p] = "req" => wire'[p] \in Requests
      <4>1. CASE ClientSend(p)
        <5>1. Head(send_buffer[p]) \in Requests
          BY <1>0, <4>1, HeadTailProperties DEF ClientSend, WorkerTypeOK
        <5> QED
          BY <1>0, <4>1, <5>1 DEF ClientSend, WorkerTypeOK
      <4>2. CASE ~ClientSend(p)
        <5>1. conn'[p] = "req" => conn[p] = "req" /\ wire'[p] = wire[p]
          BY <1>0, <1>9, <4>2 DEF WorkerStep, GenerateHeartbeat, Process, Crash, ProcessCrash,
             Connect, ClientReceive, ClientEof, NetFail, ServerClose, LoseRequest, WorkerTypeOK
        <5> QED
          BY <5>1
      <4> QED
        BY <4>1, <4>2
    <3> QED
      BY <1>6, <1>9, <2>1, <3>1, <3>2
  <2> QED
    BY <2>2, <2>3
<1> QED
  BY <1>1, <1>2, <1>3, <1>4, <1>5, <1>7, <1>8, <1>9 DEF Next
-----------------------------------------------------------------------------
(***************************************************************************)
(* A worker that the pool may yet come to know holds no task: its process  *)
(* has sent and received nothing but heartbeats.                           *)
(***************************************************************************)
Announced(w) == vm[w] \in {"new", "on"} \/ w \in new_workers \/ Told(w)

Clean(p) ==
    /\ task_queue[p] = <<>>
    /\ current_task[p] = None
    /\ \A i \in DOMAIN send_buffer[p] : send_buffer[p][i].kind = "heartbeat"
    /\ conn[p] \in {"req", "resp"} => wire[p].kind = "heartbeat"

FreshInv == \A p \in Procs : instance_id[p] \notin keys /\ Announced(instance_id[p]) => Clean(p)

\* A process that holds no task gets none by its own steps.
LEMMA CleanStep ==
    ASSUME TypeOK, NEW p \in Procs, WorkerStep(p), Clean(p)
    PROVE  Clean(p)'
<1>0. /\ send_buffer[p] \in Seq(Requests) /\ task_command_received[p] \in BOOLEAN
      /\ WorkerTypeOK
  BY DEF TypeOK, WorkerTypeOK
<1> USE DEF Clean
<1>1. CASE GenerateHeartbeat(p)
  <2> DEFINE buf == send_buffer[p]
             hb == Heartbeat(task_command_received[p])
  <2>1. hb \in Requests /\ hb.kind = "heartbeat"
    BY <1>0 DEF Heartbeat, Packet, Requests, Heartbeats
  <2>2. /\ DOMAIN Append(buf, hb) = 1 .. Len(buf) + 1 /\ DOMAIN buf = 1 .. Len(buf)
        /\ Append(buf, hb)[Len(buf) + 1] = hb
        /\ \A i \in 1 .. Len(buf) : Append(buf, hb)[i] = buf[i]
        /\ Len(buf) \in Nat
    <3> HIDE DEF hb
    <3> QED
      BY <1>0, <2>1
  <2> HIDE DEF hb
  <2>3. \A i \in DOMAIN Append(buf, hb) : Append(buf, hb)[i].kind = "heartbeat"
    BY <2>1, <2>2
  <2>4. send_buffer'[p] = Append(buf, hb)
    BY <1>0, <1>1 DEF GenerateHeartbeat, WorkerTypeOK, hb
  <2> QED
    BY <1>1, <2>3, <2>4 DEF GenerateHeartbeat
<1>2. CASE Process(p, bucket) \/ Crash(p)
  BY <1>2 DEF Process, Crash, Ready
<1>3. CASE ClientSend(p) \/ ClientEof(p)
  <2>1. send_buffer[p] # <<>>
    BY <1>3 DEF ClientSend, ClientEof
  <2>2. /\ Head(send_buffer[p]) = send_buffer[p][1] /\ 1 \in DOMAIN send_buffer[p]
        /\ \A i \in DOMAIN Tail(send_buffer[p]) :
             i + 1 \in DOMAIN send_buffer[p] /\ Tail(send_buffer[p])[i] = send_buffer[p][i + 1]
    BY <1>0, <2>1
  <2>3. send_buffer'[p] = Tail(send_buffer[p]) /\ UNCHANGED <<task_queue, current_task>>
    BY <1>0, <1>3 DEF ClientSend, ClientEof, WorkerTypeOK
  <2>4. wire'[p] = Head(send_buffer[p]) \/ conn'[p] = "closed"
    <3>1. CASE ClientSend(p)
      BY <1>0, <3>1 DEF ClientSend, WorkerTypeOK
    <3>2. CASE ClientEof(p)
      BY <1>0, <3>2 DEF ClientEof, WorkerTypeOK
    <3> QED
      BY <1>3, <3>1, <3>2
  <2> QED
    BY <2>2, <2>3, <2>4
<1>4. CASE ClientReceive(p)
  BY <1>0, <1>4 DEF ClientReceive, Enqueued, WorkerTypeOK
<1>5. CASE Connect(p) \/ NetFail(p) \/ ServerClose(p) \/ LoseRequest(p)
  BY <1>0, <1>5 DEF Connect, NetFail, ServerClose, LoseRequest, WorkerTypeOK
<1> QED
  BY <1>1, <1>2, <1>3, <1>4, <1>5 DEF WorkerStep

\* The pool gives tasks only to workers that it knows.
LEMMA FreshStep ==
    ASSUME TypeOK, PoolInv, AnswersInv, ProcessesInv, FreshInv, [Next]_vars
    PROVE  FreshInv'
<1>0. /\ WorkerTypeOK /\ vm \in [Workers -> VMs] /\ \A p \in Procs : instance_id[p] \in Workers
      /\ KeysAgree
  BY WorkerAssumption DEF TypeOK, PoolInv
<1> USE DEF FreshInv, Announced, Told
<1>1. CASE UNCHANGED vars
  BY <1>1 DEF vars, clusterVars, workerVars, poolVars, Clean
<1>2. ASSUME NEW w \in Workers, BootWorker(w) \/ KillWorker(w)
      PROVE  FreshInv'
  BY <1>0, <1>2 DEF BootWorker, KillWorker, workerVars, poolVars, Clean
<1>3. ASSUME NEW w \in Workers, RestartWorker(w)
      PROVE  FreshInv'
  <2>1. ASSUME NEW p \in Procs, instance_id[p] = w
        PROVE  Clean(p)'
    BY <1>3, <2>1 DEF RestartWorker, workerVars, On, ProcessesInv, Silent, Clean
  <2>2. ASSUME NEW p \in Procs, instance_id[p] # w
        PROVE  (instance_id[p] \notin keys /\ Announced(instance_id[p]) => Clean(p))'
    BY <1>0, <1>3, <2>2 DEF RestartWorker, workerVars, poolVars, Clean
  <2> QED
    BY <2>1, <2>2
<1>4. ASSUME NEW w \in Workers, MachineStops(w)
      PROVE  FreshInv'
  <2>1. UNCHANGED <<keys, new_workers, im_answers>>
    BY <1>4 DEF MachineStops, poolVars
  <2>2. ASSUME NEW p \in Procs, instance_id[p] \notin keys, Announced(instance_id[p])'
        PROVE  Clean(p)'
    <3>1. Announced(instance_id[p])
      BY <1>0, <1>4, <2>1, <2>2, MachineStopsIts
    <3> QED
      BY <1>4, <2>2, <3>1, MachineStopsIts DEF SameProcess, Clean
  <2> QED
    BY <2>1, <2>2
<1>5. CASE AnswerNodeManager
  <2>1. im_answers' # <<>> /\ Head(im_answers') = {w \in Workers : vm[w] = "on"}
    BY <1>5 DEF AnswerNodeManager
  <2> QED
    BY <1>5, <2>1 DEF AnswerNodeManager, workerVars, poolVars, Clean
<1>5a. CASE ImConnectionLost
  BY <1>5a DEF ImConnectionLost, workerVars, poolVars, Clean
<1>6. CASE ReceiveAnswer
  <2>1. UNCHANGED <<keys, vm>> /\ im_answers' = <<>> /\ \A w \in new_workers' : Told(w)
    BY <1>6 DEF ReceiveAnswer, WorkerChange, NewWorkers
  <2>2. \A p \in Procs : Clean(p)' = Clean(p)
    BY <1>6 DEF ReceiveAnswer, workerVars, Clean
  <2> QED
    BY <2>1, <2>2
<1>7. CASE PoolStep
  <2>1. /\ UNCHANGED <<vm, im_answers>> /\ new_workers' \subseteq new_workers
        /\ \A p \in Procs : Clean(p)' = Clean(p)
    BY <1>7 DEF PoolStep, CreateTasks, RunTaskPool, AssignTask, EndAssign, RequeueStopped,
                RegisterNewWorkers, clusterVars, workerVars, Clean
  <2>2. ASSUME NEW w \in keys \ keys'
        PROVE  ~Announced(w)'
    <3>1. w \in stopped_workers /\ step = "change"
      BY <1>7, <2>2 DEF PoolStep, CreateTasks, RunTaskPool, AssignTask, EndAssign, RequeueStopped,
                RegisterNewWorkers
    <3>2. Gone(w) /\ w \notin new_workers /\ im_answers = <<>>
      BY <1>0, <3>1 DEF AnswersInv, KeysAgree, TypeOK, PoolTypeOK
    <3> QED
      BY <2>1, <3>2 DEF Gone
  <2> QED
    BY <2>1, <2>2
<1>8. ASSUME NEW p \in Procs, UNCHANGED <<keys, new_workers, vm, im_answers>>,
             StartCommand(p) \/ ServeHeartbeat(p) \/ ServeDone(p) \/ WorkerStep(p),
             instance_id[p] \notin keys /\ Clean(p) => Clean(p)'
      PROVE  FreshInv'
  BY <1>8, OtherProcesses DEF SameProcess, Clean
<1>9. ASSUME NEW p \in Procs,
             StartCommand(p) \/ ServeHeartbeat(p) \/ ServeDone(p) \/ WorkerStep(p)
      PROVE  UNCHANGED <<keys, new_workers, vm, im_answers>>
  BY <1>9 DEF StartCommand, ServeHeartbeat, ServeDone, WorkerStep, ProcessHeartbeat, ProcessDone,
              clusterVars, poolVars
<1>10. ASSUME NEW p \in Procs, StartCommand(p)
       PROVE  FreshInv'
  <2>1. Clean(p) => Clean(p)'
    BY <1>10 DEF StartCommand, StartProcess, Clean
  <2> QED
    BY <1>8, <1>9, <1>10, <2>1
<1>11. ASSUME NEW p \in Procs, ServeHeartbeat(p)
       PROVE  FreshInv'
  <2>1. instance_id[p] \notin keys /\ Clean(p) => Clean(p)'
    <3>1. PICK reply : ProcessHeartbeat(instance_id[p], wire[p], reply) /\ Respond(p, reply)
      BY <1>11 DEF ServeHeartbeat
    <3>2. instance_id[p] \notin keys => reply.kind = "heartbeat"
      BY <1>11, <3>1 DEF ProcessHeartbeat, ServeHeartbeat
    <3> QED
      BY <1>0, <3>1, <3>2 DEF Respond, Clean, WorkerTypeOK
  <2> QED
    BY <1>8, <1>9, <1>11, <2>1
<1>12. ASSUME NEW p \in Procs, ServeDone(p)
       PROVE  FreshInv'
  <2>1. Clean(p) => FALSE
    BY <1>12 DEF ServeDone, Respond, Clean
  <2> QED
    BY <1>8, <1>9, <1>12, <2>1
<1>13. ASSUME NEW p \in Procs, WorkerStep(p)
       PROVE  FreshInv'
  BY <1>8, <1>9, <1>13, CleanStep
<1> QED
  BY <1>1, <1>2, <1>3, <1>4, <1>5, <1>5a, <1>6, <1>7, <1>10, <1>11, <1>12, <1>13 DEF Next
-----------------------------------------------------------------------------
(***************************************************************************)
(* What a process owes, as a function of its state, and what each of its   *)
(* steps does to it: nothing.                                              *)
(***************************************************************************)
First(c, packet) == IF c = "req" THEN Reports(<<packet>>) ELSE <<>>
Current(t) == IF t = None THEN <<>> ELSE <<t>>
UnderWay(c, packet) == IF c = "resp" /\ packet.kind = "task" THEN <<packet.task>> ELSE <<>>

Line(c, packet, buffer, t, queue) ==
    InLine(First(c, packet), Reports(buffer), Current(t), queue, UnderWay(c, packet))

\* The five deques are deques of tasks.
LEMMA LineTypes ==
    /\ \A s \in Seq(Requests) : Reports(s) \in Seq(Tasks)
    /\ \A t \in Tasks \cup {None} : Current(t) \in Seq(Tasks)
    /\ \A c, packet : First(c, packet) = <<>> \/ c = "req"
    /\ \A packet \in Requests : First("req", packet) \in Seq(Tasks)
    /\ \A packet \in Answers \cup {NoPacket} : \A c : UnderWay(c, packet) \in Seq(Tasks)
    /\ Reports(<<>>) = <<>>
<1>1. \A s \in Seq(Requests) : Reports(s) \in Seq(Tasks)
  BY RequestsMade, ReportsAppend
<1>2. \A t \in Tasks \cup {None} : Current(t) \in Seq(Tasks)
  BY DEF Current
<1>3. ASSUME NEW packet \in Requests
      PROVE  First("req", packet) \in Seq(Tasks)
  <2>1. <<packet>> \in Seq(Requests)
    OBVIOUS
  <2>2. Reports(<<packet>>) \in Seq(Tasks)
    BY <1>1, <2>1, Zenon
  <2> QED
    BY <2>2 DEF First
<1>4. \A packet \in Answers \cup {NoPacket} : \A c : UnderWay(c, packet) \in Seq(Tasks)
  BY WireFields DEF UnderWay
<1>5. Reports(<<>>) = <<>>
  <2>1. Heartbeat(TRUE) \in Requests
    BY RequestsMade, Zenon
  <2>2. <<>> \in Seq(Requests)
    OBVIOUS
  <2> QED
    BY <2>1, <2>2, ReportsAppend
<1> QED
  BY <1>1, <1>2, <1>3, <1>4, <1>5 DEF First

\* What one packet on the wire reports.
LEMMA FirstOf ==
    ASSUME NEW packet \in Requests
    PROVE  /\ packet.kind = "heartbeat" => First("req", packet) = <<>>
           /\ packet.kind = "done" => First("req", packet) = <<packet.task>>
           /\ \A c : UnderWay(c, packet) = <<>>
<1>1. <<packet>> = Append(<<>>, packet) /\ <<>> \in Seq(Requests)
  OBVIOUS
<1>2. Reports(<<packet>>) = WithReport(Reports(<<>>), packet) /\ Reports(<<>>) = <<>>
  BY <1>1, ReportsAppend
<1>3. packet.kind = "done" => Append(<<>>, packet.task) = <<packet.task>>
  BY RequestFields
<1> QED
  BY <1>2, <1>3, RequestFields DEF First, UnderWay, WithReport

\* heartbeat(): a heartbeat reports nothing.
LEMMA LineHeartbeat ==
    ASSUME NEW c, NEW packet, NEW buffer \in Seq(Requests), NEW t, NEW queue,
           NEW b \in BOOLEAN
    PROVE  Line(c, packet, Append(buffer, Heartbeat(b)), t, queue)
           = Line(c, packet, buffer, t, queue)
<1>1. Heartbeat(b) \in Requests /\ Heartbeat(b).kind = "heartbeat"
  BY RequestsMade DEF Heartbeat, Packet
<1>2. Reports(Append(buffer, Heartbeat(b))) = WithReport(Reports(buffer), Heartbeat(b))
  BY <1>1, ReportsAppend
<1>3. WithReport(Reports(buffer), Heartbeat(b)) = Reports(buffer)
  BY <1>1 DEF WithReport
<1> QED
  BY <1>2, <1>3 DEF Line

\* process(): the task goes from the queue to the reports.
LEMMA LineOfProcess ==
    ASSUME NEW c \in Conns, NEW packet \in Answers \cup {NoPacket}, c = "req" => packet \in Requests,
           NEW buffer \in Seq(Requests), NEW queue \in Seq(Tasks), queue # <<>>
    PROVE  /\ Line(c, packet, Append(buffer, Done(Head(queue))), None, Tail(queue))
                = Line(c, packet, buffer, None, queue)
           /\ Line(c, packet, buffer, Head(queue), Tail(queue))
                = Line(c, packet, buffer, None, queue)
<1>1. Head(queue) \in Tasks
  BY HeadInFront
<1>2. /\ First(c, packet) \in Seq(Tasks) /\ UnderWay(c, packet) \in Seq(Tasks)
      /\ Reports(buffer) \in Seq(Tasks)
  <2>1. <<>> \in Seq(Tasks)
    OBVIOUS
  <2> QED
    BY <2>1, LineTypes
<1>3. Done(Head(queue)) \in Requests /\ Done(Head(queue)).kind = "done" /\ Done(Head(queue)).task = Head(queue)
  BY <1>1, RequestsMade DEF Done, Packet
<1>4. Reports(Append(buffer, Done(Head(queue)))) = WithReport(Reports(buffer), Done(Head(queue)))
  BY <1>3, ReportsAppend
<1>5. WithReport(Reports(buffer), Done(Head(queue))) = Append(Reports(buffer), Head(queue))
  BY <1>3 DEF WithReport
<1>6. Current(None) = <<>> /\ Current(Head(queue)) = <<Head(queue)>>
  BY <1>1, NoneAssumption DEF Current
<1>7. Line(c, packet, Append(buffer, Done(Head(queue))), None, Tail(queue))
        = Line(c, packet, buffer, None, queue)
  <2> DEFINE f == First(c, packet)
             g == UnderWay(c, packet)
             r == Reports(buffer)
  <2>1. InLine(f, Append(r, Head(queue)), <<>>, Tail(queue), g) = InLine(f, r, <<>>, queue, g)
    <3> HIDE DEF f, g, r
    <3>1. f \in Seq(Tasks) /\ g \in Seq(Tasks) /\ r \in Seq(Tasks)
      BY <1>2 DEF f, g, r
    <3> QED
      BY <3>1, LineProcess
  <2> QED
    BY <1>4, <1>5, <1>6, <2>1 DEF Line
<1>8. Line(c, packet, buffer, Head(queue), Tail(queue)) = Line(c, packet, buffer, None, queue)
  <2> DEFINE f == First(c, packet)
             g == UnderWay(c, packet)
             r == Reports(buffer)
  <2>1. InLine(f, r, <<Head(queue)>>, Tail(queue), g) = InLine(f, r, <<>>, queue, g)
    <3> HIDE DEF f, g, r
    <3>1. f \in Seq(Tasks) /\ g \in Seq(Tasks) /\ r \in Seq(Tasks)
      BY <1>2 DEF f, g, r
    <3> QED
      BY <3>1, LineCrash
  <2> QED
    BY <1>6, <2>1 DEF Line
<1> QED
  BY <1>7, <1>8

\* run(): the oldest packet of the buffer goes on the wire.
LEMMA LineOfSend ==
    ASSUME NEW packet, NEW buffer \in Seq(Requests), buffer # <<>>,
           NEW t \in Tasks \cup {None}, NEW queue \in Seq(Tasks)
    PROVE  Line("req", Head(buffer), Tail(buffer), t, queue) = Line("idle", packet, buffer, t, queue)
<1>1. Head(buffer) \in Requests /\ Tail(buffer) \in Seq(Requests)
  OBVIOUS
<1>2. First("req", Head(buffer)) \in Seq(Tasks) /\ Reports(Tail(buffer)) \in Seq(Tasks)
  BY <1>1, LineTypes
<1>3. Reports(buffer) = First("req", Head(buffer)) \o Reports(Tail(buffer))
  BY ReportsHead DEF First
<1>4. <<>> \o Reports(buffer) = Reports(buffer)
  BY LineTypes, ConcatFacts
<1>5. First("idle", packet) = <<>> /\ UnderWay("idle", packet) = <<>> /\ UnderWay("req", Head(buffer)) = <<>>
  BY DEF First, UnderWay
<1> QED
  BY <1>3, <1>4, <1>5, Zenon DEF Line, InLine

\* A queue with the task of a packet, if it carries one.
WithTask(queue, packet) == IF packet.kind = "task" THEN Append(queue, packet.task) ELSE queue

\* run(): a task command enters the queue; an acknowledgement changes nothing.
LEMMA LineOfReceive ==
    ASSUME NEW packet \in Answers \cup {NoPacket}, NEW buffer \in Seq(Requests),
           NEW t \in Tasks \cup {None}, NEW queue \in Seq(Tasks), NEW next
    PROVE  Line("idle", next, buffer, t, WithTask(queue, packet))
           = Line("resp", packet, buffer, t, queue)
<1> DEFINE b == Reports(buffer)
           c == Current(t)
<1>1. b \in Seq(Tasks) /\ c \in Seq(Tasks)
  BY LineTypes
<1>2. First("idle", next) = <<>> /\ First("resp", packet) = <<>> /\ UnderWay("idle", next) = <<>>
  BY DEF First, UnderWay
<1>3. CASE packet.kind = "task"
  <2>1. packet.task \in Tasks
    BY <1>3, WireFields
  <2>2. UnderWay("resp", packet) = <<packet.task>>
    BY <1>3 DEF UnderWay
  <2>3. InLine(<<>>, b, c, Append(queue, packet.task), <<>>) = InLine(<<>>, b, c, queue, <<packet.task>>)
    <3> HIDE DEF b, c
    <3> QED
      BY <1>1, <2>1, LineGive
  <2> QED
    BY <1>2, <1>3, <2>2, <2>3 DEF Line, WithTask
<1>4. CASE packet.kind # "task"
  <2>1. UnderWay("resp", packet) = <<>>
    BY <1>4 DEF UnderWay
  <2> QED
    BY <1>2, <1>4, <2>1 DEF Line, WithTask
<1> QED
  BY <1>3, <1>4

\* The server sends a request back: a reported task was the oldest one owed,
\* and is owed no more.
LEMMA LineOfServe ==
    ASSUME NEW packet \in Requests, NEW buffer \in Seq(Requests),
           NEW t \in Tasks \cup {None}, NEW queue \in Seq(Tasks)
    PROVE  /\ packet.kind = "heartbeat" =>
                Line("resp", packet, buffer, t, queue) = Line("req", packet, buffer, t, queue)
           /\ packet.kind = "done" =>
                /\ Line("req", packet, buffer, t, queue) # <<>>
                /\ Head(Line("req", packet, buffer, t, queue)) = packet.task
                /\ Line("resp", packet, buffer, t, queue) = Tail(Line("req", packet, buffer, t, queue))
<1> DEFINE b == Reports(buffer)
           c == Current(t)
           rest == InLine(<<>>, b, c, queue, <<>>)
<1>1. b \in Seq(Tasks) /\ c \in Seq(Tasks)
  BY LineTypes
<1>2. First("resp", packet) = <<>> /\ UnderWay("resp", packet) = <<>> /\ UnderWay("req", packet) = <<>>
  BY FirstOf DEF First
<1>3. Line("resp", packet, buffer, t, queue) = rest
  BY <1>2 DEF Line
<1>4. Line("req", packet, buffer, t, queue) = InLine(First("req", packet), b, c, queue, <<>>)
  BY <1>2 DEF Line
<1> HIDE DEF b, c
<1>5. \A t1 \in Tasks :
        /\ InLine(<<t1>>, b, c, queue, <<>>) # <<>>
        /\ Head(InLine(<<t1>>, b, c, queue, <<>>)) = t1
        /\ Tail(InLine(<<t1>>, b, c, queue, <<>>)) = rest
  BY <1>1, LineDone, Zenon
<1> HIDE DEF rest
<1>6. CASE packet.kind = "heartbeat"
  <2>1. First("req", packet) = <<>>
    BY <1>6, FirstOf
  <2> QED
    BY <1>3, <1>4, <1>6, <2>1 DEF rest
<1>7. CASE packet.kind = "done"
  <2>1. packet.task \in Tasks /\ First("req", packet) = <<packet.task>>
    BY <1>7, FirstOf, RequestFields
  <2> QED
    BY <1>3, <1>4, <1>5, <1>7, <2>1
<1> QED
  BY <1>6, <1>7

\* The server hands out a task instead: it is owed after all others.
LEMMA LineOfCommand ==
    ASSUME NEW packet \in Requests, NEW buffer \in Seq(Requests),
           NEW t \in Tasks \cup {None}, NEW queue \in Seq(Tasks), NEW u \in Tasks
    PROVE  Line("resp", TaskCommand(u), buffer, t, queue)
           = Append(Line("resp", packet, buffer, t, queue), u)
<1> DEFINE b == Reports(buffer)
           c == Current(t)
<1>1. b \in Seq(Tasks) /\ c \in Seq(Tasks)
  BY LineTypes
<1>2. First("resp", packet) = <<>> /\ UnderWay("resp", packet) = <<>>
  BY FirstOf DEF First
<1>3. First("resp", TaskCommand(u)) = <<>> /\ UnderWay("resp", TaskCommand(u)) = <<u>>
  BY DEF First, UnderWay, TaskCommand, Packet
<1>4. Line("resp", packet, buffer, t, queue) = InLine(<<>>, b, c, queue, <<>>)
  BY <1>2 DEF Line
<1>5. Line("resp", TaskCommand(u), buffer, t, queue) = InLine(<<>>, b, c, queue, <<u>>)
  BY <1>3 DEF Line
<1> HIDE DEF b, c
<1>6. Append(InLine(<<>>, b, c, queue, <<>>), u) = InLine(<<>>, b, c, queue, <<u>>)
  BY <1>1, LineGive
<1> QED
  BY <1>4, <1>5, <1>6

-----------------------------------------------------------------------------
(***************************************************************************)
(* What a process owes, in a state of the cluster.                         *)
(***************************************************************************)
Live == {"down", "idle", "req", "resp"}

OwedNow(p) == Line(conn[p], wire[p], send_buffer[p], current_task[p], task_queue[p])

\* Owed is the line of the five deques.
LEMMA OwedIsLine == \A p : Owed(p) = OwedNow(p)
  BY DEF Owed, OwedNow, Line, InLine, First, Current, UnderWay

\* A process that holds no task owes none.
LEMMA CleanOwesNothing ==
    ASSUME TypeOK, ProcessesInv, NEW p \in Procs, Clean(p)
    PROVE  OwedNow(p) = <<>>
<1>1. send_buffer[p] \in Seq(Requests)
  BY DEF TypeOK, WorkerTypeOK
<1>2. Reports(send_buffer[p]) = <<>>
  BY <1>1, ReportsNone DEF Clean
<1>3. conn[p] = "req" => wire[p] \in Requests /\ wire[p].kind = "heartbeat"
  BY DEF ProcessesInv, Clean
<1>4. First(conn[p], wire[p]) = <<>>
  BY <1>3, FirstOf DEF First
<1>5. UnderWay(conn[p], wire[p]) = <<>> /\ Current(current_task[p]) = <<>> /\ task_queue[p] = <<>>
  BY DEF UnderWay, Current, Clean
<1>6. <<>> \in Seq(Tasks) /\ InLine(<<>>, <<>>, <<>>, <<>>, <<>>) = <<>>
  BY DEF InLine
<1> QED
  BY <1>2, <1>4, <1>5, <1>6 DEF OwedNow, Line

\* Whatever a process does by itself, it owes the same as before as long as
\* its connection is in order.
LEMMA OwedKept ==
    ASSUME TypeOK, ProcessesInv, NEW p \in Procs, WorkerStep(p), running[p], conn'[p] \in Live
    PROVE  conn[p] \in Live /\ OwedNow(p)' = OwedNow(p)
<1>0. /\ WorkerTypeOK /\ conn[p] \in Conns /\ wire[p] \in Answers \cup {NoPacket}
      /\ send_buffer[p] \in Seq(Requests) /\ task_queue[p] \in Seq(Tasks)
      /\ current_task[p] \in Tasks \cup {None} /\ task_command_received[p] \in BOOLEAN
      /\ conn[p] = "req" => wire[p] \in Requests
  BY DEF TypeOK, WorkerTypeOK, ProcessesInv
<1> USE DEF OwedNow, Live
<1>1. CASE GenerateHeartbeat(p)
  <2>1. /\ send_buffer'[p] = Append(send_buffer[p], Heartbeat(task_command_received[p]))
        /\ UNCHANGED <<conn, wire, task_queue, current_task>>
    BY <1>0, <1>1 DEF GenerateHeartbeat, WorkerTypeOK
  <2> QED
    BY <1>0, <2>1, LineHeartbeat
<1>2. CASE Process(p, bucket)
  <2>1. /\ send_buffer'[p] = Append(send_buffer[p], Done(Head(task_queue[p])))
        /\ task_queue'[p] = Tail(task_queue[p]) /\ task_queue[p] # <<>>
        /\ current_task[p] = None
        /\ UNCHANGED <<conn, wire, current_task>>
    BY <1>0, <1>2 DEF Process, Ready, WorkerTypeOK
  <2>2. Line(conn[p], wire[p], Append(send_buffer[p], Done(Head(task_queue[p]))), None,
             Tail(task_queue[p]))
        = Line(conn[p], wire[p], send_buffer[p], None, task_queue[p])
    BY <1>0, <2>1, LineOfProcess
  <2> QED
    BY <2>1, <2>2
<1>3. CASE Crash(p)
  <2>1. /\ current_task'[p] = Head(task_queue[p])
        /\ task_queue'[p] = Tail(task_queue[p]) /\ task_queue[p] # <<>>
        /\ current_task[p] = None
        /\ UNCHANGED <<conn, wire, send_buffer>>
    BY <1>0, <1>3 DEF Crash, ProcessCrash, Ready, WorkerTypeOK
  <2>2. Line(conn[p], wire[p], send_buffer[p], Head(task_queue[p]), Tail(task_queue[p]))
        = Line(conn[p], wire[p], send_buffer[p], None, task_queue[p])
    BY <1>0, <2>1, LineOfProcess
  <2> QED
    BY <2>1, <2>2
<1>4. CASE Connect(p)
  <2>1. conn[p] = "down" /\ conn'[p] = "idle" /\ UNCHANGED <<wire, send_buffer, task_queue, current_task>>
    BY <1>0, <1>4 DEF Connect, WorkerTypeOK
  <2> QED
    BY <2>1 DEF Line, First, UnderWay
<1>5. CASE ClientSend(p)
  <2>1. /\ conn[p] = "idle" /\ conn'[p] = "req" /\ wire'[p] = Head(send_buffer[p])
        /\ send_buffer'[p] = Tail(send_buffer[p]) /\ send_buffer[p] # <<>>
        /\ UNCHANGED <<task_queue, current_task>>
    BY <1>0, <1>5 DEF ClientSend, WorkerTypeOK
  <2> QED
    BY <1>0, <2>1, LineOfSend
<1>6. CASE ClientReceive(p)
  <2>1. /\ conn[p] = "resp" /\ conn'[p] = "idle"
        /\ task_queue'[p] = WithTask(task_queue[p], wire[p])
        /\ UNCHANGED <<send_buffer, current_task>>
    BY <1>0, <1>6 DEF ClientReceive, Enqueued, WithTask, WorkerTypeOK
  <2>2. Line("idle", wire'[p], send_buffer[p], current_task[p], WithTask(task_queue[p], wire[p]))
        = Line("resp", wire[p], send_buffer[p], current_task[p], task_queue[p])
    <3>1. /\ wire[p] \in Answers \cup {NoPacket} /\ send_buffer[p] \in Seq(Requests)
          /\ current_task[p] \in Tasks \cup {None} /\ task_queue[p] \in Seq(Tasks)
      BY <1>0
    <3> QED
      BY <3>1, LineOfReceive, Zenon
  <2> QED
    BY <2>1, <2>2
<1>7. CASE ClientEof(p) \/ NetFail(p) \/ ServerClose(p) \/ LoseRequest(p)
  BY <1>0, <1>7 DEF ClientEof, NetFail, ServerClose, LoseRequest, WorkerTypeOK
<1> QED
  BY <1>1, <1>2, <1>3, <1>4, <1>5, <1>6, <1>7 DEF WorkerStep
-----------------------------------------------------------------------------
(***************************************************************************)
(* Both sides agree. The premise is that no two processes share an         *)
(* instance: a repeated start command may create a second one, and the     *)
(* agreement is then lost.                                                 *)
(***************************************************************************)
OneProcess == \A p, q \in Procs : instance_id[p] = instance_id[q] => p = q

Matched(p) ==
    instance_id[p] \in keys =>
        /\ running[p] /\ conn[p] \in Live => task_processing[instance_id[p]] = OwedNow(p)
        /\ ~running[p] /\ conn[p] = "req" /\ wire[p].kind = "done" =>
             /\ task_processing[instance_id[p]] # <<>>
             /\ Head(task_processing[instance_id[p]]) = wire[p].task
        /\ ~running[p] /\ vm[instance_id[p]] = "on" => task_processing[instance_id[p]] = <<>>

MatchedInv == \A p \in Procs : Matched(p)

\* Nothing that Matched(p) speaks of changes.
LEMMA MatchedFrame ==
    ASSUME NEW p \in Procs, Matched(p), SameProcess(p),
           instance_id[p] \in keys' =>
              /\ instance_id[p] \in keys
              /\ task_processing'[instance_id[p]] = task_processing[instance_id[p]]
              /\ vm'[instance_id[p]] = "on" => vm[instance_id[p]] = "on"
    PROVE  Matched(p)'
  BY DEF Matched, SameProcess, OwedNow

\* A request of a known process that reports a task: that task is the oldest.
LEMMA ReportIsOldest ==
    ASSUME TypeOK, ProcessesInv, NEW p \in Procs, Matched(p), instance_id[p] \in keys,
           conn[p] = "req", wire[p].kind = "done"
    PROVE  /\ task_processing[instance_id[p]] # <<>>
           /\ Head(task_processing[instance_id[p]]) = wire[p].task
<1>1. CASE ~running[p]
  BY <1>1 DEF Matched
<1>2. CASE running[p]
  <2>1. /\ wire[p] \in Requests /\ send_buffer[p] \in Seq(Requests)
        /\ current_task[p] \in Tasks \cup {None} /\ task_queue[p] \in Seq(Tasks)
    BY DEF TypeOK, WorkerTypeOK, ProcessesInv
  <2>2. wire[p].task \in Tasks
    BY <2>1, RequestFields
  <2>3. task_processing[instance_id[p]]
          = Line("req", wire[p], send_buffer[p], current_task[p], task_queue[p])
    BY <1>2 DEF Matched, Live, OwedNow
  <2>4. /\ Line("req", wire[p], send_buffer[p], current_task[p], task_queue[p]) # <<>>
        /\ Head(Line("req", wire[p], send_buffer[p], current_task[p], task_queue[p])) = wire[p].task
    BY <2>1, LineOfServe
  <2> QED
    BY <2>3, <2>4
<1> QED
  BY <1>1, <1>2

\* The server handles a request of p: what it records and what p owes change
\* in the same way.
LEMMA MatchedServed ==
    ASSUME TypeOK, PoolInv, ProcessesInv, NEW p \in Procs, Matched(p),
           ServeHeartbeat(p) \/ ServeDone(p)
    PROVE  Matched(p)'
<1> DEFINE w == instance_id[p]
<1>0. /\ w \in Workers /\ wire[p] \in Requests /\ send_buffer[p] \in Seq(Requests)
      /\ current_task[p] \in Tasks \cup {None} /\ task_queue[p] \in Seq(Tasks)
      /\ conn[p] = "req" /\ WorkerTypeOK /\ task_processing \in [Workers -> Seq(Tasks)]
  BY WorkerAssumption DEF TypeOK, WorkerTypeOK, PoolTypeOK, ProcessesInv, ServeHeartbeat, ServeDone,
     Respond
<1>1. UNCHANGED <<keys, vm, running, send_buffer, current_task, task_queue>>
  BY DEF ServeHeartbeat, ServeDone, ProcessHeartbeat, ProcessDone, Respond, clusterVars
<1>2. CASE ~running[p]
  <2>1. conn'[p] = "down" /\ vm[w] = "off"
    BY <1>0, <1>2 DEF ServeHeartbeat, ServeDone, Respond, ProcessesInv, Silent, WorkerTypeOK
  <2> QED
    BY <1>1, <1>2, <2>1 DEF Matched
<1>3. CASE w \notin keys
  BY <1>1, <1>3 DEF Matched
<1> DEFINE given(x) == Line("resp", x, send_buffer[p], current_task[p], task_queue[p])
<1>4. ASSUME running[p], w \in keys, NEW reply, Respond(p, reply),
             reply = HandlerError \/ task_processing'[w] = given(reply)
      PROVE  Matched(p)'
  <2>1. CASE reply = HandlerError
    <3>1. conn'[p] = "closed"
      BY <1>0, <1>4, <2>1 DEF Respond, WorkerTypeOK
    <3> QED
      BY <1>1, <1>4, <3>1 DEF Matched, Live
  <2>2. CASE reply # HandlerError
    <3>1. conn'[p] = "resp" /\ wire'[p] = reply
      BY <1>0, <1>4, <2>2 DEF Respond, WorkerTypeOK
    <3>2. OwedNow(p)' = given(reply)
      BY <1>1, <3>1 DEF OwedNow
    <3> QED
      BY <1>1, <1>4, <2>2, <3>1, <3>2 DEF Matched
  <2> QED
    BY <2>1, <2>2
<1>5. running[p] /\ w \in keys
        => task_processing[w] = Line("req", wire[p], send_buffer[p], current_task[p], task_queue[p])
  BY <1>0 DEF Matched, Live, OwedNow
<1>6. ASSUME running[p], w \in keys, ServeHeartbeat(p)
      PROVE  Matched(p)'
  <2>1. PICK reply \in Answers : ProcessHeartbeat(w, wire[p], reply) /\ Respond(p, reply)
    BY <1>6 DEF ServeHeartbeat
  <2>2. wire[p].kind = "heartbeat"
    BY <1>6 DEF ServeHeartbeat
  <2>3. given(wire[p]) = task_processing[w]
    BY <1>0, <1>5, <1>6, <2>2, LineOfServe
  <2>4. CASE reply = wire[p] /\ UNCHANGED task_processing
    BY <1>4, <1>6, <2>1, <2>4, <2>3
  <2>5. ASSUME NEW t \in Tasks, reply = TaskCommand(t),
               task_processing' = [task_processing EXCEPT ![w] = Append(task_processing[w], t)]
        PROVE  Matched(p)'
    <3>1. given(TaskCommand(t)) = Append(task_processing[w], t)
      <4>1. given(TaskCommand(t)) = Append(given(wire[p]), t)
        BY <1>0, LineOfCommand
      <4> QED
        BY <2>3, <4>1
    <3>2. task_processing'[w] = Append(task_processing[w], t)
      BY <1>0, <2>5
    <3> QED
      BY <1>4, <1>6, <2>1, <2>5, <3>1, <3>2
  <2> QED
    BY <1>6, <2>1, <2>4, <2>5 DEF ProcessHeartbeat, GiveOwn, StealTask
<1>7. ASSUME running[p], w \in keys, ServeDone(p)
      PROVE  Matched(p)'
  <2>1. PICK reply \in Answers \cup {HandlerError} :
            ProcessDone(w, wire[p], reply) /\ Respond(p, reply)
    BY <1>7 DEF ServeDone
  <2>2. /\ wire[p].kind = "done" /\ w \in workers
    BY <1>7, <2>1 DEF ServeDone, ProcessDone, PoolInv, KeysAgree
  <2>3. wire[p].task \in Tasks
    BY <1>0, <2>2, RequestFields
  <2>4. given(wire[p]) = Rest(w) /\ \A u \in Tasks : given(TaskCommand(u)) = Append(Rest(w), u)
    <3> DEFINE owed == Line("req", wire[p], send_buffer[p], current_task[p], task_queue[p])
    <3>1. given(wire[p]) = Tail(owed)
      BY <1>0, <2>2, LineOfServe
    <3>2. Rest(w) = Tail(owed)
      BY <1>5, <1>7 DEF Rest
    <3>3. \A u \in Tasks : given(TaskCommand(u)) = Append(given(wire[p]), u)
      BY <1>0, LineOfCommand
    <3> HIDE DEF given, owed
    <3> QED
      BY <3>1, <3>2, <3>3
  <2>5. CASE reply = HandlerError
    BY <1>4, <1>7, <2>1, <2>5
  <2>6. CASE reply = wire[p] /\ task_processing' = [task_processing EXCEPT ![w] = Rest(w)]
    <3>1. task_processing'[w] = Rest(w)
      BY <1>0, <2>6
    <3> QED
      BY <1>4, <1>7, <2>1, <2>4, <2>6, <3>1
  <2>7. ASSUME NEW u \in Tasks, reply = TaskCommand(u),
               task_processing' = [task_processing EXCEPT ![w] = Append(Rest(w), u)]
        PROVE  Matched(p)'
    <3>1. task_processing'[w] = Append(Rest(w), u)
      BY <1>0, <2>7
    <3> QED
      BY <1>4, <1>7, <2>1, <2>4, <2>7, <3>1
  <2> QED
    BY <2>1, <2>2, <2>5, <2>6, <2>7 DEF ProcessDone, GiveOwn, StealTask
<1> QED
  BY <1>2, <1>3, <1>6, <1>7

\* Every step keeps both sides in agreement.
LEMMA MatchedStep ==
    ASSUME OneProcess, StopsAreHeard, TypeOK, PoolInv, AnswersInv, ProcessesInv, FreshInv,
           MatchedInv, [Next]_vars
    PROVE  MatchedInv'
<1>0. /\ WorkerTypeOK /\ vm \in [Workers -> VMs] /\ KeysAgree
      /\ task_processing \in [Workers -> Seq(Tasks)]
      /\ \A p \in Procs : instance_id[p] \in Workers /\ Matched(p)
  BY WorkerAssumption DEF TypeOK, PoolTypeOK, PoolInv, MatchedInv
<1>1. ASSUME \A p \in Procs : SameProcess(p), UNCHANGED task_processing,
             \A w \in keys' : w \in keys /\ (vm'[w] = "on" => vm[w] = "on")
      PROVE  MatchedInv'
  BY <1>0, <1>1, MatchedFrame DEF MatchedInv
<1>2. ASSUME UNCHANGED workerVars
      PROVE  \A p \in Procs : SameProcess(p)
  BY <1>2 DEF workerVars, SameProcess
<1>3. CASE UNCHANGED vars
  BY <1>1, <1>2, <1>3 DEF vars, poolVars, clusterVars
<1>4. ASSUME NEW w \in Workers, BootWorker(w)
      PROVE  MatchedInv'
  <2>1. w \notin keys
    BY <1>0, <1>4 DEF BootWorker, KeysAgree, AnswersInv, Gone
  <2> QED
    BY <1>0, <1>1, <1>2, <1>4, <2>1 DEF BootWorker, poolVars
<1>5. ASSUME NEW w \in Workers, RestartWorker(w)
      PROVE  MatchedInv'
  <2>1. w \notin keys
    BY <1>0, <1>5 DEF RestartWorker, HeardOfStop, StopsAreHeard, AnswersInv, KeysAgree
  <2> QED
    BY <1>0, <1>1, <1>2, <1>5, <2>1 DEF RestartWorker, poolVars
<1>6. ASSUME NEW w \in Workers, KillWorker(w)
      PROVE  MatchedInv'
  BY <1>0, <1>1, <1>2, <1>6 DEF KillWorker, poolVars
<1>7. ASSUME NEW w \in Workers, MachineStops(w)
      PROVE  MatchedInv'
  <2>1. UNCHANGED <<keys, task_processing>>
    BY <1>7 DEF MachineStops, poolVars
  <2>2. ASSUME NEW p \in Procs, instance_id[p] # w
        PROVE  Matched(p)'
    BY <1>0, <1>7, <2>1, <2>2, MachineStopsIts, MatchedFrame
  <2>3. ASSUME NEW p \in Procs, instance_id[p] = w
        PROVE  Matched(p)'
    <3>1. /\ ~running'[p] /\ vm'[w] = "off"
          /\ conn'[p] = "req" => conn[p] = "req" /\ wire'[p] = wire[p]
      BY <1>7, <2>3, MachineStopsIts
    <3> QED
      BY <1>0, <2>1, <2>3, <3>1, ReportIsOldest DEF Matched
  <2> QED
    BY <2>2, <2>3 DEF MatchedInv
<1>8. CASE AnswerNodeManager \/ ImConnectionLost \/ ReceiveAnswer
  BY <1>1, <1>2, <1>8 DEF AnswerNodeManager, ImConnectionLost, ReceiveAnswer, WorkerChange, poolVars
<1>9. CASE PoolStep
  <2>0. UNCHANGED <<workerVars, vm>> /\ \A p \in Procs : SameProcess(p)
    BY <1>2, <1>9 DEF PoolStep, clusterVars
  <2>1. CASE CreateTasks \/ RunTaskPool \/ AssignTask \/ EndAssign
    BY <1>1, <2>0, <2>1 DEF CreateTasks, RunTaskPool, AssignTask, EndAssign
  <2>2. ASSUME NEW w \in Workers, RequeueStopped(w)
        PROVE  MatchedInv'
    BY <1>0, <2>0, <2>2, MatchedFrame DEF RequeueStopped, MatchedInv
  <2>3. CASE RegisterNewWorkers
    <3>1. ASSUME NEW p \in Procs, instance_id[p] \in new_workers
          PROVE  Matched(p)'
      <4>1. Clean(p)
        BY <1>0, <3>1 DEF FreshInv, Announced, KeysAgree
      <4>2. OwedNow(p) = <<>>
        BY <4>1, CleanOwesNothing
      <4>3. OwedNow(p)' = OwedNow(p)
        BY <2>0 DEF OwedNow, workerVars
      <4>4. task_processing'[instance_id[p]] = <<>>
        BY <1>0, <2>3, <3>1 DEF RegisterNewWorkers
      <4>5. conn'[p] = "req" => wire'[p].kind # "done"
        BY <2>0, <4>1 DEF Clean, workerVars
      <4> QED
        BY <4>2, <4>3, <4>4, <4>5 DEF Matched
    <3>2. ASSUME NEW p \in Procs, instance_id[p] \notin new_workers
          PROVE  Matched(p)'
      BY <1>0, <2>0, <2>3, <3>2, MatchedFrame DEF RegisterNewWorkers
    <3> QED
      BY <3>1, <3>2 DEF MatchedInv
  <2> QED
    BY <1>9, <2>1, <2>2, <2>3 DEF PoolStep
<1>10. ASSUME NEW p \in Procs, Matched(p)', UNCHANGED <<keys, vm>>,
              \A w \in Workers : w # instance_id[p] => task_processing'[w] = task_processing[w],
              StartCommand(p) \/ ServeHeartbeat(p) \/ ServeDone(p) \/ WorkerStep(p)
       PROVE  MatchedInv'
  <2>1. ASSUME NEW q \in Procs, q # p
        PROVE  Matched(q)'
    <3>1. instance_id[q] # instance_id[p]
      BY <2>1 DEF OneProcess
    <3>2. SameProcess(q)
      BY <1>10, <2>1, OtherProcesses
    <3> QED
      BY <1>0, <1>10, <3>1, <3>2, MatchedFrame
  <2> QED
    BY <1>10, <2>1 DEF MatchedInv
<1>11. ASSUME NEW p \in Procs, StartCommand(p)
       PROVE  MatchedInv'
  <2>1. /\ UNCHANGED <<task_processing, keys, vm, task_queue, current_task, send_buffer, conn, wire>>
        /\ ~running[p] /\ running'[p] /\ conn[p] = "down" /\ vm[instance_id[p]] = "on"
    BY <1>0, <1>11 DEF StartCommand, StartProcess, poolVars, clusterVars, WorkerTypeOK
  <2>2. Clean(p)
    BY <2>1 DEF ProcessesInv, Silent, Clean
  <2>3. OwedNow(p)' = <<>>
    BY <2>1, <2>2, CleanOwesNothing DEF OwedNow
  <2>4. Matched(p)'
    BY <1>0, <2>1, <2>3 DEF Matched
  <2> QED
    BY <1>10, <1>11, <2>1, <2>4
<1>12. ASSUME NEW p \in Procs, ServeHeartbeat(p) \/ ServeDone(p)
       PROVE  MatchedInv'
  <2>1. /\ UNCHANGED <<keys, vm>>
        /\ \A w \in Workers : w # instance_id[p] => task_processing'[w] = task_processing[w]
    BY <1>0, <1>12 DEF ServeHeartbeat, ServeDone, ProcessHeartbeat, ProcessDone, GiveOwn, StealTask,
                       clusterVars
  <2>2. Matched(p)'
    BY <1>0, <1>12, MatchedServed
  <2> QED
    BY <1>10, <1>12, <2>1, <2>2
<1>13. ASSUME NEW p \in Procs, WorkerStep(p)
       PROVE  MatchedInv'
  <2>1. UNCHANGED <<task_processing, keys, vm, running>>
    BY <1>13 DEF WorkerStep, clusterVars, poolVars, GenerateHeartbeat, Process, Crash, ProcessCrash,
       Connect, ClientSend, ClientReceive, ClientEof, NetFail, ServerClose, LoseRequest
  <2>2. CASE running[p]
    <3>1. Matched(p)'
      BY <1>0, <1>13, <2>1, <2>2, OwedKept DEF Matched
    <3> QED
      BY <1>10, <1>13, <2>1, <3>1
  <2>3. CASE ~running[p]
    <3>1. conn'[p] = "down"
      BY <1>0, <1>13, <2>3 DEF WorkerStep, GenerateHeartbeat, Process, Crash, ProcessCrash, Ready,
         Connect, ClientSend, ClientReceive, ClientEof, NetFail, ServerClose, LoseRequest, WorkerTypeOK
    <3>2. Matched(p)'
      BY <1>0, <2>1, <2>3, <3>1 DEF Matched
    <3> QED
      BY <1>10, <1>13, <2>1, <3>2
  <2> QED
    BY <2>2, <2>3
<1> QED
  BY <1>3, <1>4, <1>5, <1>6, <1>7, <1>8, <1>9, <1>11, <1>12, <1>13 DEF Next
-----------------------------------------------------------------------------
(***************************************************************************)
(* A reported task has been executed, and so has a retired one.            *)
(***************************************************************************)
ExecutedInv ==
    /\ retired \subseteq executed
    /\ \A p \in Procs :
        /\ conn[p] = "req" /\ wire[p].kind = "done" => wire[p].task \in executed
        /\ \A i \in DOMAIN send_buffer[p] :
             send_buffer[p][i].kind = "done" => send_buffer[p][i].task \in executed

\* A process reports what it has executed.
LEMMA ReportsExecuted ==
    ASSUME TypeOK, ExecutedInv, NEW p \in Procs, WorkerStep(p)
    PROVE  /\ executed \subseteq executed'
           /\ conn'[p] = "req" /\ wire'[p].kind = "done" => wire'[p].task \in executed'
           /\ \A i \in DOMAIN send_buffer'[p] :
                send_buffer'[p][i].kind = "done" => send_buffer'[p][i].task \in executed'
<1>0. /\ send_buffer[p] \in Seq(Requests) /\ task_command_received[p] \in BOOLEAN
      /\ WorkerTypeOK
  BY DEF TypeOK, WorkerTypeOK
<1>1. ASSUME NEW packet \in Requests, send_buffer'[p] = Append(send_buffer[p], packet),
             packet.kind = "done" => packet.task \in executed',
             executed \subseteq executed', UNCHANGED <<conn, wire>>
      PROVE  /\ conn'[p] = "req" /\ wire'[p].kind = "done" => wire'[p].task \in executed'
             /\ \A i \in DOMAIN send_buffer'[p] :
                  send_buffer'[p][i].kind = "done" => send_buffer'[p][i].task \in executed'
  <2> DEFINE buf == send_buffer[p]
             new == Append(buf, packet)
  <2>1. /\ DOMAIN new = 1 .. Len(buf) + 1 /\ DOMAIN buf = 1 .. Len(buf)
        /\ new[Len(buf) + 1] = packet /\ Len(buf) \in Nat
        /\ \A i \in 1 .. Len(buf) : new[i] = buf[i]
    BY <1>0
  <2> HIDE DEF new
  <2>2. \A i \in DOMAIN new : new[i].kind = "done" => new[i].task \in executed'
    BY <1>1, <2>1 DEF ExecutedInv
  <2>3. send_buffer'[p] = new
    BY <1>1 DEF new
  <2> QED
    BY <1>1, <2>2, <2>3 DEF ExecutedInv
<1>2. CASE GenerateHeartbeat(p)
  <2> DEFINE hb == Heartbeat(task_command_received[p])
  <2>1. hb \in Requests /\ hb.kind = "heartbeat"
    BY <1>0 DEF Heartbeat, Packet, Requests, Heartbeats
  <2>2. send_buffer'[p] = Append(send_buffer[p], hb) /\ UNCHANGED <<conn, wire, executed>>
    BY <1>0, <1>2 DEF GenerateHeartbeat, WorkerTypeOK
  <2> HIDE DEF hb
  <2> QED
    BY <1>1, <2>1, <2>2
<1>3. CASE Process(p, bucket)
  <2> DEFINE t == Head(task_queue[p])
  <2>1. t \in Tasks
    BY <1>0, <1>3, HeadInFront DEF Process, Ready, WorkerTypeOK
  <2>2. Done(t) \in Requests /\ Done(t).task = t
    BY <2>1, RequestsMade DEF Done, Packet
  <2>3. /\ send_buffer'[p] = Append(send_buffer[p], Done(t)) /\ executed' = executed \cup {t}
        /\ UNCHANGED <<conn, wire>>
    BY <1>0, <1>3 DEF Process, WorkerTypeOK
  <2> HIDE DEF t
  <2> QED
    BY <1>1, <2>2, <2>3
<1>4. CASE ClientSend(p) \/ ClientEof(p)
  <2>1. send_buffer[p] # <<>>
    BY <1>4 DEF ClientSend, ClientEof
  <2>2. /\ Head(send_buffer[p]) = send_buffer[p][1] /\ 1 \in DOMAIN send_buffer[p]
        /\ \A i \in DOMAIN Tail(send_buffer[p]) :
             i + 1 \in DOMAIN send_buffer[p] /\ Tail(send_buffer[p])[i] = send_buffer[p][i + 1]
    BY <1>0, <2>1
  <2>3. send_buffer'[p] = Tail(send_buffer[p]) /\ UNCHANGED executed
    BY <1>0, <1>4 DEF ClientSend, ClientEof, WorkerTypeOK
  <2>4. wire'[p] = Head(send_buffer[p]) \/ conn'[p] = "closed"
    <3>1. CASE ClientSend(p)
      BY <1>0, <3>1 DEF ClientSend, WorkerTypeOK
    <3>2. CASE ClientEof(p)
      BY <1>0, <3>2 DEF ClientEof, WorkerTypeOK
    <3> QED
      BY <1>4, <3>1, <3>2
  <2> QED
    BY <2>2, <2>3, <2>4 DEF ExecutedInv
<1>5. CASE Crash(p) \/ Connect(p) \/ ClientReceive(p) \/ NetFail(p) \/ ServerClose(p) \/ LoseRequest(p)
  <2>1. /\ UNCHANGED <<send_buffer, executed>>
        /\ conn'[p] = "req" => conn[p] = "req" /\ wire'[p] = wire[p]
    BY <1>0, <1>5 DEF Crash, ProcessCrash, Connect, ClientReceive, NetFail, ServerClose,
       LoseRequest, WorkerTypeOK
  <2> QED
    BY <2>1 DEF ExecutedInv
<1>6. executed \subseteq executed'
  BY DEF WorkerStep, GenerateHeartbeat, Process, Crash, ProcessCrash,
       Connect, ClientSend, ClientReceive, ClientEof, NetFail, ServerClose, LoseRequest
<1> QED
  BY <1>2, <1>3, <1>4, <1>5, <1>6 DEF WorkerStep

\* process_command retires the task that is reported.
LEMMA ExecutedStep ==
    ASSUME TypeOK, PoolInv, ProcessesInv, MatchedInv, ExecutedInv, [Next]_vars
    PROVE  ExecutedInv'
<1>0. WorkerTypeOK /\ KeysAgree
  BY DEF TypeOK, PoolInv
<1>1. ASSUME UNCHANGED <<workerVars, retired>>
      PROVE  ExecutedInv'
  BY <1>1 DEF ExecutedInv, workerVars
<1>2. CASE UNCHANGED vars
  BY <1>1, <1>2 DEF vars, poolVars
<1>3. CASE \/ \E w \in Workers : BootWorker(w) \/ RestartWorker(w) \/ KillWorker(w)
           \/ AnswerNodeManager \/ ImConnectionLost \/ ReceiveAnswer \/ PoolStep
  BY <1>1, <1>3 DEF BootWorker, RestartWorker, KillWorker, AnswerNodeManager, ImConnectionLost,
     ReceiveAnswer, PoolStep,
     CreateTasks, RunTaskPool, AssignTask, EndAssign, RequeueStopped, RegisterNewWorkers,
     WorkerChange, poolVars
<1>4. ASSUME NEW w \in Workers, MachineStops(w)
      PROVE  ExecutedInv'
  <2>1. UNCHANGED <<executed, retired>>
    BY <1>4 DEF MachineStops, StopInstance, poolVars
  <2>2. ASSUME NEW p \in Procs
        PROVE  SameProcess(p) \/ (send_buffer'[p] = <<>>
                                  /\ (conn'[p] = "req" => conn[p] = "req" /\ wire'[p] = wire[p]))
    BY <1>4, MachineStopsIts
  <2> QED
    BY <2>1, <2>2 DEF ExecutedInv, SameProcess
<1>5. ASSUME NEW p \in Procs,
             StartCommand(p) \/ ServeHeartbeat(p) \/ ServeDone(p) \/ WorkerStep(p),
             executed \subseteq executed', retired' \subseteq executed',
             /\ conn'[p] = "req" /\ wire'[p].kind = "done" => wire'[p].task \in executed'
             /\ \A i \in DOMAIN send_buffer'[p] :
                  send_buffer'[p][i].kind = "done" => send_buffer'[p][i].task \in executed'
      PROVE  ExecutedInv'
  BY <1>5, OtherProcesses DEF ExecutedInv, SameProcess
<1>6. ASSUME NEW p \in Procs, StartCommand(p)
      PROVE  ExecutedInv'
  <2>1. UNCHANGED <<executed, retired, conn, wire, send_buffer>>
    BY <1>6 DEF StartCommand, StartProcess, poolVars
  <2> QED
    BY <1>5, <1>6, <2>1 DEF ExecutedInv
<1>7. ASSUME NEW p \in Procs, ServeHeartbeat(p) \/ ServeDone(p)
      PROVE  ExecutedInv'
  <2>1. UNCHANGED <<executed, send_buffer>> /\ conn[p] = "req" /\ conn'[p] # "req"
    BY <1>0, <1>7 DEF ServeHeartbeat, ServeDone, Respond, WorkerTypeOK
  <2>2. retired' \subseteq executed
    <3>1. CASE retired' = retired
      BY <3>1 DEF ExecutedInv
    <3>2. CASE retired' # retired
      <4>1. /\ wire[p].kind = "done" /\ instance_id[p] \in keys
            /\ retired' = retired \cup {Head(task_processing[instance_id[p]])}
        BY <1>0, <1>7, <3>2 DEF ServeHeartbeat, ServeDone, ProcessHeartbeat, ProcessDone, KeysAgree
      <4>2. Head(task_processing[instance_id[p]]) = wire[p].task
        BY <2>1, <4>1, ReportIsOldest DEF MatchedInv
      <4> QED
        BY <2>1, <4>1, <4>2 DEF ExecutedInv
    <3> QED
      BY <3>1, <3>2
  <2> QED
    BY <1>5, <1>7, <2>1, <2>2 DEF ExecutedInv
<1>8. ASSUME NEW p \in Procs, WorkerStep(p)
      PROVE  ExecutedInv'
  <2>1. UNCHANGED retired
    BY <1>8 DEF WorkerStep, poolVars
  <2> QED
    BY <1>5, <1>8, <2>1, ReportsExecuted DEF ExecutedInv
<1> QED
  BY <1>2, <1>3, <1>4, <1>6, <1>7, <1>8 DEF Next

-----------------------------------------------------------------------------
(***************************************************************************)
(* The invariants of the cluster.                                          *)
(***************************************************************************)
ClusterInv == TypeOK /\ PoolInv /\ AnswersInv /\ ProcessesInv /\ FreshInv
AgreementInv == ClusterInv /\ MatchedInv /\ ExecutedInv

\* Nothing is on, and no process has been started.
LEMMA ClusterInit == Init => AgreementInv
<1> SUFFICES ASSUME Init PROVE AgreementInv
  OBVIOUS
<1>1. PoolInv /\ PoolTypeOK
  BY PoolInvInit DEF Init, PoolInv
<1>2. TypeOK
  <2>1. WorkerTypeOK
    BY DEF Init, WorkerInit, WorkerTypeOK, Conns
  <2>2. vm \in [Workers -> VMs] /\ im_conn \in {"open", "lost"} /\ kills \in 0 .. MaxKills
    BY ClusterAssumption DEF Init, VMs
  <2>3. im_answers \in Seq(SUBSET Workers)
    BY DEF Init
  <2> QED
    BY <1>1, <2>1, <2>2, <2>3 DEF TypeOK
<1>3. AnswersInv
  BY DEF Init, PoolInit, AnswersInv, Told, Untold, Gone
<1>4. ProcessesInv
  BY DEF Init, WorkerInit, ProcessesInv, Silent
<1>5. FreshInv
  BY DEF Init, WorkerInit, FreshInv, Clean
<1>6. MatchedInv
  BY DEF Init, PoolInit, MatchedInv, Matched
<1>7. ExecutedInv
  BY DEF Init, PoolInit, WorkerInit, ExecutedInv
<1> QED
  BY <1>1, <1>2, <1>3, <1>4, <1>5, <1>6, <1>7 DEF AgreementInv, ClusterInv

\* Every step keeps what does not depend on OneProcess.
LEMMA ClusterStep == StopsAreHeard /\ ClusterInv /\ [Next]_vars => ClusterInv'
  BY PoolInvInCluster, ClusterTypeStep, AnswersStep, ProcessesStep, FreshStep DEF ClusterInv

\* Whatever the Instance Manager, the workers and the network do, the state
\* of the whole cluster keeps its types.
THEOREM ClusterTypeCorrect == Spec => []TypeOK
<1>1. Init => TypeOK /\ PoolInv
  BY ClusterInit DEF AgreementInv, ClusterInv
<1>2. TypeOK /\ PoolInv /\ [Next]_vars => (TypeOK /\ PoolInv)'
  BY ClusterTypeStep, PoolInvInCluster
<1> QED
  BY <1>1, <1>2, PTL DEF Spec

\* The cluster implements the task pool: whatever the real workers, the
\* network and the Instance Manager do is an environment that TaskPool allows,
\* so all that is proved of TaskPool holds in the cluster.
THEOREM ClusterImplementsPool == Spec => PoolSpec
<1>1. Init => PoolInit
  BY DEF Init
<1>2. TypeOK /\ [Next]_vars => [PoolNext]_poolVars
  BY PoolOrUnchanged
<1> QED
  BY <1>1, <1>2, ClusterTypeCorrect, PTL DEF Spec, PoolSpec

\* With one process per instance and stops that the Node Manager hears of, the
\* pool and its workers agree in every reachable state.
THEOREM ClusterAgrees ==
    ASSUME OneProcess, StopsAreHeard
    PROVE  Spec => []AgreementInv
<1>1. AgreementInv /\ [Next]_vars => AgreementInv'
  BY ClusterStep, MatchedStep, ExecutedStep DEF AgreementInv, ClusterInv
<1> QED
  BY <1>1, ClusterInit, PTL DEF Spec

\* With one process per instance and stops that the Node Manager hears of,
\* task_processing of a known worker is what its process still owes, task by
\* task and in order.
THEOREM ClusterInSync ==
    ASSUME OneProcess, StopsAreHeard
    PROVE  Spec => []InSync
<1>1. AgreementInv => InSync
  BY OwedIsLine DEF AgreementInv, MatchedInv, Matched, InSync, Live
<1> QED
  BY <1>1, ClusterAgrees, PTL

\* With one process per instance and stops that the Node Manager hears of,
\* process_command pops the reported task and raises neither IndexError nor
\* KeyError.
THEOREM ClusterPopsReported ==
    ASSUME OneProcess, StopsAreHeard
    PROVE  Spec => []DonePopsItsTask
<1>1. ASSUME AgreementInv PROVE DonePopsItsTask
  <2> SUFFICES ASSUME NEW p \in Procs, conn[p] = "req", wire[p].kind = "done",
                      instance_id[p] \in workers, step = "idle"
               PROVE  /\ task_processing[instance_id[p]] # <<>>
                      /\ Head(task_processing[instance_id[p]]) = wire[p].task
                      /\ wire[p].task \in assign_time
    BY DEF DonePopsItsTask
  <2>1. /\ instance_id[p] \in keys /\ task_processing[instance_id[p]] \in Seq(Tasks)
    BY <1>1, WorkerAssumption, IdleKeys DEF AgreementInv, ClusterInv, PoolInv, PoolTypeOK
  <2>2. /\ task_processing[instance_id[p]] # <<>>
        /\ Head(task_processing[instance_id[p]]) = wire[p].task
    BY <1>1, <2>1, ReportIsOldest DEF AgreementInv, ClusterInv, MatchedInv
  <2>3. Head(task_processing[instance_id[p]]) \in Held(instance_id[p])
    BY <2>1, <2>2, RangeHeadTail DEF Held
  <2>4. Head(task_processing[instance_id[p]]) \in assign_time
    BY <1>1, <2>1, <2>3 DEF AgreementInv, ClusterInv, PoolInv, AssignedAreTimed
  <2> QED
    BY <2>2, <2>4
<1> QED
  BY <1>1, ClusterAgrees, PTL

\* With one process per instance and stops that the Node Manager hears of, a
\* created task is in the pool until some worker has executed it.
THEOREM ClusterLosesNoTask ==
    ASSUME OneProcess, StopsAreHeard
    PROVE  Spec => []NoTaskLost
<1>1. AgreementInv => NoTaskLost
  BY DEF AgreementInv, ClusterInv, PoolInv, NoTaskDropped, ExecutedInv, NoTaskLost
<1> QED
  BY <1>1, ClusterAgrees, PTL
-----------------------------------------------------------------------------
(***************************************************************************)
(* The refinement of TaskService. register_task names every row with a     *)
(* fresh uuid4, so no two rows are the same task.                          *)
(***************************************************************************)
Distinct(s) == \A i, j \in DOMAIN s : s[i] = s[j] => i = j
DistinctRows == Distinct(Benchmark)

\* Whatever the pool holds, and whatever is on its way to a worker or queued
\* there, was taken from the scenario.
Sent(p) ==
    /\ Range(task_queue[p]) \subseteq Created
    /\ conn[p] = "resp" /\ wire[p].kind = "task" => wire[p].task \in Created

CreatedInv ==
    /\ Distinct(benchmark_tasks)
    /\ Range(benchmark_tasks) \subseteq Range(Benchmark)
    /\ InPool \subseteq Created
    /\ \A p \in Procs : Sent(p)

\* The rows that are due and the rows that are left have no task in common.
LEMMA DistinctSplit ==
    ASSUME NEW s \in Seq(Tasks), Distinct(s), NEW n \in 1 .. Len(s)
    PROVE  /\ Distinct(SubSeq(s, n + 1, Len(s)))
           /\ Range(SubSeq(s, 1, n)) \cap Range(SubSeq(s, n + 1, Len(s))) = {}
<1> DEFINE l == SubSeq(s, 1, n)
           r == SubSeq(s, n + 1, Len(s))
<1>1. DOMAIN l = 1 .. n /\ \A i \in 1 .. n : l[i] = s[i]
  OBVIOUS
<1>2. DOMAIN r = 1 .. Len(s) - n /\ \A i \in 1 .. Len(s) - n : r[i] = s[n + i]
  OBVIOUS
<1>3. DOMAIN s = 1 .. Len(s) /\ Len(s) \in Nat
  OBVIOUS
<1> HIDE DEF l, r
<1>4. Distinct(r)
  BY <1>2, <1>3 DEF Distinct
<1>5. ASSUME NEW i \in DOMAIN l, NEW j \in DOMAIN r
      PROVE  l[i] # r[j]
  BY <1>1, <1>2, <1>3 DEF Distinct
<1>6. Range(l) \cap Range(r) = {}
  BY <1>5 DEF Range
<1> QED
  BY <1>4, <1>6 DEF l, r

\* Creating tasks accepts new ones.
LEMMA CreateSubmits ==
    ASSUME TypeOK, CreatedInv, CreateTasks
    PROVE  \E due \in SUBSET Tasks :
              /\ due \cap Created = {}
              /\ Created' = Created \cup due
              /\ InPool' = InPool \cup due
              /\ Distinct(benchmark_tasks)' /\ Range(benchmark_tasks') \subseteq Range(Benchmark)
<1>0. benchmark_tasks \in Seq(Tasks) /\ PoolTypeOK
  BY DEF TypeOK, PoolTypeOK
<1>1. PICK n \in 1 .. Len(benchmark_tasks) :
        /\ InPool' = InPool \cup Range(Due(n))
        /\ benchmark_tasks' = SubSeq(benchmark_tasks, n + 1, Len(benchmark_tasks))
  BY <1>0, CreateMoves
<1>2. /\ Due(n) \in Seq(Tasks)
      /\ Range(benchmark_tasks) = Range(Due(n)) \cup Range(benchmark_tasks')
  BY <1>0, <1>1, RangeSplit DEF Due
<1>3. Distinct(benchmark_tasks') /\ Range(Due(n)) \cap Range(benchmark_tasks') = {}
  BY <1>0, <1>1, DistinctSplit DEF Due, CreatedInv
<1>4. Range(Due(n)) \in SUBSET Tasks
  BY <1>2 DEF Range
<1>5. Range(Due(n)) \cap Created = {} /\ Created' = Created \cup Range(Due(n))
  BY <1>2, <1>3 DEF Created, CreatedInv
<1>6. Distinct(benchmark_tasks)'
  BY <1>3 DEF Distinct
<1> QED
  BY <1>1, <1>2, <1>4, <1>5, <1>6 DEF CreatedInv

\* Only create_full_taskpool takes rows from the scenario.
LEMMA CreatedSame ==
    ASSUME [Next]_vars, ~(PoolStep /\ CreateTasks)
    PROVE  benchmark_tasks' = benchmark_tasks /\ Created' = Created
<1>1. CASE UNCHANGED vars
  BY <1>1 DEF vars, poolVars, Created
<1>2. CASE \E w \in Workers : BootWorker(w) \/ RestartWorker(w) \/ KillWorker(w) \/ MachineStops(w)
  BY <1>2 DEF BootWorker, RestartWorker, KillWorker, MachineStops, poolVars, Created
<1>3. CASE AnswerNodeManager \/ ImConnectionLost \/ ReceiveAnswer \/ PoolStep
  BY <1>3 DEF AnswerNodeManager, ImConnectionLost, ReceiveAnswer, WorkerChange, PoolStep, RunTaskPool, AssignTask,
     EndAssign, RequeueStopped, RegisterNewWorkers, poolVars, Created
<1>4. ASSUME NEW p \in Procs, StartCommand(p) \/ ServeHeartbeat(p) \/ ServeDone(p) \/ WorkerStep(p)
      PROVE  benchmark_tasks' = benchmark_tasks /\ Created' = Created
  BY <1>4 DEF StartCommand, ServeHeartbeat, ServeDone, WorkerStep, ProcessHeartbeat, ProcessDone,
     poolVars, Created
<1> QED
  BY <1>1, <1>2, <1>3, <1>4 DEF Next

\* A step that neither creates tasks nor handles a report leaves the pool with
\* the tasks that it had.
LEMMA PoolSame ==
    ASSUME TypeOK, PoolInv, [Next]_vars, ~(PoolStep /\ CreateTasks), \A p \in Procs : ~ServeDone(p)
    PROVE  InPool' = InPool
<1>0. PoolTypeOK /\ KeysAgree
  BY DEF TypeOK, PoolInv
<1>1. UNCHANGED poolVars => InPool' = InPool
  BY DEF poolVars, InPool, Held
<1>2. CASE UNCHANGED vars
  BY <1>1, <1>2 DEF vars
<1>3. CASE \E w \in Workers : BootWorker(w) \/ RestartWorker(w) \/ KillWorker(w) \/ MachineStops(w)
  BY <1>1, <1>3 DEF BootWorker, RestartWorker, KillWorker, MachineStops
<1>4. CASE AnswerNodeManager \/ ImConnectionLost
  BY <1>1, <1>4 DEF AnswerNodeManager, ImConnectionLost
<1>5. CASE ReceiveAnswer
  <2>1. Head(im_answers) \in SUBSET Workers
    BY <1>5, HeadTailProperties DEF ReceiveAnswer, TypeOK
  <2> QED
    BY <1>0, <1>5, <2>1, LoopMoves DEF ReceiveAnswer
<1>6. CASE PoolStep
  BY <1>0, <1>6, LoopMoves DEF PoolStep
<1>7. ASSUME NEW p \in Procs, StartCommand(p) \/ WorkerStep(p)
      PROVE  InPool' = InPool
  BY <1>1, <1>7 DEF StartCommand, WorkerStep
<1>8. ASSUME NEW p \in Procs, ServeHeartbeat(p)
      PROVE  InPool' = InPool
  <2>1. instance_id[p] \in Workers
    BY WorkerAssumption
  <2>2. PICK reply : ProcessHeartbeat(instance_id[p], wire[p], reply)
    BY <1>8 DEF ServeHeartbeat
  <2> QED
    BY <1>0, <2>1, <2>2, HeartbeatMoves
<1> QED
  BY <1>2, <1>3, <1>4, <1>5, <1>6, <1>7, <1>8 DEF Next

\* A report takes at most the reported task, which has been executed, out of
\* the pool.
LEMMA ServeDoneRetires ==
    ASSUME AgreementInv, NEW p \in Procs, ServeDone(p)
    PROVE  InPool' = InPool \/ \E t \in InPool \cap executed : InPool' = InPool \ {t}
<1> DEFINE w == instance_id[p]
<1>0. /\ PoolTypeOK /\ KeysAgree /\ TypeOK /\ ProcessesInv /\ Matched(p) /\ w \in Workers
      /\ conn[p] = "req" /\ wire[p].kind = "done"
  BY WorkerAssumption DEF AgreementInv, ClusterInv, TypeOK, PoolInv, MatchedInv, ServeDone, Respond
<1>1. PICK reply : ProcessDone(w, wire[p], reply)
  BY DEF ServeDone
<1>2. \/ InPool' = InPool
      \/ /\ w \in keys /\ task_processing[w] # <<>>
         /\ InPool' \subseteq InPool
         /\ InPool \subseteq InPool' \cup {Head(task_processing[w])}
  BY <1>0, <1>1, DoneMoves
<1>3. ASSUME w \in keys, task_processing[w] # <<>>
      PROVE  Head(task_processing[w]) \in InPool \cap executed
  <2>1. Head(task_processing[w]) = wire[p].task
    BY <1>0, <1>3, ReportIsOldest
  <2>2. wire[p].task \in executed
    BY <1>0 DEF AgreementInv, ExecutedInv
  <2>3. task_processing[w] \in Seq(Tasks)
    BY <1>0 DEF PoolTypeOK
  <2>4. Head(task_processing[w]) \in Held(w)
    BY <1>3, <2>3, RangeHeadTail DEF Held
  <2> QED
    BY <1>3, <2>1, <2>2, <2>4 DEF InPool
<1> QED
  BY <1>2, <1>3

\* What the server hands out comes from the pool.
LEMMA GivenFromPool ==
    ASSUME TypeOK, PoolInv, NEW p \in Procs, ServeHeartbeat(p) \/ ServeDone(p),
           conn'[p] = "resp", wire'[p].kind = "task"
    PROVE  wire'[p].task \in InPool
<1> DEFINE w == instance_id[p]
<1>0. PoolTypeOK /\ KeysAgree /\ WorkerTypeOK /\ w \in Workers
  BY WorkerAssumption DEF TypeOK, PoolInv
<1>1. PICK reply : /\ ProcessHeartbeat(w, wire[p], reply) \/ ProcessDone(w, wire[p], reply)
                   /\ Respond(p, reply)
  BY DEF ServeHeartbeat, ServeDone
<1>2. wire'[p] = reply \/ wire'[p] = NoPacket
  BY <1>0, <1>1 DEF Respond, WorkerTypeOK
<1>3. wire'[p] = reply /\ reply.kind = "task" /\ wire[p].kind # "task" /\ HandlerError.kind # "task"
  BY <1>2 DEF NoPacket, HandlerError, Packet, ServeHeartbeat, ServeDone
<1>4. ASSUME NEW t \in Tasks, NEW processing, w \in keys, reply = TaskCommand(t),
             GiveOwn(w, t, processing) \/ StealTask(w, t, processing)
      PROVE  wire'[p].task \in InPool
  <2>1. PICK v \in keys : t \in Range(task_assignment[v])
    BY <1>0, <1>4, GiveOwnGives, StealTaskGives DEF Given
  <2>2. t \in InPool
    BY <2>1 DEF InPool, Held
  <2> QED
    BY <1>3, <1>4, <2>2 DEF TaskCommand, Packet
<1>5. CASE ProcessHeartbeat(w, wire[p], reply)
  BY <1>3, <1>4, <1>5 DEF ProcessHeartbeat
<1>6. CASE ProcessDone(w, wire[p], reply)
  <2>1. w \in workers => w \in keys
    BY <1>0, <1>6, IdleKeys DEF ProcessDone
  <2> QED
    BY <1>3, <1>4, <1>6, <2>1 DEF ProcessDone
<1> QED
  BY <1>1, <1>5, <1>6

\* A process queues what it receives and takes from the queue in order.
LEMMA SentStep ==
    ASSUME TypeOK, NEW p \in Procs, WorkerStep(p), Sent(p), Created' = Created
    PROVE  Sent(p)'
<1>0. /\ WorkerTypeOK /\ task_queue[p] \in Seq(Tasks) /\ wire[p] \in Answers \cup {NoPacket}
  BY DEF TypeOK, WorkerTypeOK
<1>1. CASE Process(p, bucket) \/ Crash(p)
  <2>1. task_queue[p] # <<>> /\ task_queue'[p] = Tail(task_queue[p]) /\ UNCHANGED <<conn, wire>>
    BY <1>0, <1>1 DEF Process, Crash, ProcessCrash, Ready, WorkerTypeOK
  <2>2. Range(Tail(task_queue[p])) \subseteq Range(task_queue[p])
    BY <1>0, <2>1, RangeHeadTail
  <2> QED
    BY <2>1, <2>2 DEF Sent
<1>2. CASE ClientReceive(p)
  <2>1. conn[p] = "resp" /\ conn'[p] = "idle" /\ task_queue'[p] = Enqueued(p, wire[p])
    BY <1>0, <1>2 DEF ClientReceive, WorkerTypeOK
  <2>2. CASE wire[p].kind = "task"
    <3>1. wire[p].task \in Tasks
      BY <1>0, <2>2, WireFields
    <3>2. Range(Append(task_queue[p], wire[p].task)) = Range(task_queue[p]) \cup {wire[p].task}
      BY <1>0, <3>1, RangeAppend
    <3> QED
      BY <2>1, <2>2, <3>2 DEF Sent, Enqueued
  <2>3. CASE wire[p].kind # "task"
    BY <2>1, <2>3 DEF Sent, Enqueued
  <2> QED
    BY <2>2, <2>3
<1>3. CASE \/ GenerateHeartbeat(p) \/ Connect(p) \/ ClientSend(p) \/ ClientEof(p)
           \/ NetFail(p) \/ ServerClose(p) \/ LoseRequest(p)
  <2>1. UNCHANGED task_queue /\ (conn'[p] = "resp" => conn[p] = "resp" /\ wire'[p] = wire[p])
    BY <1>0, <1>3 DEF GenerateHeartbeat, Connect, ClientSend, ClientEof, NetFail, ServerClose,
       LoseRequest, WorkerTypeOK
  <2> QED
    BY <2>1 DEF Sent
<1> QED
  BY <1>1, <1>2, <1>3 DEF WorkerStep

\* Every step keeps it.
LEMMA CreatedStep ==
    ASSUME AgreementInv, CreatedInv, [Next]_vars
    PROVE  CreatedInv'
<1>0. TypeOK /\ PoolInv /\ WorkerTypeOK /\ [Next]_vars
  BY DEF AgreementInv, ClusterInv, TypeOK
<1>1. CASE CreateTasks /\ PoolStep
  <2>1. Created \subseteq Created' /\ InPool' \subseteq Created'
        /\ Distinct(benchmark_tasks)' /\ Range(benchmark_tasks') \subseteq Range(Benchmark)
    BY <1>0, <1>1, CreateSubmits DEF CreatedInv
  <2>2. \A p \in Procs : Sent(p)'
    BY <1>1, <2>1 DEF PoolStep, workerVars, CreatedInv, Sent
  <2> QED
    BY <2>1, <2>2 DEF CreatedInv
<1>2. CASE ~(PoolStep /\ CreateTasks)
  <2>1. benchmark_tasks' = benchmark_tasks /\ Created' = Created
    BY <1>0, <1>2, CreatedSame
  <2>2. InPool' \subseteq InPool
    <3>1. CASE \A p \in Procs : ~ServeDone(p)
      BY <1>0, <1>2, <3>1, PoolSame
    <3>2. ASSUME NEW p \in Procs, ServeDone(p)
          PROVE  InPool' \subseteq InPool
      BY <3>2, ServeDoneRetires
    <3> QED
      BY <3>1, <3>2
  <2>3. ASSUME \A p \in Procs : Sent(p)'
        PROVE  CreatedInv'
    BY <2>1, <2>2, <2>3 DEF CreatedInv, Distinct
  <2>4. CASE UNCHANGED workerVars
    BY <2>1, <2>3, <2>4 DEF workerVars, CreatedInv, Sent
  <2>5. ASSUME NEW w \in Workers, MachineStops(w)
        PROVE  CreatedInv'
    <3>1. ASSUME NEW p \in Procs
          PROVE  Sent(p)'
      <4>1. Range(<<>>) = {}
        BY DEF Range
      <4> QED
        BY <1>0, <2>1, <2>5, <4>1, MachineStopsIts DEF SameProcess, Sent, CreatedInv
    <3> QED
      BY <2>3, <3>1
  <2>6. ASSUME NEW p \in Procs, Sent(p)',
               StartCommand(p) \/ ServeHeartbeat(p) \/ ServeDone(p) \/ WorkerStep(p)
        PROVE  CreatedInv'
    <3>1. ASSUME NEW q \in Procs, q # p
          PROVE  Sent(q)'
      BY <1>0, <2>1, <2>6, <3>1, OtherProcesses DEF SameProcess, Sent, CreatedInv
    <3> QED
      BY <2>3, <2>6, <3>1
  <2>7. ASSUME NEW p \in Procs, StartCommand(p)
        PROVE  CreatedInv'
    <3>1. Sent(p)'
      BY <2>1, <2>7 DEF StartCommand, StartProcess, Sent, CreatedInv
    <3> QED
      BY <2>6, <2>7, <3>1
  <2>8. ASSUME NEW p \in Procs, ServeHeartbeat(p) \/ ServeDone(p)
        PROVE  CreatedInv'
    <3>1. UNCHANGED task_queue
      BY <2>8 DEF ServeHeartbeat, ServeDone, Respond
    <3>2. Sent(p)'
      BY <1>0, <2>1, <2>8, <3>1, GivenFromPool DEF Sent, CreatedInv
    <3> QED
      BY <2>6, <2>8, <3>2
  <2>9. ASSUME NEW p \in Procs, WorkerStep(p)
        PROVE  CreatedInv'
    <3>1. Sent(p)'
      BY <1>0, <2>1, <2>9, SentStep DEF CreatedInv
    <3> QED
      BY <2>6, <2>9, <3>1
  <2> QED
    BY <1>0, <2>4, <2>5, <2>7, <2>8, <2>9 DEF Next, vars, BootWorker, RestartWorker, KillWorker,
       AnswerNodeManager, ImConnectionLost, ReceiveAnswer, PoolStep
<1> QED
  BY <1>1, <1>2

\* Every step of the cluster is a step of the service, or changes nothing that
\* its user sees.
LEMMA ServiceStep ==
    ASSUME AgreementInv, CreatedInv, [Next]_vars
    PROVE  [Service!Next]_(Service!vars)
<1>0. /\ TypeOK /\ PoolInv /\ [Next]_vars /\ executed \in SUBSET Tasks
      /\ Created \subseteq InPool \cup executed
  BY DEF AgreementInv, ClusterInv, TypeOK, WorkerTypeOK, PoolInv, NoTaskDropped, ExecutedInv
<1> USE DEF Service!Next, Service!vars
<1>1. CASE PoolStep /\ CreateTasks
  <2>1. PICK due \in SUBSET Tasks :
          due \cap Created = {} /\ Created' = Created \cup due /\ InPool' = InPool \cup due
    BY <1>0, <1>1, CreateSubmits
  <2>2. executed' = executed
    BY <1>1 DEF PoolStep, workerVars
  <2>3. Service!Submit(due)
    BY <2>1, <2>2 DEF Service!Submit
  <2> QED
    BY <2>3
<1>2. ASSUME ~(PoolStep /\ CreateTasks), NEW p \in Procs, ServeDone(p)
      PROVE  [Service!Next]_(Service!vars)
  <2>1. Created' = Created
    BY <1>0, <1>2, CreatedSame
  <2>2. executed' = executed
    BY <1>2 DEF ServeDone, Respond
  <2>3. CASE InPool' = InPool
    BY <2>1, <2>2, <2>3
  <2>4. ASSUME NEW t \in InPool \cap executed, InPool' = InPool \ {t}
        PROVE  Service!Next
    <3>1. t \in Tasks /\ Service!Retire(t)
      BY <1>0, <2>1, <2>2, <2>4 DEF Service!Retire
    <3> QED
      BY <3>1
  <2> QED
    BY <1>2, <2>3, <2>4, ServeDoneRetires
<1>3. CASE ~(PoolStep /\ CreateTasks) /\ \A p \in Procs : ~ServeDone(p)
  <2>1. Created' = Created /\ InPool' = InPool
    BY <1>0, <1>3, CreatedSame, PoolSame
  <2>2. CASE executed' = executed
    BY <2>1, <2>2
  <2>3. ASSUME NEW p \in Procs, Process(p, bucket)
        PROVE  [Service!Next]_(Service!vars)
    <3> DEFINE t == Head(task_queue[p])
    <3>1. task_queue[p] \in Seq(Tasks) /\ task_queue[p] # <<>> /\ executed' = executed \cup {t}
      BY <1>0, <2>3 DEF TypeOK, WorkerTypeOK, Process, Ready
    <3>2. t \in Tasks /\ t \in Range(task_queue[p])
      BY <3>1, RangeHeadTail
    <3>3. t \in Created
      BY <3>2 DEF CreatedInv, Sent
    <3> HIDE DEF t
    <3>4. CASE t \in executed
      BY <2>2, <3>1, <3>4
    <3>5. CASE t \in InPool
      <4>1. Service!Execute(t)
        BY <2>1, <3>1, <3>5 DEF Service!Execute
      <4> QED
        BY <3>2, <4>1
    <3> QED
      BY <1>0, <3>3, <3>4, <3>5
  <2>4. executed' = executed \/ \E p \in Procs : Process(p, bucket)
    <3>1. ASSUME NEW p \in Procs, WorkerStep(p)
          PROVE  executed' = executed \/ Process(p, bucket)
      BY <3>1 DEF WorkerStep, GenerateHeartbeat, Crash, ProcessCrash,
         Connect, ClientSend, ClientReceive, ClientEof, NetFail, ServerClose, LoseRequest
    <3>2. ASSUME NEW p \in Procs, StartCommand(p) \/ ServeHeartbeat(p) \/ ServeDone(p)
          PROVE  executed' = executed
      BY <3>2 DEF StartCommand, StartProcess, ServeHeartbeat, ServeDone, Respond
    <3>3. ASSUME NEW w \in Workers,
                 BootWorker(w) \/ RestartWorker(w) \/ KillWorker(w) \/ MachineStops(w)
          PROVE  executed' = executed
      BY <3>3 DEF BootWorker, RestartWorker, KillWorker, MachineStops, StopInstance, workerVars
    <3>4. CASE \/ AnswerNodeManager \/ ImConnectionLost \/ ReceiveAnswer \/ PoolStep
               \/ UNCHANGED vars
      BY <3>4 DEF AnswerNodeManager, ImConnectionLost, ReceiveAnswer, PoolStep, vars, workerVars
    <3> QED
      BY <1>0, <3>1, <3>2, <3>3, <3>4 DEF Next
  <2> QED
    BY <2>2, <2>3, <2>4
<1> QED
  BY <1>1, <1>2, <1>3

\* The cluster implements the service, whatever workers come and go: with one
\* process per instance, stops that the Node Manager hears of and a task for
\* every row, a step of the code submits new tasks, executes one that is
\* outstanding, lets go of one that has been executed, or is invisible.
THEOREM ClusterImplementsService ==
    ASSUME OneProcess, StopsAreHeard, DistinctRows
    PROVE  Spec => ImplementsService
<1>1. Init => CreatedInv
  <2> SUFFICES ASSUME Init PROVE CreatedInv
    OBVIOUS
  <2>1. InPool = {} /\ \A p \in Procs : Range(task_queue[p]) = {} /\ conn[p] = "down"
    BY DEF Init, PoolInit, WorkerInit, InPool, Range
  <2>2. benchmark_tasks = Benchmark
    BY DEF Init, PoolInit
  <2> QED
    BY <2>1, <2>2 DEF CreatedInv, Sent, DistinctRows
<1>2. AgreementInv /\ CreatedInv /\ [Next]_vars => CreatedInv'
  BY CreatedStep
<1>3. Init => Service!Init
  <2> SUFFICES ASSUME Init PROVE Service!Init
    OBVIOUS
  <2>1. InPool = {} /\ Created = {} /\ executed = {}
    BY DEF Init, PoolInit, WorkerInit, InPool, Range, Created
  <2> QED
    BY <2>1 DEF Service!Init
<1>4. AgreementInv /\ CreatedInv /\ [Next]_vars => [Service!Next]_(Service!vars)
  BY ServiceStep
<1> QED
  BY <1>1, <1>2, <1>3, <1>4, ClusterAgrees, PTL DEF Spec, ImplementsService, Service!Spec
=============================================================================
