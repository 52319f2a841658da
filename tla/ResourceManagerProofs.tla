------------------------ MODULE ResourceManagerProofs ------------------------
(***************************************************************************)
(* Proofs about ResourceManager, for any programs, any number of lines and *)
(* seconds, whether or not storage fails, and with programs that end       *)
(* between any two steps.                                                  *)
(***************************************************************************)
EXTENDS ResourceManager, FiniteSetTheorems, TLAPS

\* The line that is logged next is the successor of the last, if there is one.
LEMMA NewLineCounted ==
    ASSUME logged \in 0 .. MaxLines
    PROVE  /\ logged + Cardinality(NewLine) \in 0 .. MaxLines
           /\ 1 .. logged + Cardinality(NewLine) = (1 .. logged) \cup NewLine
           /\ NewLine \subseteq Nat
           /\ NewLine \cap (1 .. logged) = {}
<1>1. Cardinality({}) = 0 /\ Cardinality({logged + 1}) = 1
  BY FS_EmptySet, FS_Singleton
<1>2. CASE logged < MaxLines
  BY <1>1, <1>2, ProgramsAssumption DEF NewLine
<1>3. CASE ~(logged < MaxLines)
  BY <1>1, <1>3, ProgramsAssumption DEF NewLine
<1> QED
  BY <1>2, <1>3

\* Every access of a program to S3 and to its log file keeps the types.
LEMMA TypeStep == TypeOK /\ [Next]_vars => TypeOK'
<1> SUFFICES ASSUME TypeOK, [Next]_vars PROVE TypeOK'
  OBVIOUS
<1> USE DEF TypeOK, PCs, Buckets, NoName, Goto
<1>1. CASE UNCHANGED vars
  BY <1>1 DEF vars, bucketVars, fileVars, lineVars
<1>2. CASE Tick
  BY <1>2, ProgramsAssumption DEF Tick, bucketVars, fileVars, lineVars
<1>3. ASSUME NEW p \in Programs, Launch(p) PROVE TypeOK'
  BY <1>3 DEF Launch, Opened, lineVars
<1>4. ASSUME NEW p \in Programs, Crash(p) PROVE TypeOK'
  BY <1>4 DEF Crash, bucketVars, fileVars
<1>5. ASSUME NEW p \in Programs, CheckDelete(p) \/ EmptyBucket(p) \/ RemoveBucket(p) PROVE TypeOK'
  BY <1>5 DEF CheckDelete, EmptyBucket, RemoveBucket, bucketVars, fileVars, lineVars
<1>6. ASSUME NEW p \in Programs, NEW gone \in SUBSET Nat, Log(p, gone)
      PROVE  /\ log' \in [Programs -> SUBSET Nat]
             /\ logged' \in 0 .. MaxLines
             /\ dropped' \subseteq Nat
  BY <1>6, NewLineCounted DEF Log
<1>7. ASSUME NEW p \in Programs, LogLine(p) PROVE TypeOK'
  BY <1>6, <1>7 DEF LogLine, bucketVars
<1>8. ASSUME NEW p \in Programs, NEW b \in Buckets, CheckBucket(p, b) \/ CreateBucket(p, b)
      PROVE  TypeOK'
  <2>1. CASE CheckBucket(p, b)
    <3>1. Create[b] \in PCs
      BY DEF Create
    <3> QED
      BY <2>1, <3>1 DEF CheckBucket, Initialized, Named, fileVars, lineVars
  <2>2. CASE CreateBucket(p, b)
    <3>1. files_bucket' \in [Programs -> {NoName, "files"}]
      BY <2>2 DEF CreateBucket, Initialized, Named, bucketVars
    <3> QED
      BY <2>2, <3>1 DEF CreateBucket, Initialized, bucketVars, fileVars, lineVars
  <2> QED
    BY <1>8, <2>1, <2>2
<1>9. ASSUME NEW p \in Programs, NEW c \in BOOLEAN, CopyLog(p, c) PROVE TypeOK'
  BY <1>9 DEF CopyLog, bucketVars, lineVars
<1>10. ASSUME NEW p \in Programs, ClearLog(p) PROVE TypeOK'
  BY <1>10 DEF ClearLog, Emptied, bucketVars, lineVars
<1>11. ASSUME NEW p \in Programs, UploadLog(p) PROVE TypeOK'
  <2>1. <<p, now, clean[p]>> \in Keys
    BY DEF Keys
  <2>2. stored[<<p, now, clean[p]>>] \in SUBSET Nat /\ copy[p] \in SUBSET Nat
    BY <2>1
  <2> QED
    BY <1>6, <1>11, <2>1, <2>2 DEF UploadLog, bucketVars
<1>12. ASSUME NEW p \in Programs, UploadRaises(p) \/ RemoveCopy(p) PROVE TypeOK'
  BY <1>12 DEF UploadRaises, RemoveCopy, Uploaded, Ends, bucketVars, fileVars, lineVars
<1> QED
  BY <1>1, <1>2, <1>3, <1>4, <1>5, <1>7, <1>8, <1>9, <1>10, <1>11, <1>12 DEF Next

\* Before anything is logged.
LEMMA TypeInit == Init => TypeOK
  BY ProgramsAssumption DEF Init, TypeOK, PCs, Buckets, NoName

\* The fields of the resource managers, the buckets and the files keep their
\* types.
THEOREM ResourcesTypeCorrect == Spec => []TypeOK
  BY TypeInit, TypeStep, PTL DEF Spec
-----------------------------------------------------------------------------
(***************************************************************************)
(* The lines. Way(p) are the lines that p has taken out of its log file    *)
(* and not uploaded yet. While p is between copying and clearing, a line   *)
(* is in both places; CopyMatches says that they have the same lines then, *)
(* so clearing the file loses nothing.                                     *)
(***************************************************************************)
Way(p) == IF pc[p] = "cleared" THEN copy[p] ELSE {}

CopyMatches == \A p \in Programs : pc[p] = "copied" => copy[p] = log[p]

\* UnderWay, one program at a time.
LEMMA UnderWayIsWay == \A x : x \in UnderWay <=> \E p \in Programs : x \in Way(p)
  BY DEF UnderWay, Way

\* A program's own steps keep its copy equal to its log until the log is cleared.
LEMMA CopyStep == TypeOK /\ CopyMatches /\ [Next]_vars => CopyMatches'
<1> SUFFICES ASSUME TypeOK, CopyMatches, [Next]_vars PROVE CopyMatches'
  OBVIOUS
<1> USE DEF TypeOK, CopyMatches, Goto
<1>1. CASE UNCHANGED vars \/ Tick
  BY <1>1 DEF Tick, vars, bucketVars, fileVars, lineVars
<1>2. ASSUME NEW p \in Programs,
             Launch(p) \/ Crash(p) \/ CheckDelete(p) \/ EmptyBucket(p) \/ RemoveBucket(p)
      PROVE  CopyMatches'
  BY <1>2 DEF Launch, Opened, Crash, CheckDelete, EmptyBucket, RemoveBucket, fileVars
<1>3. ASSUME NEW p \in Programs, LogLine(p) PROVE CopyMatches'
  BY <1>3 DEF LogLine, Log
<1>4. ASSUME NEW p \in Programs, NEW b \in Buckets, CheckBucket(p, b) \/ CreateBucket(p, b)
      PROVE  CopyMatches'
  BY <1>4 DEF CheckBucket, CreateBucket, Initialized, Create, Buckets, fileVars
<1>5. ASSUME NEW p \in Programs, NEW c \in BOOLEAN, CopyLog(p, c) PROVE CopyMatches'
  BY <1>5 DEF CopyLog
<1>6. ASSUME NEW p \in Programs, ClearLog(p) \/ UploadLog(p) PROVE CopyMatches'
  BY <1>6 DEF ClearLog, UploadLog, Log
<1>7. ASSUME NEW p \in Programs, UploadRaises(p) \/ RemoveCopy(p) PROVE CopyMatches'
  BY <1>7 DEF UploadRaises, RemoveCopy, Uploaded, Ends, fileVars
<1> QED
  BY <1>1, <1>2, <1>3, <1>4, <1>5, <1>6, <1>7 DEF Next

\* No step loses sight of a line, and no line comes from nowhere.
LEMMA AccountedStep == TypeOK /\ CopyMatches /\ LinesAccounted /\ [Next]_vars => LinesAccounted'
<1> SUFFICES ASSUME TypeOK, CopyMatches, LinesAccounted, [Next]_vars PROVE LinesAccounted'
  OBVIOUS
<1> DEFINE Placed(x) == \/ \E p \in Programs : x \in log[p] \/ x \in Way(p)
                        \/ \E k \in Keys : x \in stored[k]
                        \/ x \in dropped
<1>1. \A x : x \in 1 .. logged <=> Placed(x)
  BY UnderWayIsWay DEF LinesAccounted, Stored
<1>2. SUFFICES \A x : x \in 1 .. logged' <=> Placed(x)'
  BY DEF LinesAccounted, Stored, UnderWay, Way
<1> USE DEF TypeOK, Goto, Way
<1>3. CASE UNCHANGED vars \/ Tick
  BY <1>1, <1>3 DEF Tick, vars, bucketVars, fileVars, lineVars
<1>4. ASSUME NEW p \in Programs,
             Launch(p) \/ CheckDelete(p) \/ EmptyBucket(p) \/ RemoveBucket(p)
      PROVE  \A x : x \in 1 .. logged' <=> Placed(x)'
  BY <1>1, <1>4 DEF Launch, Opened, CheckDelete, EmptyBucket, RemoveBucket, fileVars, lineVars
<1>5. ASSUME NEW p \in Programs, Crash(p)
      PROVE  \A x : x \in 1 .. logged' <=> Placed(x)'
  BY <1>1, <1>5 DEF Crash, fileVars
<1>6. ASSUME NEW p \in Programs, LogLine(p)
      PROVE  \A x : x \in 1 .. logged' <=> Placed(x)'
  BY <1>1, <1>6, NewLineCounted DEF LogLine, Log
<1>7. ASSUME NEW p \in Programs, NEW b \in Buckets, CheckBucket(p, b) \/ CreateBucket(p, b)
      PROVE  \A x : x \in 1 .. logged' <=> Placed(x)'
  BY <1>1, <1>7 DEF CheckBucket, CreateBucket, Initialized, Check, Create, Buckets, fileVars, lineVars
<1>8. ASSUME NEW p \in Programs, NEW c \in BOOLEAN, CopyLog(p, c)
      PROVE  \A x : x \in 1 .. logged' <=> Placed(x)'
  BY <1>1, <1>8 DEF CopyLog, lineVars
<1>9. ASSUME NEW p \in Programs, ClearLog(p)
      PROVE  \A x : x \in 1 .. logged' <=> Placed(x)'
  BY <1>1, <1>9 DEF ClearLog, Emptied, CopyMatches, lineVars
<1>10. ASSUME NEW p \in Programs, UploadLog(p)
       PROVE  \A x : x \in 1 .. logged' <=> Placed(x)'
  <2>1. <<p, now, clean[p]>> \in Keys
    BY DEF Keys
  <2> QED
    BY <1>1, <1>10, <2>1, NewLineCounted DEF UploadLog, Log
<1>11. ASSUME NEW p \in Programs, UploadRaises(p) \/ RemoveCopy(p)
       PROVE  \A x : x \in 1 .. logged' <=> Placed(x)'
  BY <1>1, <1>11 DEF UploadRaises, RemoveCopy, Uploaded, Ends, fileVars, lineVars
<1> QED
  BY <1>3, <1>4, <1>5, <1>6, <1>7, <1>8, <1>9, <1>10, <1>11 DEF Next

-----------------------------------------------------------------------------
(***************************************************************************)
(* A line is in one place at a time. UploadedOnce speaks of uploaded       *)
(* lines; that what is not uploaded yet is apart as well is the            *)
(* strengthening which an upload needs.                                    *)
(***************************************************************************)
Apart ==
    \A p, q \in Programs :
        /\ log[p] \cap Way(q) = {}
        /\ p # q => log[p] \cap log[q] = {} /\ Way(p) \cap Way(q) = {}

\* UploadedOnce, one program and one object at a time.
OncePerPlace ==
    /\ \A k, l \in Keys : k # l => stored[k] \cap stored[l] = {}
    /\ \A k \in Keys, p \in Programs : stored[k] \cap log[p] = {} /\ stored[k] \cap Way(p) = {}

LinesInv == TypeOK /\ CopyMatches /\ LinesAccounted /\ Apart /\ OncePerPlace

\* Both ways to say it are the same.
LEMMA OnceIsUploadedOnce == OncePerPlace => UploadedOnce
  BY UnderWayIsWay DEF OncePerPlace, UploadedOnce, Stored

\* The line that is logged next is nowhere yet.
LEMMA NewLineIsNew ==
    ASSUME LinesInv
    PROVE  /\ \A p \in Programs : NewLine \cap log[p] = {} /\ NewLine \cap Way(p) = {}
           /\ \A k \in Keys : NewLine \cap stored[k] = {}
<1>1. NewLine \cap (1 .. logged) = {}
  BY NewLineCounted DEF LinesInv, TypeOK
<1>2. \A p \in Programs : log[p] \subseteq 1 .. logged /\ Way(p) \subseteq 1 .. logged
  BY UnderWayIsWay DEF LinesInv, LinesAccounted
<1>3. \A k \in Keys : stored[k] \subseteq 1 .. logged
  BY DEF LinesInv, LinesAccounted, Stored
<1> QED
  BY <1>1, <1>2, <1>3

\* Every step keeps the places apart.
LEMMA ApartStep == LinesInv /\ [Next]_vars => Apart' /\ OncePerPlace'
<1> SUFFICES ASSUME LinesInv, [Next]_vars PROVE Apart' /\ OncePerPlace'
  OBVIOUS
<1>0. TypeOK /\ CopyMatches /\ Apart /\ OncePerPlace
  BY DEF LinesInv
\* Steps after which no place has a line that it did not have before.
<1>1. ASSUME UNCHANGED stored,
             \A p \in Programs : log'[p] \subseteq log[p] /\ Way(p)' \subseteq Way(p)
      PROVE  Apart' /\ OncePerPlace'
  BY <1>0, <1>1 DEF Apart, OncePerPlace
<1> USE DEF TypeOK, Goto
<1>2. CASE UNCHANGED vars \/ Tick
  BY <1>1, <1>2 DEF Tick, Way, vars, bucketVars, fileVars, lineVars
<1>3. ASSUME NEW p \in Programs,
             Launch(p) \/ CheckDelete(p) \/ EmptyBucket(p) \/ RemoveBucket(p) \/ Crash(p)
      PROVE  Apart' /\ OncePerPlace'
  BY <1>0, <1>1, <1>3
  DEF Launch, Opened, CheckDelete, EmptyBucket, RemoveBucket, Crash, Way, fileVars, lineVars
<1>4. ASSUME NEW p \in Programs, NEW b \in Buckets, CheckBucket(p, b) \/ CreateBucket(p, b)
      PROVE  Apart' /\ OncePerPlace'
  BY <1>0, <1>1, <1>4
  DEF CheckBucket, CreateBucket, Initialized, Check, Create, Buckets, Way, fileVars, lineVars
<1>5. ASSUME NEW p \in Programs, NEW c \in BOOLEAN, CopyLog(p, c)
      PROVE  Apart' /\ OncePerPlace'
  BY <1>0, <1>1, <1>5 DEF CopyLog, Way, lineVars
<1>6. ASSUME NEW p \in Programs, UploadRaises(p) \/ RemoveCopy(p)
      PROVE  Apart' /\ OncePerPlace'
  BY <1>0, <1>1, <1>6 DEF UploadRaises, RemoveCopy, Uploaded, Ends, Way, fileVars, lineVars
<1>7. ASSUME NEW p \in Programs, ClearLog(p)
      PROVE  Apart' /\ OncePerPlace'
  <2>1. /\ log'[p] = {} /\ Way(p)' = log[p] /\ UNCHANGED stored
        /\ \A q \in Programs \ {p} : log'[q] = log[q] /\ Way(q)' = Way(q)
    BY <1>0, <1>7 DEF ClearLog, Emptied, CopyMatches, Way, lineVars
  <2> QED
    BY <1>0, <2>1 DEF Apart, OncePerPlace
<1>8. ASSUME NEW p \in Programs, NEW gone, Log(p, gone)
      PROVE  \A q \in Programs : log[q] \subseteq log'[q] /\ log'[q] \subseteq log[q] \cup (IF q = p THEN NewLine ELSE {})
  BY <1>0, <1>8 DEF Log
<1>9. ASSUME NEW p \in Programs, LogLine(p)
      PROVE  Apart' /\ OncePerPlace'
  <2>1. /\ UNCHANGED stored
        /\ \A q \in Programs : Way(q)' = Way(q)
        /\ \A q \in Programs : log'[q] \subseteq log[q] \cup (IF q = p THEN NewLine ELSE {})
    BY <1>8, <1>9 DEF LogLine, Way
  <2> QED
    BY <1>0, <2>1, NewLineIsNew DEF Apart, OncePerPlace
<1>10. ASSUME NEW p \in Programs, UploadLog(p)
       PROVE  Apart' /\ OncePerPlace'
  <2> DEFINE key == <<p, now, clean[p]>>
  <2>1. key \in Keys
    BY <1>0 DEF Keys
  <2>2. /\ Way(p) = copy[p] /\ Way(p)' = {}
        /\ \A q \in Programs \ {p} : Way(q)' = Way(q)
    BY <1>0, <1>10 DEF UploadLog, Way
  <2>3. \A q \in Programs : log'[q] \subseteq log[q] \cup (IF q = p THEN NewLine ELSE {})
    BY <1>8, <1>10 DEF UploadLog
  <2>4. stored' = stored \/ stored' = [stored EXCEPT ![key] = copy[p]]
    BY <1>10 DEF UploadLog
  <2>5. \A k \in Keys : stored'[k] = stored[k] \/ (k = key /\ stored'[k] = Way(p))
    BY <1>0, <2>1, <2>2, <2>4
  <2> HIDE DEF key
  <2>6. Apart'
    BY <1>0, <2>2, <2>3, NewLineIsNew DEF Apart
  <2>7. \A k, l \in Keys : k # l => stored'[k] \cap stored'[l] = {}
    BY <1>0, <2>5 DEF OncePerPlace
  <2>8. \A k \in Keys, q \in Programs : stored'[k] \cap log'[q] = {}
    BY <1>0, <2>3, <2>5, NewLineIsNew DEF OncePerPlace, Apart
  <2>9. \A k \in Keys, q \in Programs : stored'[k] \cap Way(q)' = {}
    BY <1>0, <2>2, <2>5 DEF OncePerPlace, Apart
  <2> QED
    BY <2>6, <2>7, <2>8, <2>9 DEF OncePerPlace
<1> QED
  BY <1>2, <1>3, <1>4, <1>5, <1>6, <1>7, <1>9, <1>10 DEF Next

\* Before anything is logged.
LEMMA LinesInit == Init => LinesInv
<1> SUFFICES ASSUME Init PROVE LinesInv
  OBVIOUS
<1>1. LinesAccounted
  BY DEF Init, LinesAccounted, Stored, UnderWay
<1>2. CopyMatches /\ Apart /\ OncePerPlace
  BY DEF Init, CopyMatches, Apart, OncePerPlace, Way
<1> QED
  BY <1>1, <1>2, TypeInit DEF LinesInv

\* Where the lines of the logs are, and that no two places share one, is an
\* inductive invariant.
THEOREM LinesInvariant == Spec => []LinesInv
<1>1. LinesInv /\ [Next]_vars => LinesInv'
  BY TypeStep, CopyStep, AccountedStep, ApartStep DEF LinesInv
<1> QED
  BY <1>1, LinesInit, PTL DEF Spec

\* A logged line is lost only with the upload that carries it, or when it is
\* written after the log file was removed.
THEOREM NoOtherLineLost == Spec => []LinesAccounted
<1>1. LinesInv => LinesAccounted
  BY DEF LinesInv
<1> QED
  BY <1>1, LinesInvariant, PTL

\* No line is uploaded twice, wherever in upload_log a program ends.
THEOREM NoLineTwice == Spec => []UploadedOnce
<1>1. LinesInv => UploadedOnce
  BY OnceIsUploadedOnce DEF LinesInv
<1> QED
  BY <1>1, LinesInvariant, PTL

-----------------------------------------------------------------------------
(***************************************************************************)
(* The files bucket. Only the Instance Manager deletes it, as the last     *)
(* thing it does.                                                          *)
(***************************************************************************)
OwnerDeletes ==
    \A p \in Programs : pc[p] \in {"delete", "empty", "remove"} => p = instance_manager

BucketInv == TypeOK /\ OwnerDeletes /\ FilesBucketThere

\* Every step keeps the bucket of a running Instance Manager.
LEMMA BucketStep == BucketInv /\ [Next]_vars => OwnerDeletes' /\ FilesBucketThere'
<1> SUFFICES ASSUME BucketInv, [Next]_vars PROVE OwnerDeletes' /\ FilesBucketThere'
  OBVIOUS
<1> USE ProgramsAssumption DEF BucketInv, TypeOK, OwnerDeletes, FilesBucketThere, NoName, Goto
<1>1. CASE UNCHANGED vars \/ Tick
  BY <1>1 DEF Tick, vars, bucketVars
<1>2. ASSUME NEW p \in Programs, Launch(p) \/ Crash(p)
      PROVE  OwnerDeletes' /\ FilesBucketThere'
  BY <1>2 DEF Launch, Crash, bucketVars
<1>3. ASSUME NEW p \in Programs, CheckDelete(p) \/ EmptyBucket(p) \/ RemoveBucket(p)
      PROVE  OwnerDeletes' /\ FilesBucketThere'
  BY <1>3 DEF CheckDelete, EmptyBucket, RemoveBucket, bucketVars
<1>4. ASSUME NEW p \in Programs, LogLine(p)
      PROVE  OwnerDeletes' /\ FilesBucketThere'
  BY <1>4 DEF LogLine, bucketVars
<1>5. ASSUME NEW p \in Programs, NEW b \in Buckets, CheckBucket(p, b)
      PROVE  OwnerDeletes' /\ FilesBucketThere'
  BY <1>5 DEF CheckBucket, Initialized, Named, Check, Create, Buckets
<1>6. ASSUME NEW p \in Programs, NEW b \in Buckets, CreateBucket(p, b)
      PROVE  OwnerDeletes' /\ FilesBucketThere'
  BY <1>6 DEF CreateBucket, Initialized, Named, Create, Buckets, bucketVars
<1>7. ASSUME NEW p \in Programs, NEW c \in BOOLEAN, CopyLog(p, c)
      PROVE  OwnerDeletes' /\ FilesBucketThere'
  BY <1>7 DEF CopyLog, bucketVars
<1>8. ASSUME NEW p \in Programs, ClearLog(p) \/ UploadLog(p)
      PROVE  OwnerDeletes' /\ FilesBucketThere'
  BY <1>8 DEF ClearLog, UploadLog, bucketVars
<1>9. ASSUME NEW p \in Programs, UploadRaises(p) \/ RemoveCopy(p)
      PROVE  OwnerDeletes' /\ FilesBucketThere'
  BY <1>9 DEF UploadRaises, RemoveCopy, Uploaded, Ends, Deleters, bucketVars
<1> QED
  BY <1>1, <1>2, <1>3, <1>4, <1>5, <1>6, <1>7, <1>8, <1>9 DEF Next

\* While the Instance Manager runs and has set files_bucket, the bucket exists,
\* whichever programs found, created or failed to create it.
THEOREM FilesBucketStays == Spec => []FilesBucketThere
<1>1. Init => BucketInv
  BY TypeInit, ProgramsAssumption DEF Init, BucketInv, OwnerDeletes, FilesBucketThere
<1>2. BucketInv /\ [Next]_vars => BucketInv'
  BY TypeStep, BucketStep DEF BucketInv
<1>3. BucketInv => FilesBucketThere
  BY DEF BucketInv
<1> QED
  BY <1>1, <1>2, <1>3, PTL DEF Spec
=============================================================================
