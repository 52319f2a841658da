-------------------------- MODULE ResourceManager --------------------------
(***************************************************************************)
(* The resource manager of every program: ResourceManagerCore on S3 and on *)
(* the log file of its machine. The buckets are shared by the programs;    *)
(* log file and copy belong to one machine and outlive a program on it.    *)
(*                                                                         *)
(* No program awaits anything inside these operations, so its own          *)
(* coroutines do not interfere. Other programs do, and the machine may be  *)
(* stopped between any two accesses: every access is an action. pc[p] is:  *)
(*   "off"                             program p does not run              *)
(*   "check_files", "create_files",    in initialize_bucket                *)
(*   "check_logging", "create_logging"                                     *)
(*   "up"                              at work, logging                    *)
(*   "copied", "cleared", "uploaded"   in upload_log, after that step      *)
(*   "delete", "empty", "remove"       in delete_bucket, Instance Manager  *)
(*                                                                         *)
(* Lines are numbered in the order in which they are logged. The key of an *)
(* uploaded log is the instance, the second and whether it is the last.    *)
(***************************************************************************)
EXTENDS Naturals, FiniteSets

CONSTANTS
    Programs,
    instance_manager,   \* the one that deletes the files bucket when it ends
    StorageMayFail,     \* may an access to S3 fail?
    MaxLines,           \* bound: lines logged
    MaxSecond           \* bound: seconds

ASSUME ProgramsAssumption ==
    /\ instance_manager \in Programs
    /\ StorageMayFail \in BOOLEAN
    /\ MaxLines \in Nat /\ MaxSecond \in Nat

VARIABLES
    pc,
    buckets,        \* buckets that exist
    files_bucket,   \* the name that program p has for the files bucket
    log,            \* lines in the log file of p's machine
    copy,           \* lines in temporary_copy
    clean,          \* the argument of upload_log
    stored,         \* lines of every object in the logging bucket
    now,            \* seconds
    logged,         \* number of lines logged
    dropped         \* history: lines that went nowhere

bucketVars == <<buckets, files_bucket>>
fileVars == <<log, copy, clean>>
lineVars == <<stored, logged, dropped>>
vars == <<pc, bucketVars, fileVars, lineVars, now>>

PCs == {"off", "check_files", "create_files", "check_logging", "create_logging",
        "up", "copied", "cleared", "uploaded", "delete", "empty", "remove"}
Buckets == {"files", "logging"}
NoName == "none"
Keys == Programs \X (0 .. MaxSecond) \X BOOLEAN
Stored == UNION {stored[k] : k \in Keys}

Goto(p, label) == pc' = [pc EXCEPT ![p] = label]

Init ==
    /\ pc = [p \in Programs |-> "off"]
    /\ buckets = {}
    /\ files_bucket = [p \in Programs |-> NoName]
    /\ log = [p \in Programs |-> {}]
    /\ copy = [p \in Programs |-> {}]
    /\ clean = [p \in Programs |-> FALSE]
    /\ stored = [k \in Keys |-> {}]
    /\ now = 0
    /\ logged = 0
    /\ dropped = {}

-----------------------------------------------------------------------------
\* Mutant: the log file is opened with filemode 'w'.
OpenedAnew(p) == {}

\* basicConfig opens the log file for appending, creating it if needed.
Opened(p) == log[p]

Launch(p) ==
    /\ pc[p] = "off"
    /\ Goto(p, "check_files")
    /\ files_bucket' = [files_bucket EXCEPT ![p] = NoName]
    /\ log' = [log EXCEPT ![p] = Opened(p)]
    /\ clean' = [clean EXCEPT ![p] = FALSE]
    /\ UNCHANGED <<buckets, copy, lineVars, now>>

(***************************************************************************)
(* initialize_bucket, with create_bucket for both buckets: look whether    *)
(* the bucket exists, create it if not. A ClientError ends the             *)
(* initialisation: S3 refuses, or another program was faster.              *)
(***************************************************************************)
Check == [files |-> "check_files", logging |-> "check_logging"]
Create == [files |-> "create_files", logging |-> "create_logging"]

\* Mutant: both calls of create_bucket are assigned to files_bucket.
NamedByLast(p, b) == [files_bucket EXCEPT ![p] = b]

\* create_bucket returns the name; only that of the files bucket is used later.
Named(p, b) == [files_bucket EXCEPT ![p] = IF b = "files" THEN b ELSE @]

Initialized(p, b) ==
    /\ Goto(p, IF b = "files" THEN "check_logging" ELSE "up")
    /\ files_bucket' = Named(p, b)

CheckBucket(p, b) ==
    /\ pc[p] = Check[b]
    /\ \/ b \in buckets /\ Initialized(p, b)
       \/ b \notin buckets /\ Goto(p, Create[b]) /\ UNCHANGED files_bucket
       \/ StorageMayFail /\ Goto(p, "up") /\ UNCHANGED files_bucket
    /\ UNCHANGED <<buckets, fileVars, lineVars, now>>

CreateBucket(p, b) ==
    /\ pc[p] = Create[b]
    /\ \/ /\ b \notin buckets
          /\ buckets' = buckets \cup {b}
          /\ Initialized(p, b)
       \/ /\ StorageMayFail \/ b \in buckets
          /\ Goto(p, "up")
          /\ UNCHANGED bucketVars
    /\ UNCHANGED <<fileVars, lineVars, now>>

\* Mutant: every program deletes the bucket.
AnyoneDeletes == Programs

\* The programs whose start_instance ends with delete_bucket.
Deleters == {instance_manager}

(***************************************************************************)
(* delete_bucket(files_bucket), the last thing a program does: look for    *)
(* the bucket, delete its objects, delete the bucket. Without a name, or   *)
(* if S3 fails, it raises, and the program ends with the bucket there.     *)
(***************************************************************************)
CheckDelete(p) ==
    /\ pc[p] = "delete"
    /\ \/ files_bucket[p] \in buckets /\ Goto(p, "empty")
       \/ (StorageMayFail \/ files_bucket[p] \notin buckets) /\ Goto(p, "off")
    /\ UNCHANGED <<bucketVars, fileVars, lineVars, now>>

EmptyBucket(p) ==
    /\ pc[p] = "empty"
    /\ Goto(p, "remove") \/ (StorageMayFail /\ Goto(p, "off"))
    /\ UNCHANGED <<bucketVars, fileVars, lineVars, now>>

\* S3 deletes no bucket with objects in it: a program that is up may have stored
\* another file since the bucket was emptied.
MayHaveStored(p) == \E q \in Programs \ {p} : pc[q] = "up"

RemoveBucket(p) ==
    /\ pc[p] = "remove"
    /\ Goto(p, "off")
    /\ \/ buckets' = buckets \ {files_bucket[p]}
       \/ (StorageMayFail \/ MayHaveStored(p)) /\ UNCHANGED buckets
    /\ UNCHANGED <<files_bucket, fileVars, lineVars, now>>

-----------------------------------------------------------------------------
(***************************************************************************)
(* Logging. Once the log file is removed, the handler still writes to the  *)
(* file that has no name any more: those lines go nowhere.                 *)
(***************************************************************************)
NewLine == IF logged < MaxLines THEN {logged + 1} ELSE {}

Removed(p) == clean[p] /\ pc[p] \in {"cleared", "uploaded", "delete", "empty", "remove"}

\* A line is logged, and the lines of `gone` are dropped.
Log(p, gone) ==
    /\ logged' = logged + Cardinality(NewLine)
    /\ log' = [log EXCEPT ![p] = IF Removed(p) THEN @ ELSE @ \cup NewLine]
    /\ dropped' = dropped \cup gone \cup IF Removed(p) THEN NewLine ELSE {}

LogLine(p) ==
    /\ pc[p] \in {"create_files", "create_logging", "up", "delete", "empty", "remove"}
    /\ Log(p, {})
    /\ UNCHANGED <<pc, bucketVars, copy, clean, stored, now>>

(***************************************************************************)
(* upload_log(c), step by step. It is called every LOGGING_INTERVAL, when  *)
(* a worker's process() fails, and when a program ends (c is TRUE then).   *)
(***************************************************************************)
CopyLog(p, c) ==
    /\ pc[p] = "up"
    /\ Goto(p, "copied")
    /\ copy' = [copy EXCEPT ![p] = log[p]]
    /\ clean' = [clean EXCEPT ![p] = c]
    /\ UNCHANGED <<bucketVars, log, lineVars, now>>

\* Mutant: the log is only emptied when it is removed.
KeptUnlessClean(p) == IF clean[p] THEN {} ELSE log[p]

\* The file is removed if clean, and emptied otherwise.
Emptied(p) == {}

ClearLog(p) ==
    /\ pc[p] = "copied"
    /\ Goto(p, "cleared")
    /\ log' = [log EXCEPT ![p] = Emptied(p)]
    /\ UNCHANGED <<bucketVars, copy, clean, lineVars, now>>

\* upload_file for the copy: the object of the same instance, second and flag
\* is replaced. A missing bucket and a failed upload are swallowed, and the
\* duration of the upload is logged.
UploadLog(p) ==
    /\ pc[p] = "cleared"
    /\ Goto(p, "uploaded")
    /\ LET key == <<p, now, clean[p]>>
       IN  \/ /\ "logging" \in buckets
              /\ stored' = [stored EXCEPT ![key] = copy[p]]
              /\ Log(p, stored[key])
           \/ /\ StorageMayFail \/ "logging" \notin buckets
              /\ Log(p, copy[p])
              /\ UNCHANGED stored
    /\ UNCHANGED <<bucketVars, copy, clean, now>>

\* What follows the last upload of a program.
Ends(p) == IF p \in Deleters THEN "delete" ELSE "off"

Uploaded(p) == Goto(p, IF clean[p] THEN Ends(p) ELSE "up")

RemoveCopy(p) ==
    /\ pc[p] = "uploaded"
    /\ Uploaded(p)
    /\ copy' = [copy EXCEPT ![p] = {}]
    /\ UNCHANGED <<bucketVars, log, clean, lineVars, now>>

\* Looking for the bucket raises before the upload: upload_log is left, nothing
\* is logged and the copy stays until it is overwritten.
UploadRaises(p) ==
    /\ pc[p] = "cleared"
    /\ StorageMayFail
    /\ Uploaded(p)
    /\ dropped' = dropped \cup copy[p]
    /\ UNCHANGED <<bucketVars, fileVars, stored, logged, now>>

-----------------------------------------------------------------------------
\* The program or its machine ends at once. The copy of the log stays behind;
\* nothing reads it before it is overwritten.
Crash(p) ==
    /\ pc[p] # "off"
    /\ Goto(p, "off")
    /\ dropped' = IF pc[p] = "cleared" THEN dropped \cup copy[p] ELSE dropped
    /\ UNCHANGED <<bucketVars, fileVars, stored, logged, now>>

Tick ==
    /\ now < MaxSecond
    /\ now' = now + 1
    /\ UNCHANGED <<pc, bucketVars, fileVars, lineVars>>

Next ==
    \/ Tick
    \/ \E p \in Programs :
        \/ Launch(p) \/ Crash(p) \/ LogLine(p)
        \/ CheckDelete(p) \/ EmptyBucket(p) \/ RemoveBucket(p)
        \/ \E b \in Buckets : CheckBucket(p, b) \/ CreateBucket(p, b)
        \/ \E c \in BOOLEAN : CopyLog(p, c)
        \/ ClearLog(p) \/ UploadLog(p) \/ UploadRaises(p) \/ RemoveCopy(p)

Spec == Init /\ [][Next]_vars

-----------------------------------------------------------------------------
\* Types of the state.
TypeOK ==
    /\ pc \in [Programs -> PCs]
    /\ buckets \subseteq Buckets
    /\ files_bucket \in [Programs -> {NoName, "files"}]
    /\ log \in [Programs -> SUBSET Nat] /\ copy \in [Programs -> SUBSET Nat]
    /\ clean \in [Programs -> BOOLEAN]
    /\ stored \in [Keys -> SUBSET Nat]
    /\ now \in 0 .. MaxSecond /\ logged \in 0 .. MaxLines
    /\ dropped \subseteq Nat

\* Lines that are neither in a log file nor uploaded, on their way between.
UnderWay == UNION {copy[p] : p \in {q \in Programs : pc[q] = "cleared"}}

\* Every line that was logged is in a log file, on its way, or uploaded, unless
\* the very upload that carried it failed, was cut off or was overwritten by one
\* of the same second, or it was logged after the file was removed. Programs
\* that end between two steps of upload_log, and start again, lose no others.
LinesAccounted ==
    1 .. logged = (UNION {log[p] : p \in Programs}) \cup UnderWay \cup Stored \cup dropped

\* No line is uploaded twice, so the evaluation counts no metric twice, also
\* when a program ends in the middle of upload_log and starts again.
UploadedOnce ==
    /\ \A k, l \in Keys : k # l => stored[k] \cap stored[l] = {}
    /\ \A p \in Programs : Stored \cap (log[p] \cup UnderWay) = {}

\* As long as the Instance Manager runs and has set files_bucket, the bucket is
\* there for every program, whichever of them found or created it and whichever
\* ended since. An upload to a missing bucket is swallowed, and would leave a
\* task without its file.
FilesBucketThere ==
    pc[instance_manager] # "off" /\ files_bucket[instance_manager] # NoName
    => files_bucket[instance_manager] \in buckets
=============================================================================
