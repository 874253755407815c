----------------------------- MODULE SharedState -----------------------------
(***************************************************************************)
(* What the manager and module processes share: the two python_library     *)
(* queues, the local disk and the S3 buckets.                              *)
(*                                                                         *)
(* The library is not in the repository; its queues are modelled from how  *)
(* the code uses them.  pop_* returns None on an empty queue and the       *)
(* callers sleep and retry, so popping waits for an element.  Pushes never *)
(* fail.  Each sender's messages arrive in the order they were sent; those *)
(* of different senders interleave freely, because the sends do.           *)
(***************************************************************************)
EXTENDS Recording, Sequences

CONSTANTS
    Request,    \* the messages clients push to the Redis list
    Fault,      \* the kinds of failure the environment may produce
    None        \* Python's None

FaultKind == {"listing", "job", "merge", "sweep",
              "stop", "crash", "redis", "restart"}

(* A job is a StorageFile.  The request that pushed it is an observer's     *)
(* annotation: neither process can read it.                                 *)
Job == [req : Request, file : File]

ASSUME SharedAssumption ==
    /\ Fault \subseteq FaultKind
    /\ None \notin Request \cup Segment \cup Job

VARIABLES
    jobQueue,   \* shared_job_queue: raw files to be processed
    mailbox,    \* the manager's shared queue: worker messages
    rawCopy,    \* local disk: raw files downloaded and not yet removed
    cache,      \* local disk: the segment each split file holds, or None
    object      \* S3 STORAGE: the segments each object holds, in order

sharedVars == <<jobQueue, mailbox, rawCopy, cache, object>>

-----------------------------------------------------------------------------
(* UnprocessedPcap: out_file_path and prefix_path are functions of the      *)
(* second; job is again the observer's.                                     *)
Item == [src : CachePath, out : Second, job : Job]

JobDoneMessage == [type : {"WORKER_JOB_DONE"}, success : BOOLEAN, job : Job]
PairPutMessage == [type : {"WORKER_PAIR_PUT"}, key : Second, item : Item]
Message == JobDoneMessage \cup PairPutMessage

JobDone(j, ok)   == [type |-> "WORKER_JOB_DONE", success |-> ok, job |-> j]
PairPut(k, item) == [type |-> "WORKER_PAIR_PUT", key |-> k, item |-> item]

SharedTypeOK ==
    /\ jobQueue \in Seq(Job)
    /\ mailbox \in Seq(Message)
    /\ rawCopy \subseteq File
    /\ cache \in [CachePath -> Segment \cup {None}]
    /\ object \in [ObjectName -> Seq(Segment)]

SharedInit ==
    /\ jobQueue = <<>>
    /\ mailbox = <<>>
    /\ rawCopy = {}
    /\ cache = [p \in CachePath |-> None]
    /\ object = [n \in ObjectName |-> <<>>]

-----------------------------------------------------------------------------
PushJob(j)  == jobQueue' = Append(jobQueue, j)
PopJob      == jobQueue # <<>> /\ jobQueue' = Tail(jobQueue)
Send(m)     == mailbox' = Append(mailbox, m)
Receive     == mailbox # <<>> /\ mailbox' = Tail(mailbox)

(* IStorage.upload replaces the object of that name as a whole.             *)
Upload(name, content) == object' = [object EXCEPT ![name] = content]

(* os.remove, guarded by os.path.isfile in every caller.                    *)
Remove(paths) ==
    cache' = [p \in CachePath |-> IF p \in paths THEN None ELSE cache[p]]

-----------------------------------------------------------------------------
(* A segment is stored when the object of its name holds it.                *)
Stored(f, s) ==
    LET content == object[NameOf(f, s)]
    IN  \E i \in DOMAIN content : content[i] = <<f, s>>

=============================================================================
