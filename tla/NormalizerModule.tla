-------------------------- MODULE NormalizerModule --------------------------
(***************************************************************************)
(* NormalizerModule: the stateless worker processes.                       *)
(*                                                                         *)
(* action() is cut where another process can look in between: taking the   *)
(* job, the download, the split, each MID upload, each PairPut and the     *)
(* final JobDone.  Waiting (idle sleep) is a disabled action.              *)
(***************************************************************************)
EXTENDS SharedState, FiniteSets

CONSTANT Worker     \* the module processes, WORKER_COUNT of them

ASSUME WorkerAssumption == IsFiniteSet(Worker)

VARIABLES
    wpc,        \* where each worker stands in action()
    wjob,       \* the job it took from the queue, or None
    wmid,       \* seconds of outcome.processed still to be uploaded
    wpair,      \* seconds of outcome.unprocessed still to be sent
    wstop       \* the workers asked to stop (is_stop)

moduleVars == <<wpc, wjob, wmid, wpair, wstop>>

WorkerPc == {"idle", "download", "split", "deliver", "failed",
             "stopped", "crashed"}
AtWork == {"download", "split", "deliver", "failed"}

(* A worker holds a job while it is at it, and delivers segments of its     *)
(* file only; a crashed one stays as it was.                                *)
ModuleTypeOK ==
    /\ wpc \in [Worker -> WorkerPc]
    /\ wjob \in [Worker -> Job \cup {None}]
    /\ wmid \in [Worker -> SUBSET Second]
    /\ wpair \in [Worker -> SUBSET Second]
    /\ wstop \subseteq Worker
    /\ \A w \in Worker :
          /\ wpc[w] \in {"idle", "stopped"} => wjob[w] = None
          /\ wpc[w] \in AtWork => wjob[w] \in Job
          /\ wpc[w] \notin {"deliver", "crashed"} => wmid[w] = {} /\ wpair[w] = {}
          /\ wpc[w] = "deliver" =>
                /\ wmid[w] \subseteq Processed(wjob[w].file)
                /\ wpair[w] \subseteq Unprocessed(wjob[w].file)

ModuleInit ==
    /\ wpc = [w \in Worker |-> "idle"]
    /\ wjob = [w \in Worker |-> None]
    /\ wmid = [w \in Worker |-> {}]
    /\ wpair = [w \in Worker |-> {}]
    /\ wstop = {}

Goto(w, from, to) == wpc[w] = from /\ wpc' = [wpc EXCEPT ![w] = to]

-----------------------------------------------------------------------------
(* run(): the loop tests is_stop before each action(); then the job pop.    *)
TakeJob(w) ==
    /\ w \notin wstop
    /\ Goto(w, "idle", "download")
    /\ PopJob
    /\ wjob' = [wjob EXCEPT ![w] = Head(jobQueue)]
    /\ UNCHANGED <<mailbox, rawCopy, cache, object, wmid, wpair, wstop>>

WorkerExits(w) ==
    /\ w \in wstop
    /\ Goto(w, "idle", "stopped")
    /\ UNCHANGED <<sharedVars, wjob, wmid, wpair, wstop>>

(* The destination is the cache directory plus the raw file's name.         *)
Download(w) ==
    /\ Goto(w, "download", "split")
    /\ rawCopy' = rawCopy \cup {wjob[w].file}
    /\ UNCHANGED <<jobQueue, mailbox, cache, object, wjob, wmid, wpair, wstop>>

(* split_once writes the segments of these seconds to their save paths,     *)
(* over whatever is there.                                                  *)
Written(f, S) ==
    [p \in CachePath |->
        IF \E s \in S : p = SavePath(f, s) THEN <<f, p[2]>> ELSE cache[p]]

(* _split_pcap: split the raw copy, then remove it.                         *)
Split(w) ==
    LET f == wjob[w].file
    IN  /\ Goto(w, "split", "deliver")
        /\ f \in rawCopy
        /\ rawCopy' = rawCopy \ {f}
        /\ cache' = Written(f, Span[f])
        /\ wmid' = [wmid EXCEPT ![w] = Processed(f)]
        /\ wpair' = [wpair EXCEPT ![w] = Unprocessed(f)]
        /\ UNCHANGED <<jobQueue, mailbox, object, wjob, wstop>>

(* _upload_processed: upload what the save path holds, then remove it.      *)
UploadMid(w) ==
    \E s \in wmid[w] :
        LET path == SavePath(wjob[w].file, s)
        IN  /\ Goto(w, "deliver", "deliver")
            /\ IsEarliest(s, wmid[w])
            /\ cache[path] # None
            /\ Upload(MidName(s), <<cache[path]>>)
            /\ Remove({path})
            /\ wmid' = [wmid EXCEPT ![w] = @ \ {s}]
            /\ UNCHANGED <<jobQueue, mailbox, rawCopy, wjob, wpair, wstop>>

(* _send_unprocessed_to_manager, once every MID is uploaded.                *)
SendPair(w) ==
    \E s \in wpair[w] :
        LET item == [src |-> SavePath(wjob[w].file, s), out |-> s,
                     job |-> wjob[w]]
        IN  /\ Goto(w, "deliver", "deliver")
            /\ wmid[w] = {}
            /\ IsEarliest(s, wpair[w])
            /\ Send(PairPut(s, item))
            /\ wpair' = [wpair EXCEPT ![w] = @ \ {s}]
            /\ UNCHANGED <<jobQueue, rawCopy, cache, object, wjob, wmid, wstop>>

-----------------------------------------------------------------------------
(* The exceptions of _process_file, all caught in action(): the storage or  *)
(* the disk fails ("job"), or another process has removed the file meant.   *)
(* Building and sending PairPuts repeats lookups that already succeeded.    *)
DownloadRaises(w) ==
    /\ Goto(w, "download", "failed")
    /\ "job" \in Fault
    /\ UNCHANGED <<sharedVars, wjob, wmid, wpair, wstop>>

(* The segments before the failing one are already written; all of them are *)
(* when it is the removal of the raw copy that fails.                       *)
SplitRaises(w) ==
    LET f == wjob[w].file
    IN  /\ Goto(w, "split", "failed")
        /\ \/ f \notin rawCopy /\ cache' = cache
           \/ /\ f \in rawCopy /\ "job" \in Fault
              /\ \E S \in {{s \in Span[f] : s < n} : n \in Span[f]}
                          \cup {Span[f]} : cache' = Written(f, S)
        /\ UNCHANGED <<jobQueue, mailbox, rawCopy, object,
                       wjob, wmid, wpair, wstop>>

(* The MIDs before the failing one are already uploaded; no PairPut is sent.*)
UploadRaises(w) ==
    /\ Goto(w, "deliver", "failed")
    /\ \E s \in wmid[w] :
           /\ IsEarliest(s, wmid[w])
           /\ "job" \in Fault \/ cache[SavePath(wjob[w].file, s)] = None
    /\ wmid' = [wmid EXCEPT ![w] = {}]
    /\ wpair' = [wpair EXCEPT ![w] = {}]
    /\ UNCHANGED <<sharedVars, wjob, wstop>>

(* Faulty variant: no finally clause, a failed job is not reported.         *)
Report_OnlySuccess(w, ok) ==
    /\ IF ok THEN /\ Goto(w, "deliver", "idle")
                  /\ wmid[w] = {} /\ wpair[w] = {}
                  /\ Send(JobDone(wjob[w], ok))
             ELSE Goto(w, "failed", "idle") /\ UNCHANGED mailbox
    /\ wjob' = [wjob EXCEPT ![w] = None]
    /\ UNCHANGED <<jobQueue, rawCopy, cache, object, wmid, wpair, wstop>>

(* The finally clause of action(): the report is sent either way.           *)
Report(w, ok) ==
    /\ IF ok THEN /\ Goto(w, "deliver", "idle")
                  /\ wmid[w] = {} /\ wpair[w] = {}
             ELSE Goto(w, "failed", "idle")
    /\ Send(JobDone(wjob[w], ok))
    /\ wjob' = [wjob EXCEPT ![w] = None]
    /\ UNCHANGED <<jobQueue, rawCopy, cache, object, wmid, wpair, wstop>>

-----------------------------------------------------------------------------
(* The environment.  A killed process runs no finally clause and nothing    *)
(* restarts it; python_library sets the stop flag of each process.          *)
WorkerCrashes(w) ==
    /\ "crash" \in Fault
    /\ wpc[w] \notin {"stopped", "crashed"}
    /\ wpc' = [wpc EXCEPT ![w] = "crashed"]
    /\ UNCHANGED <<sharedVars, wjob, wmid, wpair, wstop>>

StopWorker(w) ==
    /\ "stop" \in Fault
    /\ w \notin wstop
    /\ wstop' = wstop \cup {w}
    /\ UNCHANGED <<sharedVars, wpc, wjob, wmid, wpair>>

ModuleStartsAgain ==
    /\ wpc' = [w \in Worker |-> "idle"]
    /\ wjob' = [w \in Worker |-> None]
    /\ wmid' = [w \in Worker |-> {}] /\ wpair' = [w \in Worker |-> {}]
    /\ wstop' = {}

WorkerStep(w) ==
    \/ TakeJob(w) \/ WorkerExits(w) \/ Download(w) \/ Split(w)
    \/ UploadMid(w) \/ SendPair(w)
    \/ DownloadRaises(w) \/ SplitRaises(w) \/ UploadRaises(w)
    \/ Report(w, TRUE) \/ Report(w, FALSE)

ModuleNext ==
    \E w \in Worker : WorkerStep(w) \/ WorkerCrashes(w) \/ StopWorker(w)

=============================================================================
