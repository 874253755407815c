----------------------------- MODULE Normalizer -----------------------------
(***************************************************************************)
(* The normalization daemon: one NormalizerManager and the NormalizerModule*)
(* workers, run side by side by main(), over their shared queues, the      *)
(* local disk and S3.                                                      *)
(***************************************************************************)
EXTENDS NormalizerManager, NormalizerModule

vars == <<sharedVars, moduleVars, managerVars>>

Init == SharedInit /\ ModuleInit /\ ManagerInit

(* The daemon is killed as a whole, in whatever state, and started again:   *)
(* main() makes new processes and new queues.  The Redis list, the local    *)
(* disk and S3 outlive it; nothing on the disk is looked at or removed.     *)
Restart ==
    /\ "restart" \in Fault
    /\ ManagerStartsAgain /\ ModuleStartsAgain
    /\ jobQueue' = <<>> /\ mailbox' = <<>>
    /\ UNCHANGED <<rawCopy, cache, object>>

Next ==
    \/ Restart
    \/ ManagerNext /\ UNCHANGED moduleVars
    \/ ModuleNext /\ UNCHANGED managerVars

Spec == Init /\ [][Next]_vars

(* A process that is alive keeps running its loop.  Nothing is assumed of   *)
(* clients, of the outcome of a storage call or of the environment.         *)
Fairness ==
    /\ WF_vars(ManagerStep /\ UNCHANGED moduleVars)
    /\ \A w \in Worker : WF_vars(WorkerStep(w) /\ UNCHANGED managerVars)

FairSpec == Spec /\ Fairness

TypeOK == SharedTypeOK /\ ModuleTypeOK /\ ManagerTypeOK

-----------------------------------------------------------------------------
JobsOf(r) == {[req |-> r, file |-> Folder[r][i]] : i \in DOMAIN Folder[r]}

(* The jobs whose report the manager has not received: still to be pushed,  *)
(* queued, in a worker's hands, or reported and waiting in the mailbox.     *)
ToPush   == {[req |-> current, file |-> toPush[i]] : i \in DOMAIN toPush}
Queued   == {jobQueue[i] : i \in DOMAIN jobQueue}
Held     == {wjob[w] : w \in Worker} \ {None}
DoneAt   == {i \in DOMAIN mailbox : mailbox[i].type = "WORKER_JOB_DONE"}
Reported == {mailbox[i].job : i \in DoneAt}
InFlight == ToPush \cup Queued \cup Held \cup Reported

InCycle == mpc \in {"drain", "merge", "publish"}

(* This run of the daemon was told to stop or has aborted a cycle, with jobs*)
(* or messages possibly left behind.  A restart leaves nothing in memory.   *)
Interrupted == disturbed

Answers(r, a) == status[r] # a /\ status'[r] = a

-----------------------------------------------------------------------------
(* Safety. *)

(* The drain loop never waits for a report that cannot come: the counter    *)
(* owes no more reports than there are jobs whose report is outstanding.    *)
(* It holds whatever fails short of a killed worker, also after a cycle was *)
(* cut short (manager.py, _drain_worker_messages).                          *)
ReportsOwed == InCycle => progress.remaining <= Cardinality(InFlight)

(* The Redis list holds each queued request once and nothing else, and the  *)
(* one that runs is the one the manager handles: none is forgotten, handled *)
(* twice, or left running by a cycle that is over (listener.poll,           *)
(* manager.py, _handle_request).                                            *)
InLine ==
    /\ \A i \in DOMAIN inbox : status[inbox[i]] = "queued"
    /\ \A i, j \in DOMAIN inbox : inbox[i] = inbox[j] => i = j
    /\ \A r \in Request :
          /\ status[r] = "queued" => \E i \in DOMAIN inbox : inbox[i] = r
          /\ status[r] = "running" <=> r = current

(* When the counter ends the drain, nothing of the cycle is left: no job is *)
(* queued or being processed and no PairPut trails its JobDone.  Workers    *)
(* send their PairPuts first and the mailbox keeps each sender's order.     *)
CycleEndsDry ==
    [][LeaveDrain /\ ~Interrupted =>
          jobQueue = <<>> /\ mailbox = <<>> /\ \A w \in Worker : wjob[w] = None]_vars

(* notify_success is sent only when each file of the request was processed: *)
(* none of its jobs is outstanding and as many successes were counted as    *)
(* there were files (manager.py, _handle_request).                          *)
SuccessMeansProcessed ==
    [][\A r \in Request : Answers(r, "success") /\ ~Interrupted =>
          /\ JobsOf(r) \cap InFlight = {}
          /\ progress.success = Len(Folder[r])]_vars

(* Raw files laid out as the pairing expects: segments have cache paths of  *)
(* their own, a second is the edge of at most two files and inside at most  *)
(* one.                                                                     *)
OwnPaths ==
    \A p, q \in Segment : SavePath(p[1], p[2]) = SavePath(q[1], q[2]) => p = q

Adjoining ==
    /\ OwnPaths
    /\ \A p, q \in Segment :
          /\ \A x \in Segment :
                NameOf(p[1], p[2]) = NameOf(q[1], q[2])
                /\ NameOf(p[1], p[2]) = NameOf(x[1], x[2])
                => p = q \/ q = x \/ p = x
          /\ Position(p[1], p[2]) = "MID" /\ Position(q[1], q[2]) = "MID"
                /\ p[2] = q[2] => p = q

(* A failed job costs its own file only: when a cycle is answered, as many  *)
(* of its files are wholly in STORAGE as successes were counted, whoever    *)
(* uploaded their segments: a worker, a merge or the sweep.  For a success  *)
(* that is every file of the request.                                       *)
Complete(f) == \A s \in Span[f] : Stored(f, s)

CountedMeansStored ==
    [][\A r \in Request :
          /\ Answers(r, "success") \/ Answers(r, "partial")
          /\ ~Interrupted /\ Adjoining
          => Cardinality({j \in JobsOf(r) : Complete(j.file)'})
                >= progress.success]_vars

(* A merged object is made of the two halves of its second: segments of     *)
(* that second from two different files.                                    *)
MergesBothHalves ==
    \A s \in Second :
        LET content == object[PairName(s)]
        IN  Len(content) = 2 => /\ content[1][1] # content[2][1]
                                /\ content[1][2] = s /\ content[2][2] = s

(* A bucket never holds more than the one piece the sweep uploads: reading  *)
(* bucket[0] only (_upload_unpaired) leaves no piece behind.                *)
SweepLosesNothing ==
    /\ \A k \in Second : Len(buckets[k]) <= 1
    /\ \A b \in unpaired : Len(b) = 1

(* What was stored stays stored: no upload replaces an object by one that   *)
(* lacks a segment the object held.                                         *)
StoredStays ==
    [][\A p \in Segment : Stored(p[1], p[2]) => Stored(p[1], p[2])']_vars

(* Between cycles the local disk is clean as long as nothing failed: every  *)
(* download, split file, merge source and merge file was removed by whoever *)
(* used it.                                                                 *)
DiskCleanAtRest ==
    mpc = "poll" /\ (\A r \in Request : status[r] \in
                        {"unsent", "queued", "dropped", "unlisted", "success"})
        /\ ~mstop
    => /\ rawCopy = {} /\ mergeFiles = {}
       /\ \A p \in CachePath : cache[p] = None

(* Pieces of an earlier cycle never enter the buckets of a later one.       *)
BucketsFresh ==
    mpc \in {"drain", "merge", "publish"} =>
        \A k \in Second : \A i \in DOMAIN buckets[k] :
            buckets[k][i].job.req = current

-----------------------------------------------------------------------------
(* The service the daemon implements: its line of requests is the Redis     *)
(* list, its storage the segments the objects in S3 hold.                   *)
SegmentsOf(r) ==
    {p \in Segment : \E i \in DOMAIN Folder[r] : Folder[r][i] = p[1]}

Service == INSTANCE NormalizationService WITH
    Wanted  <- [r \in Request |-> SegmentsOf(r)],
    waiting <- inbox,
    outcome <- status,
    stored  <- {p \in Segment : Stored(p[1], p[2])}

(* The daemon, with everything that may fail in it and however often it is  *)
(* restarted, is such a service: requests are handled in order, one at a    *)
(* time and once (README.md, Redis LIST), and a success is in storage, also *)
(* of a request for files an earlier cycle left half done.  Raw files are   *)
(* laid out as Adjoining says.                                              *)
ServiceProvided == Service!Spec

-----------------------------------------------------------------------------
(* What the documents promise without reservation. *)

(* notify_success is never sent while a job of the request is outstanding:  *)
(* the drain goes on until every job has reported.                          *)
SuccessMeansComplete ==
    [][\A r \in Request :
          Answers(r, "success") => JobsOf(r) \cap InFlight = {}]_vars

(* The manager is a permanent process: no message takes it down.            *)
ManagerSurvives == mpc # "crashed"

-----------------------------------------------------------------------------
(* Liveness. *)

(* Every request a client queued is answered or dropped, or lost with the   *)
(* daemon or the connection that had it, whatever storage call fails and    *)
(* however often the daemon is restarted, as long as no process is killed   *)
(* alone or told to stop.  Only a manager that died of its Redis connection *)
(* and is not started again leaves a request waiting.                       *)
RequestAnswered ==
    \A r \in Request :
        status[r] = "queued" ~> \/ status[r] \in Answer \cup {"dropped", "lost"}
                               \/ mpc = "crashed"

(* A process told to stop leaves its loops: the manager even in the middle  *)
(* of a cycle whose workers have stopped or died before it, a worker after  *)
(* the job in its hands.                                                    *)
StopHonoured ==
    /\ mstop ~> mpc \in {"stopped", "crashed"} \/ ~mstop
    /\ \A w \in Worker :
          w \in wstop ~> wpc[w] \in {"stopped", "crashed"} \/ w \notin wstop

=============================================================================
