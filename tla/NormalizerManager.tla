-------------------------- MODULE NormalizerManager --------------------------
(***************************************************************************)
(* NormalizerManager: takes one request at a time, pushes its files as     *)
(* jobs, drains the workers' messages until the progress counter says the  *)
(* cycle is complete, merges pairs on the way, uploads the unpaired rest   *)
(* and notifies.                                                           *)
(*                                                                         *)
(* _handle_request is cut where another process can look in between: each  *)
(* push, each message, the merge, its upload, each upload of the sweep.    *)
(* Waiting (the drain's idle sleep) is a disabled action.                  *)
(***************************************************************************)
EXTENDS SharedState, PairBuckets, JobProgress, RequestListener

CONSTANTS
    Envelope,   \* Envelope[r]: the body of message r as the listener sees it
    Folder      \* Folder[r]: the files its cycle collects, in listing order

ASSUME ManagerAssumption ==
    /\ \A r \in Request : IsEnvelope(Envelope[r])
    /\ Folder \in [Request -> Seq(File)]
    /\ \A r \in Request : \A i, j \in DOMAIN Folder[r] :
           Folder[r][i] = Folder[r][j] => i = j

VARIABLES
    inbox,      \* the Redis list, oldest first
    status,     \* what each request's client could know of it
    mpc,        \* where the manager stands
    current,    \* the request being handled, or None
    toPush,     \* jobs of the cycle not yet pushed
    buckets,    \* self._pair_buckets
    progress,   \* self._progress
    pair,       \* the paired_list of _merge_pair
    merged,     \* content of the merge file
    mergeFiles, \* local disk: the seconds whose merge file is there
    unpaired,   \* buckets the sweep has still to upload
    mstop,      \* the manager was asked to stop (is_stop)
    disturbed   \* observer: this process cut a cycle short or may do so

managerVars == <<inbox, status, mpc, current, toPush, buckets, progress,
                 pair, merged, mergeFiles, unpaired, mstop, disturbed>>
cycleVars   == <<pair, merged, mergeFiles, unpaired>>
control     == <<mstop, disturbed>>

(* "success" and the last three are the notifications: notify_success, and  *)
(* notify_failure for some failed jobs, for an exception before any job was *)
(* pushed, and for an exception after that.  The client of a lost request   *)
(* hears nothing: it went down with the process or the connection.          *)
Status == {"unsent", "queued", "dropped", "running", "lost",
           "success", "partial", "unlisted", "aborted"}
Answer == {"success", "partial", "unlisted", "aborted"}

ManagerPc == {"poll", "collect", "drain", "merge", "publish", "sweep",
              "stopped", "crashed"}
Handling == {"collect", "drain", "merge", "publish", "sweep"}

ManagerTypeOK ==
    /\ inbox \in Seq(Request)
    /\ status \in [Request -> Status]
    /\ mpc \in ManagerPc
    /\ current \in Request \cup {None}
    /\ toPush \in Seq(File)
    /\ buckets \in [Second -> Seq(Item)]
    /\ progress \in Progress
    /\ pair \in Seq(Item)
    /\ merged \in Seq(Segment)
    /\ mergeFiles \subseteq Second
    /\ unpaired \subseteq Seq(Item) \ {<<>>}
    /\ mstop \in BOOLEAN /\ disturbed \in BOOLEAN
    /\ mpc \in Handling <=> current \in Request
    /\ mpc \in {"merge", "publish"} => pair # <<>>

ManagerInit ==
    /\ inbox = <<>>
    /\ status = [r \in Request |-> "unsent"]
    /\ mpc = "poll"
    /\ current = None
    /\ toPush = <<>>
    /\ buckets = NoBuckets(Second)
    /\ progress = BeginCycle(0)
    /\ pair = <<>> /\ merged = <<>> /\ mergeFiles = {} /\ unpaired = {}
    /\ mstop = FALSE /\ disturbed = FALSE

-----------------------------------------------------------------------------
(* A client LPUSHes its request.                                            *)
Submit(r) ==
    /\ status[r] = "unsent"
    /\ status' = [status EXCEPT ![r] = "queued"]
    /\ inbox' = Append(inbox, r)
    /\ UNCHANGED <<sharedVars, mpc, current, toPush, buckets, progress,
                   cycleVars, control>>

(* listener.poll: BRPOP, then the checks.  An accepted request is handled.  *)
PollAccepts ==
    /\ mpc = "poll" /\ ~mstop /\ inbox # <<>>
    /\ Accepts(Envelope[Head(inbox)])
    /\ inbox' = Tail(inbox)
    /\ status' = [status EXCEPT ![Head(inbox)] = "running"]
    /\ current' = Head(inbox)
    /\ mpc' = "collect"
    /\ UNCHANGED <<sharedVars, toPush, buckets, progress, cycleVars, control>>

(* Any other message is lost; one on which poll raises takes the manager's  *)
(* process with it, since run() re-raises.                                  *)
PollLoses ==
    /\ mpc = "poll" /\ ~mstop /\ inbox # <<>>
    /\ ~Accepts(Envelope[Head(inbox)])
    /\ inbox' = Tail(inbox)
    /\ status' = [status EXCEPT ![Head(inbox)] = "dropped"]
    /\ mpc' = IF Raises(Envelope[Head(inbox)]) THEN "crashed" ELSE "poll"
    /\ UNCHANGED <<sharedVars, current, toPush, buckets, progress,
                   cycleVars, control>>

(* BRPOP times out and poll returns None: action() has nothing to do.       *)
PollTimesOut ==
    /\ mpc = "poll" /\ ~mstop /\ inbox = <<>>
    /\ UNCHANGED <<sharedVars, managerVars>>

ManagerExits ==
    /\ mpc = "poll" /\ mstop
    /\ mpc' = "stopped"
    /\ UNCHANGED <<sharedVars, inbox, status, current, toPush, buckets,
                   progress, cycleVars, control>>

-----------------------------------------------------------------------------
(* _handle_request returns to the poll loop with an answer for the client.  *)
AnswerWith(answer) ==
    /\ status' = [status EXCEPT ![current] = answer]
    /\ current' = None
    /\ mpc' = "poll"
    /\ UNCHANGED <<inbox, mstop>>

(* An exception unwinds _run_cycle: its locals are gone, the objects of     *)
(* self and everything already pushed stay.                                 *)
Unwind ==
    /\ toPush' = <<>> /\ pair' = <<>> /\ merged' = <<>> /\ unpaired' = {}
    /\ UNCHANGED <<sharedVars, buckets, progress>>

(* Faulty variant: the exception is swallowed without a notification.       *)
Abort_Silent(answer) ==
    /\ current' = None /\ mpc' = "poll" /\ Unwind
    /\ UNCHANGED <<inbox, status, control>>

Abort(answer) ==
    /\ AnswerWith(answer) /\ Unwind
    /\ disturbed' = (disturbed \/ answer = "aborted")

(* _run_cycle up to the push loop: listing, filter, fresh buckets, counter. *)
CollectFiles ==
    /\ mpc = "collect"
    /\ buckets' = NoBuckets(Second)
    /\ progress' = BeginCycle(Len(Folder[current]))
    /\ toPush' = Folder[current]
    /\ mpc' = "drain"
    /\ UNCHANGED <<sharedVars, inbox, status, current, cycleVars, control>>

(* The listing or the filter raises; nothing was reset.                     *)
CollectRaises ==
    /\ mpc = "collect" /\ "listing" \in Fault
    /\ Abort("unlisted") /\ UNCHANGED mergeFiles

PushNextJob ==
    /\ mpc = "drain" /\ toPush # <<>>
    /\ PushJob([req |-> current, file |-> Head(toPush)])
    /\ toPush' = Tail(toPush)
    /\ UNCHANGED <<mailbox, rawCopy, cache, object, inbox, status, mpc,
                   current, buckets, progress, cycleVars, control>>

-----------------------------------------------------------------------------
(* Faulty variant: the counter is not looked at between two messages.       *)
Draining_Batch == mpc = "drain" /\ toPush = <<>> /\ ~mstop

(* _drain_worker_messages: after the last push, while not done and not told *)
(* to stop, one message is received and dispatched.                         *)
Draining == mpc = "drain" /\ toPush = <<>> /\ ~IsDone(progress) /\ ~mstop

TakeJobDone ==
    /\ Draining /\ Receive
    /\ Head(mailbox).type = "WORKER_JOB_DONE"
    /\ progress' = MarkOneDone(progress, Head(mailbox).success)
    /\ UNCHANGED <<jobQueue, rawCopy, cache, object, inbox, status, mpc,
                   current, toPush, buckets, cycleVars, control>>

TakePairPut ==
    /\ Draining /\ Receive
    /\ Head(mailbox).type = "WORKER_PAIR_PUT"
    /\ LET put == Put(buckets, Head(mailbox).key, Head(mailbox).item)
       IN  /\ buckets' = put.buckets
           /\ pair' = put.paired
           /\ mpc' = IF put.paired = <<>> THEN "drain" ELSE "merge"
    /\ UNCHANGED <<jobQueue, rawCopy, cache, object, inbox, status, current,
                   toPush, progress, merged, mergeFiles, unpaired, control>>

(* Faulty variant: only the counter ends the loop.                          *)
LeaveDrain_OnlyDone ==
    /\ mpc = "drain" /\ toPush = <<>>
    /\ IsDone(progress)
    /\ unpaired' = Remaining(buckets)
    /\ buckets' = NoBuckets(Second)
    /\ mpc' = "sweep"
    /\ UNCHANGED <<sharedVars, inbox, status, current, toPush, progress,
                   pair, merged, mergeFiles, control>>

(* The loop ends, for either reason; the sweep takes what is left.          *)
LeaveDrain ==
    /\ mpc = "drain" /\ toPush = <<>>
    /\ IsDone(progress) \/ mstop
    /\ unpaired' = Remaining(buckets)
    /\ buckets' = NoBuckets(Second)
    /\ mpc' = "sweep"
    /\ UNCHANGED <<sharedVars, inbox, status, current, toPush, progress,
                   pair, merged, mergeFiles, control>>

-----------------------------------------------------------------------------
(* Faulty variant: of the merged pieces only the first is removed.         *)
Sources_FirstOnly(list) == {list[1].src}

Sources(list) == {list[i].src : i \in DOMAIN list}

(* _merge_pair.  The merge file is the first header and then the packets of *)
(* each piece in the order of the list, that is, of arrival.  It has a      *)
(* directory of its own and is named for the second.                        *)
MergePair ==
    /\ mpc = "merge"
    /\ \A p \in Sources(pair) : cache[p] # None
    /\ merged' = [i \in DOMAIN pair |-> cache[pair[i].src]]
    /\ mergeFiles' = mergeFiles \cup {pair[1].out}
    /\ mpc' = "publish"
    /\ UNCHANGED <<sharedVars, inbox, status, current, toPush, buckets,
                   progress, pair, unpaired, control>>

PublishPair ==
    /\ mpc = "publish"
    /\ Upload(PairName(pair[1].out), merged)
    /\ mergeFiles' = mergeFiles \ {pair[1].out}
    /\ Remove(Sources(pair))
    /\ pair' = <<>> /\ merged' = <<>>
    /\ mpc' = "drain"
    /\ UNCHANGED <<jobQueue, mailbox, rawCopy, inbox, status, current, toPush,
                   buckets, progress, unpaired, control>>

(* A source is missing, or the merge or the upload fails.  The merge file   *)
(* stays behind if it was opened: the first source is opened before it.     *)
MergeRaises ==
    /\ \/ mpc \in {"merge", "publish"} /\ "merge" \in Fault
       \/ mpc = "merge" /\ \E p \in Sources(pair) : cache[p] = None
    /\ \/ UNCHANGED mergeFiles
       \/ /\ mpc = "merge" /\ cache[pair[1].src] # None
          /\ mergeFiles' = mergeFiles \cup {pair[1].out}
    /\ Abort("aborted")

(* _upload_unpaired: the first piece of each bucket, under the name its     *)
(* merge would have had.                                                    *)
SweepNext ==
    /\ mpc = "sweep"
    /\ \E b \in unpaired :
           /\ cache[b[1].src] # None
           /\ Upload(PairName(b[1].out), <<cache[b[1].src]>>)
           /\ Remove({b[1].src})
           /\ unpaired' = unpaired \ {b}
    /\ UNCHANGED <<jobQueue, mailbox, rawCopy, inbox, status, mpc, current,
                   toPush, buckets, progress, pair, merged, mergeFiles,
                   control>>

SweepRaises ==
    /\ mpc = "sweep"
    /\ \E b \in unpaired : "sweep" \in Fault \/ cache[b[1].src] = None
    /\ Abort("aborted") /\ UNCHANGED mergeFiles

(* Faulty variant: failed jobs do not make the request a failure.           *)
Notify_Success ==
    /\ mpc = "sweep" /\ unpaired = {}
    /\ AnswerWith("success")
    /\ UNCHANGED <<sharedVars, toPush, buckets, progress, cycleVars, disturbed>>

(* The tail of _handle_request: one failed job makes the request a failure. *)
Notify ==
    /\ mpc = "sweep" /\ unpaired = {}
    /\ AnswerWith(IF progress.failure > 0 THEN "partial" ELSE "success")
    /\ UNCHANGED <<sharedVars, toPush, buckets, progress, cycleVars, disturbed>>

-----------------------------------------------------------------------------
(* python_library sets the stop flag of the process.                        *)
StopManager ==
    /\ "stop" \in Fault
    /\ ~mstop
    /\ mstop' = TRUE /\ disturbed' = TRUE
    /\ UNCHANGED <<sharedVars, inbox, status, mpc, current, toPush, buckets,
                   progress, cycleVars>>

(* Redis refuses or drops the connection: poll raises and run() re-raises.  *)
(* Where the answer to BRPOP is what was dropped, the message is lost too.  *)
RedisFails ==
    /\ "redis" \in Fault
    /\ mpc = "poll" /\ ~mstop
    /\ mpc' = "crashed"
    /\ \/ UNCHANGED <<inbox, status>>
       \/ /\ inbox # <<>>
          /\ inbox' = Tail(inbox)
          /\ status' = [status EXCEPT ![Head(inbox)] = "lost"]
    /\ UNCHANGED <<sharedVars, current, toPush, buckets, progress,
                   cycleVars, control>>

(* A killed process takes the request in its hands along.                   *)
LoseCurrent ==
    /\ current' = None
    /\ toPush' = <<>> /\ pair' = <<>> /\ merged' = <<>> /\ unpaired' = {}
    /\ status' = [r \in Request |-> IF r = current THEN "lost" ELSE status[r]]
    /\ UNCHANGED <<inbox, mergeFiles>>

ManagerCrashes ==
    /\ "crash" \in Fault
    /\ mpc \notin {"stopped", "crashed"}
    /\ mpc' = "crashed" /\ LoseCurrent
    /\ UNCHANGED <<sharedVars, buckets, progress, control>>

(* on_init of a new process: nothing of the old one is known to it.         *)
ManagerStartsAgain ==
    /\ LoseCurrent
    /\ mpc' = "poll"
    /\ buckets' = NoBuckets(Second) /\ progress' = BeginCycle(0)
    /\ mstop' = FALSE /\ disturbed' = FALSE

ManagerStep ==
    \/ PollAccepts \/ PollLoses \/ ManagerExits
    \/ CollectFiles \/ CollectRaises \/ PushNextJob
    \/ TakeJobDone \/ TakePairPut \/ LeaveDrain
    \/ MergePair \/ PublishPair \/ MergeRaises
    \/ SweepNext \/ SweepRaises \/ Notify

ManagerNext ==
    \/ ManagerStep \/ PollTimesOut
    \/ StopManager \/ RedisFails \/ ManagerCrashes
    \/ \E r \in Request : Submit(r)

=============================================================================
