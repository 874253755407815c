----------------------------- MODULE DiskProofs -----------------------------
(***************************************************************************)
(* That every file on the local disk is somebody's, and is there as long   *)
(* as somebody needs it, for every set of files, requests and workers.     *)
(***************************************************************************)
EXTENDS PieceProofs

-----------------------------------------------------------------------------
(* A failure once on its way to the client stays noted.                     *)

(* No step takes back an answer.                                            *)
LEMMA AnswerStays ==
    ASSUME TypeOK, InLine, [Next]_vars, NEW r \in Request,
           status[r] \in Answer \cup {"lost"}
    PROVE  status'[r] = status[r]
<1>1. status \in [Request -> Status] /\ r # current /\ r \in Request
  BY DEF InLine, Answer, TypeOK, ManagerTypeOK
<1>2. inbox # <<>> => r # Head(inbox)
  <2> SUFFICES ASSUME inbox # <<>> PROVE r # Head(inbox)
    OBVIOUS
  <2>1. 1 \in DOMAIN inbox /\ inbox[1] = Head(inbox)
    BY HeadTailProperties, LenProperties, EmptySeq DEF TypeOK, ManagerTypeOK
  <2> QED
    BY <2>1 DEF InLine, Answer
<1>3. LineStep
  BY StepOfLine
<1> QED
  BY <1>1, <1>2, <1>3
     DEF LineStep, Quiet, Submit, TakenOff, Answered, AnswerWith, StopAsked, WentDown,
         LoseCurrent, Answer

(* The same of the failures among the answers.                              *)
LEMMA FailureStays ==
    ASSUME TypeOK, InLine, [Next]_vars,
           \E r \in Request : status[r] \in {"partial", "aborted", "lost"}
    PROVE  \E r \in Request : status'[r] \in {"partial", "aborted", "lost"}
BY AnswerStays DEF Answer

(* No worker takes back a failure: a failed job is reported, a dead worker  *)
(* keeps its job.                                                           *)
LEMMA WorkerNotes ==
    ASSUME TypeOK, NEW w \in Worker, UNCHANGED managerVars, FailureNoted,
           WorkerStep(w) \/ WorkerCrashes(w) \/ StopWorker(w)
    PROVE  FailureNoted'
<1> USE DEF TypeOK
<1>1. UNCHANGED <<status, mpc, progress>>
  BY DEF managerVars
<1>2. CASE \E r \in Request : status[r] \in {"partial", "aborted", "lost"}
  BY <1>1, <1>2 DEF FailureNoted
<1>3. CASE mpc \in {"drain", "merge", "publish", "sweep"} /\ progress.failure > 0
  BY <1>1, <1>3 DEF FailureNoted
<1>4. CASE \E i \in DoneAt : ~mailbox[i].success
  <2>1. PICK i \in DoneAt : ~mailbox[i].success
    BY <1>4
  <2>2. i \in DOMAIN mailbox' /\ mailbox'[i] = mailbox[i]
    <3>1. CASE \E m \in Message : Sends(w, m)
      BY <2>1, <3>1, MailIn DEF Sends, DoneAt, SharedTypeOK
    <3>2. ASSUME NEW ok \in BOOLEAN, Reports(w, ok)
          PROVE  i \in DOMAIN mailbox' /\ mailbox'[i] = mailbox[i]
      <4>1. JobDone(wjob[w], ok) \in Message
        BY <3>2 DEF Reports, JobDone, Message, JobDoneMessage
      <4> QED
        BY <2>1, <3>2, <4>1, MailIn DEF Reports, DoneAt, SharedTypeOK
    <3> QED
      BY <2>1, <3>1, <3>2, StepOfWorker DEF Takes, DoneAt
  <2> QED
    BY <2>1, <2>2 DEF FailureNoted, DoneAt
<1>5. CASE \E v \in Worker : wpc[v] \in {"failed", "crashed"} /\ wjob[v] # None
  <2>1. PICK v \in Worker : wpc[v] \in {"failed", "crashed"} /\ wjob[v] # None
    BY <1>5
  <2>2. CASE wpc'[v] \in {"failed", "crashed"} /\ wjob'[v] = wjob[v]
    BY <2>1, <2>2 DEF FailureNoted
  <2>3. CASE v = w /\ Report(w, FALSE)
    <3>1. wjob[w] \in Job /\ mailbox' = Append(mailbox, JobDone(wjob[w], FALSE))
      BY <2>3 DEF Report, Goto, Send, ModuleTypeOK, AtWork
    <3>2. JobDone(wjob[w], FALSE) \in Message
      BY <3>1 DEF JobDone, Message, JobDoneMessage
    <3>3. /\ Len(mailbox) + 1 \in DOMAIN mailbox'
          /\ mailbox'[Len(mailbox) + 1] = JobDone(wjob[w], FALSE)
      BY <3>1, <3>2, MailIn DEF SharedTypeOK
    <3>4. \E i \in DoneAt' : ~mailbox'[i].success
      BY <3>3 DEF DoneAt, JobDone
    <3> QED
      BY <3>4 DEF FailureNoted
  <2>4. CASE v # w
    <3>1. wpc'[v] = wpc[v] /\ wjob'[v] = wjob[v]
      BY <2>4
         DEF WorkerStep, TakeJob, WorkerExits, Download, Split, UploadMid, SendPair,
             DownloadRaises, SplitRaises, UploadRaises, Report, WorkerCrashes,
             StopWorker, Goto, ModuleTypeOK
    <3> QED
      BY <2>1, <2>2, <3>1
  <2>5. CASE v = w /\ ~Report(w, FALSE)
    <3>1. WorkerCrashes(w) \/ StopWorker(w)
      BY <2>1, <2>5
         DEF WorkerStep, TakeJob, WorkerExits, Download, Split, UploadMid, SendPair,
             DownloadRaises, SplitRaises, UploadRaises, Report, Goto
    <3> QED
      BY <2>1, <2>2, <2>5, <3>1 DEF WorkerCrashes, StopWorker, ModuleTypeOK
  <2> QED
    BY <2>3, <2>4, <2>5
<1> QED
  BY <1>2, <1>3, <1>4, <1>5 DEF FailureNoted

(* Nor does the manager: it counts a failed job, and says so in the end.    *)
LEMMA ManagerNotes ==
    ASSUME TypeOK, InLine, [Next]_vars, ManagerNext, UNCHANGED moduleVars,
           Undisturbed', FailureNoted
    PROVE  FailureNoted'
<1> USE DEF TypeOK
<1>1. UNCHANGED <<wpc, wjob>> /\ status \in [Request -> Status]
      /\ (mpc \in Handling => current \in Request)
  BY DEF moduleVars, ManagerTypeOK
<1>2. CASE \E r \in Request : status[r] \in {"partial", "aborted", "lost"}
  BY <1>2, FailureStays DEF FailureNoted
<1>3. CASE \E w \in Worker : wpc[w] \in {"failed", "crashed"} /\ wjob[w] # None
  BY <1>1, <1>3 DEF FailureNoted
<1>4. CASE mpc \in {"drain", "merge", "publish", "sweep"} /\ progress.failure > 0
  <2>1. CASE Notify
    <3>1. status' = [status EXCEPT ![current] = "partial"] /\ current \in Request
      BY <1>1, <1>4, <2>1 DEF Notify, AnswerWith, Handling
    <3> QED
      BY <1>1, <3>1 DEF FailureNoted
  <2>2. CASE TakeJobDone
    <3>1. mpc' = mpc /\ progress' = MarkOneDone(progress, Head(mailbox).success)
      BY <2>2 DEF TakeJobDone
    <3>2. progress'.failure > 0
      BY <1>4, <3>1 DEF MarkOneDone, ManagerTypeOK, Progress
    <3> QED
      BY <1>4, <3>1, <3>2 DEF FailureNoted
  <2>3. CASE ~Notify /\ ~TakeJobDone
    <3>1. mpc' \in {"drain", "merge", "publish", "sweep"} /\ progress' = progress
      BY <1>4, <2>3, CalmStep
         DEF ManagerStep, PollTimesOut, Submit, managerVars, PollAccepts, PollLoses,
             ManagerExits, CollectFiles, CollectRaises, PushNextJob, TakePairPut,
             LeaveDrain, MergePair, PublishPair, SweepNext
    <3> QED
      BY <1>4, <3>1 DEF FailureNoted
  <2> QED
    BY <2>1, <2>2, <2>3
<1>5. CASE \E i \in DoneAt : ~mailbox[i].success
  <2>1. PICK i \in DoneAt : ~mailbox[i].success
    BY <1>5
  <2>2. CASE UNCHANGED mailbox
    BY <2>1, <2>2 DEF FailureNoted, DoneAt
  <2>3. CASE /\ mailbox # <<>> /\ mailbox' = Tail(mailbox)
             /\ i # 1 \/ Head(mailbox).type # "WORKER_JOB_DONE"
    <3>1. i - 1 \in DOMAIN mailbox' /\ mailbox'[i - 1] = mailbox[i]
      BY <2>1, <2>3, MailOut DEF DoneAt, SharedTypeOK
    <3> QED
      BY <2>1, <3>1 DEF FailureNoted, DoneAt
  <2>4. CASE TakeJobDone /\ i = 1
    <3>1. mpc' = "drain" /\ progress' = MarkOneDone(progress, FALSE)
      <4>1. Head(mailbox) = mailbox[1] /\ mailbox[1] \in JobDoneMessage
        BY <2>1, <2>4, MailOut, ElementOfSeq, LenProperties
           DEF TakeJobDone, Receive, SharedTypeOK, DoneAt, Message, PairPutMessage
      <4> QED
        BY <2>1, <2>4, <4>1 DEF TakeJobDone, Draining, JobDoneMessage
    <3>2. progress'.failure > 0
      BY <3>1 DEF MarkOneDone, ManagerTypeOK, Progress
    <3> QED
      BY <3>1, <3>2 DEF FailureNoted
  <2> QED
    BY <2>2, <2>3, <2>4, CalmStep
       DEF ManagerStep, PollTimesOut, Submit, sharedVars, PollAccepts, PollLoses,
           ManagerExits, CollectFiles, CollectRaises, Abort, Unwind, PushNextJob,
           TakeJobDone, TakePairPut, Receive, LeaveDrain, MergePair, PublishPair,
           SweepNext, Notify
<1> QED
  BY <1>2, <1>3, <1>4, <1>5 DEF FailureNoted

-----------------------------------------------------------------------------
(* Every file on the disk has an owner.                                     *)

(* A step of a worker hands a file on, or notes a failure.                  *)
LEMMA WorkerOwns ==
    ASSUME TypeOK, TypeOK', NEW w \in Worker, UNCHANGED managerVars, DiskOwned,
           WorkerStep(w) \/ WorkerCrashes(w) \/ StopWorker(w)
    PROVE  DiskOwned'
<1> USE DEF TypeOK
<1> SUFFICES ASSUME ~FailureNoted'
             PROVE  RawOwned' /\ \A p \in CachePath : cache'[p] # None => PathOwned(p)'
  BY DEF DiskOwned
<1>1. ~FailureNoted
  BY WorkerNotes
<1>2. RawOwned /\ \A p \in CachePath : cache[p] # None => PathOwned(p)
  BY <1>1 DEF DiskOwned
<1>3. ~(DownloadRaises(w) \/ SplitRaises(w) \/ UploadRaises(w))
  <2> SUFFICES ASSUME DownloadRaises(w) \/ SplitRaises(w) \/ UploadRaises(w)
               PROVE  wpc'[w] = "failed" /\ wjob'[w] # None
    BY DEF FailureNoted
  <2>1. wpc'[w] = "failed"
    BY DEF DownloadRaises, SplitRaises, UploadRaises, Goto, ModuleTypeOK
  <2> QED
    BY <2>1, SharedAssumption DEF ModuleTypeOK, AtWork
<1>4. ~Report(w, FALSE)
  <2> SUFFICES ASSUME Report(w, FALSE) PROVE FALSE
    OBVIOUS
  <2>1. wjob[w] \in Job /\ mailbox' = Append(mailbox, JobDone(wjob[w], FALSE))
    BY DEF Report, Goto, Send, ModuleTypeOK, AtWork
  <2>2. JobDone(wjob[w], FALSE) \in Message
    BY <2>1 DEF JobDone, Message, JobDoneMessage
  <2>3. /\ Len(mailbox) + 1 \in DOMAIN mailbox'
        /\ mailbox'[Len(mailbox) + 1] = JobDone(wjob[w], FALSE)
    BY <2>1, <2>2, MailIn DEF SharedTypeOK
  <2> QED
    BY <2>3 DEF FailureNoted, DoneAt, JobDone
<1>5. CASE Download(w)
  <2>1. /\ rawCopy' = rawCopy \cup {wjob[w].file} /\ wpc[w] = "download"
        /\ wpc' = [wpc EXCEPT ![w] = "split"]
        /\ UNCHANGED <<mailbox, cache, wjob, wmid, wpair>>
    BY <1>5 DEF Download, Goto
  <2>2. RawOwned'
    BY <1>2, <2>1 DEF RawOwned, ModuleTypeOK
  <2>3. Sending' = Sending /\ InPlay' = InPlay
    BY <1>5, <2>1, NoPieceSent DEF Sending, ModuleTypeOK, Download, SendPair, Goto
  <2> QED
    BY <1>2, <2>1, <2>2, <2>3 DEF PathOwned
<1>6. CASE Split(w)
  <2> DEFINE f == wjob[w].file
  <2>1. /\ rawCopy' = rawCopy \ {f} /\ wpc[w] = "split" /\ f \in File
        /\ wpc' = [wpc EXCEPT ![w] = "deliver"]
        /\ cache' = Written(f, Span[f])
        /\ wmid' = [wmid EXCEPT ![w] = Processed(f)]
        /\ wpair' = [wpair EXCEPT ![w] = Unprocessed(f)]
        /\ UNCHANGED <<mailbox, wjob>>
    BY <1>6 DEF Split, Goto, ModuleTypeOK, AtWork, Job
  <2>2. RawOwned'
    BY <1>2, <2>1 DEF RawOwned, ModuleTypeOK
  <2>3. InPlay' = InPlay
    BY <1>6, <2>1, NoPieceSent DEF SendPair, Goto
  <2>4. ASSUME NEW p \in CachePath, cache'[p] # None PROVE PathOwned(p)'
    <3>1. CASE \E s \in Span[f] : p = SavePath(f, s)
      <4>1. wmid'[w] \cup wpair'[w] = Span[f] /\ w \in Sending' /\ wjob'[w].file = f
        BY <2>1 DEF Sending, ModuleTypeOK, Processed, Unprocessed
      <4> QED
        BY <3>1, <4>1 DEF PathOwned
    <3>2. CASE ~ \E s \in Span[f] : p = SavePath(f, s)
      <4>1. PathOwned(p)
        BY <1>2, <2>1, <2>4, <3>2 DEF Written
      <4>2. \A v \in Sending : /\ v \in Sending' /\ wjob'[v] = wjob[v]
                               /\ wmid'[v] = wmid[v] /\ wpair'[v] = wpair[v]
        BY <2>1 DEF Sending, ModuleTypeOK
      <4> QED
        BY <2>3, <4>1, <4>2 DEF PathOwned
    <3> QED
      BY <3>1, <3>2
  <2> QED
    BY <2>2, <2>4
<1>7. CASE UploadMid(w)
  <2>1. PICK s \in wmid[w] :
          /\ wpc[w] = "deliver" /\ wpc' = [wpc EXCEPT ![w] = "deliver"]
          /\ Remove({SavePath(wjob[w].file, s)})
          /\ wmid' = [wmid EXCEPT ![w] = @ \ {s}]
          /\ UNCHANGED <<mailbox, rawCopy, wjob, wpair>>
    BY <1>7 DEF UploadMid, Goto
  <2>2. wpc' = wpc /\ Sending' = Sending
    BY <2>1 DEF Sending, ModuleTypeOK
  <2>3. ~SendPair(w)
    BY <2>1 DEF SendPair, ModuleTypeOK
  <2>4. InPlay' = InPlay
    BY <1>7, <2>3, NoPieceSent DEF WorkerStep
  <2>5. ASSUME NEW p \in CachePath, cache'[p] # None PROVE PathOwned(p)'
    <3>1. p # SavePath(wjob[w].file, s) /\ PathOwned(p)
      BY <1>2, <2>1, <2>5 DEF Remove
    <3>2. \A v \in Sending : \A t \in wmid[v] :
              t \in wmid'[v] \/ (v = w /\ t = s)
      BY <2>1 DEF ModuleTypeOK, Sending
    <3> QED
      BY <2>1, <2>2, <2>4, <3>1, <3>2 DEF PathOwned
  <2> QED
    BY <1>2, <2>1, <2>2, <2>5 DEF RawOwned
<1>8. CASE SendPair(w)
  <2>1. PICK s \in wpair[w] :
          /\ InPlay' = InPlay \cup {Piece(wjob[w], s)}
          /\ wpc' = wpc /\ wpair' = [wpair EXCEPT ![w] = @ \ {s}]
          /\ UNCHANGED <<rawCopy, cache, wjob, wmid>>
    BY <1>8, PieceSent
  <2>2. Sending' = Sending
    BY <2>1 DEF Sending
  <2>3. ASSUME NEW p \in CachePath, PathOwned(p) PROVE PathOwned(p)'
    <3>1. \A v \in Sending : \A t \in wpair[v] :
              t \in wpair'[v] \/ (v = w /\ t = s)
      BY <2>1 DEF ModuleTypeOK, Sending
    <3>2. Piece(wjob[w], s).src = SavePath(wjob[w].file, s)
      BY DEF Piece
    <3> QED
      BY <2>1, <2>2, <2>3, <3>1, <3>2 DEF PathOwned
  <2> QED
    BY <1>2, <2>1, <2>3 DEF RawOwned
<1>9. CASE TakeJob(w) \/ WorkerExits(w) \/ Report(w, TRUE) \/ WorkerCrashes(w)
           \/ StopWorker(w)
  <2>1. UNCHANGED <<rawCopy, cache>>
    BY <1>9 DEF TakeJob, WorkerExits, Report, WorkerCrashes, StopWorker, sharedVars
  <2>2. \A v \in Worker : v # w => /\ wpc'[v] = wpc[v] /\ wjob'[v] = wjob[v]
                                   /\ wmid'[v] = wmid[v] /\ wpair'[v] = wpair[v]
    BY <1>9 DEF TakeJob, WorkerExits, Report, WorkerCrashes, StopWorker, Goto,
                ModuleTypeOK
  <2>3. InPlay' = InPlay
    <3>1. ~SendPair(w)
      BY <1>9 DEF TakeJob, WorkerExits, Report, WorkerCrashes, StopWorker, SendPair,
                  Goto, ModuleTypeOK
    <3> QED
      BY <3>1, NoPieceSent
  <2>4. CASE StopWorker(w)
    BY <1>2, <2>1, <2>3, <2>4 DEF StopWorker, RawOwned, PathOwned, Sending
  <2>5. CASE ~StopWorker(w)
    <3>1. wpc[w] # "split"
      <4> SUFFICES ASSUME wpc[w] = "split" PROVE wpc'[w] = "crashed" /\ wjob'[w] # None
        BY DEF FailureNoted
      <4> QED
        BY <1>9, <2>5, SharedAssumption
           DEF TakeJob, WorkerExits, Report, WorkerCrashes, Goto, ModuleTypeOK, AtWork
    <3>2. w \notin Sending \/ (wmid[w] = {} /\ wpair[w] = {})
      <4> SUFFICES ASSUME wpc[w] = "deliver", ~Report(w, TRUE)
                   PROVE  wpc'[w] = "crashed" /\ wjob'[w] # None
        BY DEF FailureNoted, Sending, Report
      <4>1. WorkerCrashes(w)
        BY <1>9, <2>5 DEF TakeJob, WorkerExits, Goto
      <4> QED
        BY <4>1, SharedAssumption DEF WorkerCrashes, ModuleTypeOK, AtWork
    <3>3. RawOwned'
      BY <1>2, <2>1, <2>2, <3>1 DEF RawOwned
    <3> QED
      BY <1>2, <2>1, <2>2, <2>3, <3>2, <3>3 DEF PathOwned, Sending
  <2> QED
    BY <2>4, <2>5
<1> QED
  BY <1>3, <1>4, <1>5, <1>6, <1>7, <1>8, <1>9 DEF WorkerStep

(* The manager removes the file of a piece when it lets go of it.           *)
LEMMA ManagerOwns ==
    ASSUME TypeOK, TypeOK', InLine, Accounted, SweepLosesNothing, Pieces,
           [Next]_vars, ManagerNext, UNCHANGED moduleVars, Undisturbed', DiskOwned
    PROVE  DiskOwned'
<1> SUFFICES ASSUME ~FailureNoted'
             PROVE  RawOwned' /\ \A p \in CachePath : cache'[p] # None => PathOwned(p)'
  BY DEF DiskOwned
<1>1. ~FailureNoted
  BY ManagerNotes
<1>2. RawOwned /\ \A p \in CachePath : cache[p] # None => PathOwned(p)
  BY <1>1 DEF DiskOwned
<1>3. Undisturbed /\ PieceOnce /\ TwoHalves
  BY CalmStep DEF Pieces
<1>4. UNCHANGED <<wpc, wjob, wmid, wpair>> /\ Sending' = Sending
  BY DEF moduleVars, Sending
<1>5. UNCHANGED rawCopy
  BY CalmStep
     DEF ManagerStep, PollTimesOut, Submit, sharedVars, PollAccepts, PollLoses,
         ManagerExits, CollectFiles, CollectRaises, Abort, Unwind, PushNextJob,
         TakeJobDone, TakePairPut, LeaveDrain, MergePair, PublishPair, SweepNext, Notify
<1>6. RawOwned'
  BY <1>2, <1>4, <1>5 DEF RawOwned
<1>7. CASE PublishPair \/ SweepNext
  <2>1. PICK G \in SUBSET InPlay : InPlay' = InPlay \ G /\ Remove({x.src : x \in G})
    BY <1>3, <1>7, PiecesLeave
  <2> SUFFICES ASSUME NEW p \in CachePath, cache'[p] # None PROVE PathOwned(p)'
    BY <1>6
  <2>2. PathOwned(p) /\ p \notin {x.src : x \in G}
    BY <1>2, <2>1 DEF Remove
  <2> QED
    BY <1>4, <2>1, <2>2 DEF PathOwned
<1>8. CASE ~PublishPair /\ ~SweepNext
  <2>1. InPlay' = InPlay
    BY <1>8, PiecesStay
  <2>2. UNCHANGED cache
    BY <1>8, CalmStep
       DEF ManagerStep, PollTimesOut, Submit, sharedVars, PollAccepts, PollLoses,
           ManagerExits, CollectFiles, CollectRaises, Abort, Unwind, PushNextJob,
           TakeJobDone, TakePairPut, LeaveDrain, MergePair, Notify
  <2> QED
    BY <1>2, <1>4, <1>6, <2>1, <2>2 DEF PathOwned
<1> QED
  BY <1>7, <1>8

-----------------------------------------------------------------------------
(* Outside of a cycle nothing is in play, nothing at work.                  *)
LEMMA RestOrCycle ==
    ASSUME TypeOK, Accounted, Undisturbed
    PROVE  \/ AtRest
           \/ mpc \in {"drain", "merge", "publish", "sweep"}
BY DryIsIdle DEF Accounted, InCycle, AtRest

(* At rest the disk is clean, unless the client was told of a failure or    *)
(* will not be told anything.                                               *)
LEMMA CleanAtRest ==
    ASSUME TypeOK, AtRest, DiskOwned
    PROVE  \/ \E r \in Request : status[r] \in {"partial", "aborted", "lost"}
           \/ mpc \in {"drain", "merge", "publish", "sweep"}
           \/ rawCopy = {} /\ \A p \in CachePath : cache[p] = None
<1>1. NoPiece /\ DoneAt = {} /\ \A w \in Worker : wjob[w] = None
  BY NothingInPlay DEF AtRest, Idle, DoneAt, TypeOK
<1>2. CASE FailureNoted
  BY <1>1, <1>2 DEF FailureNoted
<1>3. CASE RawOwned /\ \A p \in CachePath : cache[p] # None => PathOwned(p)
  <2>1. \A w \in Worker : wpc[w] # "split"
    BY <1>1, SharedAssumption DEF TypeOK, ModuleTypeOK, AtWork
  <2>2. rawCopy = {}
    BY <1>3, <2>1 DEF RawOwned
  <2> QED
    BY <1>1, <1>3, <2>2 DEF NoPiece, PathOwned
<1> QED
  BY <1>2, <1>3 DEF DiskOwned

(* A clean disk has only owners.                                            *)
LEMMA CleanIsOwned ==
    rawCopy = {} /\ (\A p \in CachePath : cache[p] = None) => DiskOwned
BY DEF DiskOwned, RawOwned

(* The same of the next state.                                              *)
LEMMA CleanIsOwnedNext ==
    ASSUME rawCopy' = {}, \A p \in CachePath : cache'[p] = None
    PROVE  DiskOwned'
BY DEF DiskOwned, RawOwned

(* A daemon that goes down, or whose manager does, had a request in its     *)
(* hands or was at rest.                                                    *)
LEMMA GoesDown ==
    ASSUME TypeOK, InLine, Accounted, ~disturbed, DiskAccounted, LoseCurrent,
           status \in [Request -> Status], UNCHANGED <<rawCopy, cache>>
    PROVE  \/ \E r \in Request : status'[r] = "lost"
           \/ /\ AtRest
              /\ \/ \E r \in Request : status'[r] \in {"partial", "aborted", "lost"}
                 \/ rawCopy' = {} /\ \A p \in CachePath : cache'[p] = None
<1>1. \A r \in Request : status'[r] = IF r = current THEN "lost" ELSE status[r]
  BY DEF LoseCurrent
<1>2. CASE current \in Request
  BY <1>1, <1>2
<1>3. CASE current \notin Request
  <2>1. mpc \notin Handling /\ \A r \in Request : status'[r] = status[r]
    BY <1>1, <1>3 DEF TypeOK, ManagerTypeOK
  <2>2. AtRest \/ \E r \in Request : status[r] = "lost"
    BY <2>1, RestOrCycle DEF DiskAccounted, Undisturbed, Handling
  <2>3. DiskOwned
    BY DEF DiskAccounted
  <2> QED
    BY <2>1, <2>2, <2>3, CleanAtRest DEF Handling
<1> QED
  BY <1>2, <1>3

(* Workers with nothing to do leave things so.                              *)
LEMMA WorkersRest ==
    ASSUME TypeOK, AtRest, NEW w \in Worker, UNCHANGED managerVars,
           WorkerStep(w) \/ WorkerCrashes(w) \/ StopWorker(w)
    PROVE  AtRest'
<1>1. Idle /\ wpc[w] \notin AtWork
  BY SharedAssumption DEF AtRest, Idle, TypeOK, ModuleTypeOK
<1>2. UNCHANGED <<jobQueue, mailbox, wjob>>
  BY <1>1
     DEF WorkerStep, TakeJob, PopJob, WorkerExits, Download, Split, UploadMid, SendPair,
         DownloadRaises, SplitRaises, UploadRaises, Report, WorkerCrashes, StopWorker,
         Goto, AtWork, Idle, sharedVars
<1> QED
  BY <1>2 DEF AtRest, Idle, managerVars, Waiting

(* What is on the disk at rest stays accounted for while it is not touched. *)
LEMMA RestOwns ==
    ASSUME TypeOK, InLine, [Next]_vars, AtRest, DiskOwned,
           mpc \notin {"drain", "merge", "publish", "sweep"},
           UNCHANGED <<rawCopy, cache>>
    PROVE  DiskOwned'
<1>1. CASE \E r \in Request : status[r] \in {"partial", "aborted", "lost"}
  BY <1>1, FailureStays DEF DiskOwned, FailureNoted
<1>2. CASE rawCopy = {} /\ \A p \in CachePath : cache[p] = None
  BY <1>2, CleanIsOwnedNext
<1> QED
  BY <1>1, <1>2, CleanAtRest

(* The merge file goes with its upload; what ends its cycle before that is  *)
(* noted by the answer.                                                     *)
LEMMA MergeFilesStep ==
    ASSUME TypeOK, InLine, [Next]_vars, MergeFilesOwned
    PROVE  MergeFilesOwned'
<1>1. CASE \E r \in Request : status[r] \in {"aborted", "lost"}
  BY <1>1, AnswerStays DEF Answer, MergeFilesOwned
<1>2. CASE Restart \/ ManagerCrashes \/ MergeRaises
  <2>1. LoseCurrent \/ Abort("aborted")
    BY <1>2 DEF Restart, ManagerStartsAgain, ManagerCrashes, MergeRaises
  <2>2. CASE current \in Request
    <3>1. status'[current] \in {"aborted", "lost"}
      BY <2>1, <2>2 DEF LoseCurrent, Abort, AnswerWith, TypeOK, ManagerTypeOK
    <3> QED
      BY <2>2, <3>1 DEF MergeFilesOwned
  <2>3. CASE current \notin Request
    <3>1. mpc \notin {"merge", "publish"}
      BY <2>3 DEF TypeOK, ManagerTypeOK, Handling
    <3>2. UNCHANGED mergeFiles
      BY <1>2, <3>1
         DEF Restart, ManagerStartsAgain, ManagerCrashes, MergeRaises, LoseCurrent
    <3> QED
      BY <1>1, <3>1, <3>2 DEF MergeFilesOwned
  <2> QED
    BY <2>2, <2>3
<1>3. CASE MergePair
  BY <1>1, <1>3 DEF MergePair, MergeFilesOwned
<1>4. CASE PublishPair
  BY <1>1, <1>4 DEF PublishPair, MergeFilesOwned
<1>5. CASE /\ UNCHANGED mergeFiles
           /\ mpc = "publish" => mpc' = "publish" /\ pair' = pair
  BY <1>1, <1>5 DEF MergeFilesOwned
<1> QED
  BY <1>2, <1>3, <1>4, <1>5
     DEF Next, vars, ManagerNext, ManagerStep, ModuleNext, PollAccepts, PollLoses,
         ManagerExits, CollectFiles, CollectRaises, PushNextJob, TakeJobDone,
         TakePairPut, Draining, LeaveDrain, SweepNext, SweepRaises, Notify,
         PollTimesOut, StopManager, RedisFails, Submit, managerVars, cycleVars

(* A manager that goes down leaves an account of the disk.                  *)
LEMMA ManagerGoesDown ==
    ASSUME TypeOK, InLine, Accounted, [Next]_vars, DiskAccounted, ManagerNext,
           UNCHANGED moduleVars, ~disturbed, ~disturbed', mpc' = "crashed",
           MergeFilesOwned'
    PROVE  DiskAccounted'
<1> SUFFICES /\ DiskOwned'
             /\ AtRest' \/ \E r \in Request : status'[r] = "lost"
  BY DEF DiskAccounted
<1>0. DiskOwned /\ status \in [Request -> Status]
  BY DEF DiskAccounted, TypeOK, ManagerTypeOK
<1>1. CASE \E r \in Request : status[r] = "lost"
  <2>1. \E r \in Request : status'[r] = "lost"
    BY <1>1, AnswerStays
  <2> QED
    BY <2>1 DEF DiskOwned, FailureNoted
<1>2. CASE ManagerCrashes
  <2>1. LoseCurrent /\ UNCHANGED <<rawCopy, cache, jobQueue, mailbox, buckets>>
    BY <1>2 DEF ManagerCrashes, sharedVars
  <2>2. CASE \E r \in Request : status'[r] = "lost"
    BY <2>2 DEF DiskOwned, FailureNoted
  <2>3. CASE /\ AtRest
             /\ \/ \E r \in Request : status'[r] \in {"partial", "aborted", "lost"}
                \/ rawCopy' = {} /\ \A p \in CachePath : cache'[p] = None
    <3>1. AtRest'
      BY <2>1, <2>3 DEF AtRest, Idle, LoseCurrent, moduleVars, Waiting
    <3>2. DiskOwned'
      BY <2>3, CleanIsOwnedNext DEF DiskOwned, FailureNoted
    <3> QED
      BY <3>1, <3>2
  <2> QED
    BY <1>0, <2>1, <2>2, <2>3, GoesDown
<1>3. CASE ~ManagerCrashes /\ AtRest /\ mpc \in {"poll", "crashed"}
  <2>1. UNCHANGED <<sharedVars, toPush, buckets, pair, unpaired>>
    BY <1>3 DEF ManagerNext, ManagerStep, PollAccepts, PollLoses, ManagerExits,
                CollectFiles, CollectRaises, PushNextJob, TakeJobDone, TakePairPut,
                Draining, LeaveDrain, MergePair, PublishPair, MergeRaises, SweepNext,
                SweepRaises, Notify, PollTimesOut, StopManager, RedisFails, Submit,
                managerVars, cycleVars
  <2>2. AtRest'
    BY <1>3, <2>1 DEF AtRest, Idle, sharedVars, moduleVars, Waiting
  <2>3. DiskOwned'
    BY <1>0, <1>3, <2>1, RestOwns DEF sharedVars
  <2> QED
    BY <2>2, <2>3
<1>4. CASE ~ManagerCrashes /\ mpc # "crashed"
  <2>1. mpc = "poll"
    BY <1>4 DEF ManagerNext, ManagerStep, PollAccepts, PollLoses, ManagerExits,
                CollectFiles, CollectRaises, PushNextJob, TakeJobDone, TakePairPut,
                Draining, LeaveDrain, MergePair, PublishPair, MergeRaises, SweepNext,
                SweepRaises, Notify, PollTimesOut, StopManager, RedisFails, Submit,
                Abort, AnswerWith, managerVars, TypeOK, ManagerTypeOK
  <2>2. AtRest
    BY <2>1, RestOrCycle DEF Undisturbed
  <2> QED
    BY <1>3, <1>4, <2>1, <2>2
<1> QED
  BY <1>1, <1>2, <1>3, <1>4 DEF DiskAccounted

(* As long as no cycle is cut short, each file on the disk belongs to       *)
(* whoever will remove it, or a failure is on its way to the client.        *)
THEOREM DiskCorrect == Spec /\ []~Interrupted => []DiskAccounted
<1>1. Init => DiskAccounted
  BY CleanIsOwned DEF Init, SharedInit, ManagerInit, DiskAccounted, MergeFilesOwned
<1>2. TypeOK /\ TypeOK' /\ InLine /\ Accounted /\ SweepLosesNothing /\ Pieces
      /\ ~Interrupted /\ DiskAccounted /\ [Next]_vars => DiskAccounted'
  <2> SUFFICES ASSUME TypeOK, TypeOK', InLine, Accounted, SweepLosesNothing, Pieces,
                      ~disturbed, ~disturbed', DiskAccounted, [Next]_vars
               PROVE  DiskAccounted'
    BY DEF Interrupted, DiskAccounted
  <2>0. MergeFilesOwned'
    BY MergeFilesStep DEF DiskAccounted
  <2>1. DiskOwned
    BY DEF DiskAccounted
  <2>2. CASE ManagerNext /\ UNCHANGED moduleVars
    <3>1. CASE mpc' = "crashed"
      BY <2>0, <2>2, <3>1, ManagerGoesDown
    <3>2. CASE mpc' # "crashed"
      BY <2>0, <2>1, <2>2, <3>2, ManagerOwns DEF Undisturbed, DiskAccounted
    <3> QED
      BY <3>1, <3>2
  <2>3. CASE ModuleNext /\ UNCHANGED managerVars
    <3>1. PICK w \in Worker : WorkerStep(w) \/ WorkerCrashes(w) \/ StopWorker(w)
      BY <2>3 DEF ModuleNext
    <3>2. DiskOwned'
      BY <2>1, <2>3, <3>1, WorkerOwns
    <3>3. AtRest => AtRest'
      BY <2>3, <3>1, WorkersRest
    <3> QED
      BY <2>0, <2>3, <3>2, <3>3 DEF DiskAccounted, managerVars
  <2>4. CASE UNCHANGED vars
    <3>1. PairAt' = PairAt /\ DoneAt' = DoneAt /\ Sending' = Sending
          /\ Waiting' = Waiting /\ Paired' = Paired /\ Unpaired' = Unpaired
      BY <2>4 DEF vars, sharedVars, moduleVars, managerVars, PairAt, DoneAt, Sending,
                  Waiting, Paired, Unpaired
    <3>2. InPlay' = InPlay
      BY <2>4, <3>1 DEF InPlay, OnTheWay, Taken, vars, sharedVars
    <3> QED
      BY <2>0, <2>4, <3>1, <3>2
         DEF vars, sharedVars, moduleVars, managerVars, DiskAccounted, DiskOwned,
             FailureNoted, RawOwned, PathOwned, AtRest, Idle
  <2>5. CASE Restart
    <3>1. LoseCurrent /\ mpc' = "poll" /\ UNCHANGED <<rawCopy, cache>>
      BY <2>5 DEF Restart, ManagerStartsAgain
    <3>2. \/ \E r \in Request : status'[r] \in {"partial", "aborted", "lost"}
          \/ rawCopy' = {} /\ \A p \in CachePath : cache'[p] = None
      BY <3>1, GoesDown DEF TypeOK, ManagerTypeOK
    <3>3. DiskOwned'
      BY <3>2, CleanIsOwnedNext DEF DiskOwned, FailureNoted
    <3> QED
      BY <2>0, <3>1, <3>3 DEF DiskAccounted
  <2> QED
    BY <2>2, <2>3, <2>4, <2>5 DEF Next
<1> QED
  BY <1>1, <1>2, TypeCorrect, RequestsInLine, AccountCorrect, SweepComplete,
     PiecesCorrect, PTL DEF Spec

(* Between the cycles of a daemon none of whose cycles was cut short the    *)
(* local disk is clean, unless a client was told of a failure or is told    *)
(* nothing (module.py, _split_pcap and _upload_processed; manager.py,       *)
(* _merge_pair and _upload_unpaired).                                       *)
THEOREM DiskClean == Spec /\ []~Interrupted => []DiskCleanAtRest
<1>1. TypeOK /\ Accounted /\ ~Interrupted /\ DiskAccounted => DiskCleanAtRest
  <2> SUFFICES ASSUME TypeOK, Accounted, ~Interrupted, DiskAccounted, mpc = "poll",
                      \A r \in Request : status[r] \in
                        {"unsent", "queued", "dropped", "unlisted", "success"}
               PROVE  /\ rawCopy = {} /\ mergeFiles = {}
                      /\ \A p \in CachePath : cache[p] = None
    BY DEF DiskCleanAtRest
  <2>1. AtRest /\ DiskOwned /\ MergeFilesOwned
    BY RestOrCycle DEF Undisturbed, Interrupted, DiskAccounted
  <2> QED
    BY <2>1, CleanAtRest DEF MergeFilesOwned
<1> QED
  BY <1>1, TypeCorrect, AccountCorrect, DiskCorrect, PTL

-----------------------------------------------------------------------------
(* What is needed is there.                                                 *)

(* What worker w has on its disk: the files of the seconds it has still to  *)
(* upload or to send.                                                       *)
HandsOf(w) == {SavePath(wjob[w].file, s) : s \in wmid[w] \cup wpair[w]}

(* What a worker or the manager has still to use is on the disk.            *)
KeptNow ==
    /\ \A w \in Sending : \A p \in HandsOf(w) : cache[p] # None
    /\ \A x \in InPlay : cache[x.src] # None

(* Kept says this of a daemon that is undisturbed.                          *)
LEMMA KeptIs == Kept <=> (Undisturbed => KeptNow)
BY DEF Kept, KeptNow, HandsOf

(* The same of the next state.                                              *)
LEMMA KeptIsNext == Kept' <=> (Undisturbed' => KeptNow')
BY KeptIs, PTL

(* Where each segment has a path of its own, no two pieces share a file,    *)
(* nor does a piece with what a worker has, nor do two workers.             *)
LEMMA PathsApart ==
    ASSUME OwnPaths, TypeOK, Accounted, Undisturbed, PieceOnce
    PROVE  /\ \A x, y \in InPlay : x.src = y.src => x = y
           /\ \A w \in Sending : \A x \in InPlay : x.src \notin HandsOf(w)
           /\ \A v, w \in Sending : \A s \in wmid[v] \cup wpair[v] :
                  \A t \in wmid[w] \cup wpair[w] :
                     SavePath(wjob[v].file, s) = SavePath(wjob[w].file, t)
                     => v = w /\ s = t
<1> USE DEF TypeOK
<1>1. ASSUME NEW x \in InPlay
      PROVE  /\ x.src = SavePath(x.job.file, x.out) /\ x.out \in Unprocessed(x.job.file)
             /\ <<x.job.file, x.out>> \in Segment /\ x.job \in JobsOf(current)
             /\ x = Piece(x.job, x.out)
  <2>1. WellMade(x) /\ x.job \in JobsOf(current)
    BY DEF PieceOnce, WellMade
  <2>2. x.job.file \in File /\ x.out \in Span[x.job.file]
    <3>1. current \in Request
      <4>1. ~AtRest
        BY NothingInPlay DEF NoPiece
      <4> QED
        BY <4>1, RestOrCycle DEF ManagerTypeOK, Handling
    <3>2. Folder[current] \in Seq(File)
      BY <3>1, ManagerAssumption
    <3>3. \A i \in DOMAIN Folder[current] : Folder[current][i] \in File
      BY <3>2, ElementOfSeq, LenProperties
    <3> QED
      BY <2>1, <3>3 DEF WellMade, JobsOf, Unprocessed
  <2>3. x.src = SavePath(x.job.file, x.out)
    BY <2>1 DEF WellMade, Piece
  <2> QED
    BY <2>1, <2>2, <2>3, SegmentPlaces DEF WellMade
<1>2. ASSUME NEW w \in Sending
      PROVE  /\ wjob[w] \in JobsOf(current) /\ w \in Worker
             /\ \A v \in Worker : wjob[v] = wjob[w] => v = w
             /\ \A s \in wmid[w] \cup wpair[w] : <<wjob[w].file, s>> \in Segment
             /\ wmid[w] \subseteq Processed(wjob[w].file)
             /\ wpair[w] \subseteq Unprocessed(wjob[w].file)
  <2>1. /\ w \in Worker /\ wjob[w] \in Job /\ wjob[w].file \in File
        /\ wmid[w] \subseteq Processed(wjob[w].file)
        /\ wpair[w] \subseteq Unprocessed(wjob[w].file)
    BY DEF Sending, ModuleTypeOK, AtWork, Job
  <2>2. wjob[w] \in JobsOf(current) /\ \A v \in Worker : wjob[v] = wjob[w] => v = w
    BY <2>1, HeldJob
  <2>3. \A s \in wmid[w] \cup wpair[w] : s \in Span[wjob[w].file]
    BY <2>1 DEF Processed, Unprocessed
  <2> QED
    BY <2>1, <2>2, <2>3, SegmentPlaces
<1>3. \A j, k \in JobsOf(current) : j.file = k.file => j = k
  BY DEF JobsOf
<1>4. ASSUME NEW x \in InPlay, NEW y \in InPlay, x.src = y.src PROVE x = y
  <2>1. <<x.job.file, x.out>> = <<y.job.file, y.out>>
    BY <1>1, <1>4 DEF OwnPaths
  <2> QED
    BY <1>1, <1>3, <2>1
<1>5. ASSUME NEW w \in Sending, NEW x \in InPlay, x.src \in HandsOf(w) PROVE FALSE
  <2>1. PICK s \in wmid[w] \cup wpair[w] : x.src = SavePath(wjob[w].file, s)
    BY <1>5 DEF HandsOf
  <2>2. x.job.file = wjob[w].file /\ x.out = s
    <3> DEFINE p == <<x.job.file, x.out>>
               q == <<wjob[w].file, s>>
    <3>1. p \in Segment /\ q \in Segment /\ SavePath(p[1], p[2]) = SavePath(q[1], q[2])
      BY <1>1, <1>2, <2>1
    <3>2. p = q
      BY <3>1 DEF OwnPaths
    <3> QED
      BY <3>2
  <2>3. x.job = wjob[w]
    BY <1>1, <1>2, <1>3, <2>2
  <2>4. s \notin wmid[w]
    <3>1. x.out \in Unprocessed(x.job.file)
      BY <1>1
    <3>2. s \in Unprocessed(wjob[w].file)
      BY <2>2, <3>1
    <3>3. s \notin Processed(wjob[w].file)
      BY <3>2 DEF Processed, Unprocessed
    <3> QED
      BY <1>2, <3>3
  <2>5. x = Piece(wjob[w], s)
    BY <1>1, <2>2, <2>3
  <2>6. s \in wpair[w]
    BY <2>4
  <2>7. Piece(wjob[w], s) \notin InPlay
    BY <2>6 DEF PieceOnce
  <2> QED
    BY <2>5, <2>7
<1>6. ASSUME NEW v \in Sending, NEW w \in Sending,
             NEW s \in wmid[v] \cup wpair[v], NEW t \in wmid[w] \cup wpair[w],
             SavePath(wjob[v].file, s) = SavePath(wjob[w].file, t)
      PROVE  v = w /\ s = t
  <2>1. wjob[v].file = wjob[w].file /\ s = t
    <3> DEFINE p == <<wjob[v].file, s>>
               q == <<wjob[w].file, t>>
    <3>1. p \in Segment /\ q \in Segment /\ SavePath(p[1], p[2]) = SavePath(q[1], q[2])
      BY <1>2, <1>6
    <3>2. p = q
      BY <3>1 DEF OwnPaths
    <3> QED
      BY <3>2
  <2>2. wjob[v] = wjob[w]
    BY <1>2, <1>3, <2>1
  <2> QED
    BY <1>2, <2>1, <2>2
<1> QED
  BY <1>4, <1>5, <1>6

(* split_once writes over what is there, and removes nothing.               *)
LEMMA WrittenKeeps ==
    ASSUME TypeOK, NEW f \in File, NEW S \in SUBSET Span[f], cache' = Written(f, S)
    PROVE  /\ \A p \in CachePath : cache[p] # None => cache'[p] # None
           /\ \A s \in S : cache'[SavePath(f, s)] # None
<1>1. ASSUME NEW p \in CachePath, NEW s \in S, p = SavePath(f, s)
      PROVE  cache'[p] # None
  <2>1. cache'[p] = <<f, p[2]>>
    <3>1. \E t \in S : p = SavePath(f, t)
      BY <1>1
    <3> QED
      BY <3>1 DEF Written
  <2>2. p[2] = s
    BY <1>1 DEF SavePath
  <2>3. <<f, s>> \in Segment
    BY SegmentPlaces
  <2> QED
    BY <2>1, <2>2, <2>3, SharedAssumption
<1>2. \A p \in CachePath : cache[p] # None => cache'[p] # None
  BY <1>1 DEF Written
<1>3. \A s \in S : SavePath(f, s) \in CachePath
  BY SegmentPlaces
<1> QED
  BY <1>1, <1>2, <1>3

(* A worker removes only what it has uploaded itself.                       *)
LEMMA WorkerKeepsFiles ==
    ASSUME OwnPaths, TypeOK, TypeOK', Accounted, Undisturbed, PieceOnce, KeptNow,
           NEW w \in Worker, UNCHANGED managerVars,
           WorkerStep(w) \/ WorkerCrashes(w) \/ StopWorker(w)
    PROVE  KeptNow'
<1> USE DEF TypeOK
<1>1. /\ \A v \in Sending : \A s \in wmid[v] \cup wpair[v] :
            /\ SavePath(wjob[v].file, s) \in CachePath
            /\ cache[SavePath(wjob[v].file, s)] # None
      /\ \A x \in InPlay : x.src \in CachePath /\ cache[x.src] # None
  <2>1. ASSUME NEW v \in Sending, NEW s \in wmid[v] \cup wpair[v]
        PROVE  /\ SavePath(wjob[v].file, s) \in CachePath
               /\ cache[SavePath(wjob[v].file, s)] # None
    <3>1. wjob[v].file \in File /\ s \in Span[wjob[v].file]
      BY DEF Sending, ModuleTypeOK, AtWork, Job, Processed, Unprocessed
    <3> QED
      BY <3>1, SegmentPlaces DEF KeptNow, HandsOf
  <2>2. ASSUME NEW x \in InPlay PROVE x.src \in CachePath
    <3>1. x \in Item
      BY PieceIsItem
    <3> QED
      BY <3>1 DEF Item
  <2> QED
    BY <2>1, <2>2 DEF KeptNow
<1>2. ASSUME \A p \in CachePath : cache[p] # None => cache'[p] # None,
             InPlay' = InPlay,
             \A v \in Sending' :
                 /\ v \in Sending /\ wjob'[v] = wjob[v]
                 /\ wmid'[v] \cup wpair'[v] \subseteq wmid[v] \cup wpair[v]
      PROVE  KeptNow'
  BY <1>1, <1>2 DEF KeptNow, HandsOf
<1>3. CASE Split(w) \/ SplitRaises(w)
  <2>1. InPlay' = InPlay
    <3>1. ~SendPair(w)
      BY <1>3 DEF Split, SplitRaises, SendPair, Goto
    <3> QED
      BY <1>3, <3>1, NoPieceSent DEF WorkerStep
  <2> DEFINE f == wjob[w].file
  <2>2. f \in File
    BY <1>3 DEF Split, SplitRaises, Goto, ModuleTypeOK, AtWork, Job
  <2>3. \A v \in Worker : v # w => /\ wpc'[v] = wpc[v] /\ wjob'[v] = wjob[v]
                                   /\ wmid'[v] = wmid[v] /\ wpair'[v] = wpair[v]
    BY <1>3 DEF Split, SplitRaises, Goto, ModuleTypeOK
  <2>4. CASE Split(w)
    <3>1. /\ cache' = Written(f, Span[f]) /\ wjob' = wjob
          /\ wmid'[w] \cup wpair'[w] = Span[f]
      BY <2>4 DEF Split, ModuleTypeOK, Processed, Unprocessed
    <3>2. /\ \A p \in CachePath : cache[p] # None => cache'[p] # None
          /\ \A s \in Span[f] : cache'[SavePath(f, s)] # None
      BY <2>2, <3>1, WrittenKeeps
    <3>3. ASSUME NEW v \in Sending', NEW p \in HandsOf(v)' PROVE cache'[p] # None
      <4>1. CASE v = w
        BY <3>1, <3>2, <3>3, <4>1 DEF HandsOf
      <4>2. CASE v # w
        BY <1>1, <2>3, <3>2, <3>3, <4>2 DEF HandsOf, Sending
      <4> QED
        BY <4>1, <4>2
    <3>4. \A x \in InPlay' : cache'[x.src] # None
      BY <1>1, <2>1, <3>2
    <3> QED
      BY <3>3, <3>4 DEF KeptNow
  <2>5. CASE SplitRaises(w)
    <3>1. \/ cache' = cache
          \/ \E S \in SUBSET Span[f] : cache' = Written(f, S)
      BY <2>5 DEF SplitRaises
    <3>2. \A p \in CachePath : cache[p] # None => cache'[p] # None
      BY <2>2, <3>1, WrittenKeeps
    <3>3. wpc'[w] = "failed"
      BY <2>5 DEF SplitRaises, Goto, ModuleTypeOK
    <3> QED
      BY <1>2, <2>1, <2>3, <3>2, <3>3 DEF Sending
  <2> QED
    BY <1>3, <2>4, <2>5
<1>4. CASE UploadMid(w)
  <2>1. PICK s \in wmid[w] :
          /\ wpc[w] = "deliver" /\ wpc' = [wpc EXCEPT ![w] = "deliver"]
          /\ Remove({SavePath(wjob[w].file, s)})
          /\ wmid' = [wmid EXCEPT ![w] = @ \ {s}]
          /\ UNCHANGED <<mailbox, rawCopy, wjob, wpair>>
    BY <1>4 DEF UploadMid, Goto
  <2> DEFINE path == SavePath(wjob[w].file, s)
  <2>2. wpc' = wpc /\ Sending' = Sending /\ w \in Sending
    BY <2>1 DEF Sending, ModuleTypeOK
  <2>3. InPlay' = InPlay
    <3>1. ~SendPair(w)
      BY <2>1 DEF SendPair, ModuleTypeOK
    <3> QED
      BY <1>4, <3>1, NoPieceSent DEF WorkerStep
  <2>4. \A p \in CachePath : p # path => cache'[p] = cache[p]
    BY <2>1 DEF Remove
  <2>5. ASSUME NEW v \in Sending', NEW t \in wmid'[v] \cup wpair'[v]
        PROVE  cache'[SavePath(wjob'[v].file, t)] # None
    <3>1. /\ v \in Sending /\ wjob'[v] = wjob[v] /\ t \in wmid[v] \cup wpair[v]
          /\ ~(v = w /\ t = s)
      <4>1. s \notin wpair[w]
        BY <2>1 DEF ModuleTypeOK, Processed, Unprocessed
      <4> QED
        BY <2>1, <2>2, <2>5, <4>1 DEF Sending, ModuleTypeOK
    <3>2. SavePath(wjob[v].file, t) # path
      BY <2>2, <3>1, PathsApart
    <3> QED
      BY <1>1, <2>4, <3>1, <3>2
  <2>6. ASSUME NEW x \in InPlay' PROVE cache'[x.src] # None
    <3>1. x.src # path
      BY <2>2, <2>3, PathsApart DEF HandsOf
    <3> QED
      BY <1>1, <2>3, <2>4, <3>1
  <2> QED
    BY <2>5, <2>6 DEF KeptNow, HandsOf
<1>5. CASE SendPair(w)
  <2>1. PICK s \in wpair[w] :
          /\ InPlay' = InPlay \cup {Piece(wjob[w], s)} /\ wpc[w] = "deliver"
          /\ wpc' = wpc /\ wpair' = [wpair EXCEPT ![w] = @ \ {s}]
          /\ UNCHANGED <<cache, wjob, wmid>>
    BY <1>5, PieceSent
  <2>2. \A v \in Sending' : v \in Sending /\ wmid'[v] \cup wpair'[v]
                                                 \subseteq wmid[v] \cup wpair[v]
    BY <2>1 DEF Sending, ModuleTypeOK
  <2>3. cache[Piece(wjob[w], s).src] # None
    BY <1>1, <2>1 DEF Piece, Sending
  <2> QED
    BY <1>1, <2>1, <2>2, <2>3 DEF KeptNow, HandsOf
<1>6. CASE \/ TakeJob(w) \/ WorkerExits(w) \/ Download(w) \/ DownloadRaises(w)
           \/ UploadRaises(w) \/ Report(w, TRUE) \/ Report(w, FALSE)
           \/ WorkerCrashes(w) \/ StopWorker(w)
  <2>1. cache' = cache
    BY <1>6 DEF TakeJob, WorkerExits, Download, DownloadRaises, UploadRaises, Report,
                WorkerCrashes, StopWorker, sharedVars
  <2>2. InPlay' = InPlay
    <3>1. ~SendPair(w)
      BY <1>6 DEF TakeJob, WorkerExits, Download, DownloadRaises, UploadRaises, Report,
                  WorkerCrashes, StopWorker, SendPair, Goto, ModuleTypeOK
    <3> QED
      BY <3>1, NoPieceSent
  <2>3. \A v \in Sending' : /\ v \in Sending /\ wjob'[v] = wjob[v]
                            /\ wmid'[v] = wmid[v] /\ wpair'[v] = wpair[v]
    BY <1>6 DEF TakeJob, WorkerExits, Download, DownloadRaises, UploadRaises, Report,
                WorkerCrashes, StopWorker, Goto, Sending, ModuleTypeOK
  <2> QED
    BY <1>2, <2>1, <2>2, <2>3
<1> QED
  BY <1>3, <1>4, <1>5, <1>6 DEF WorkerStep

(* The manager removes only the files of the pieces it lets go of.          *)
LEMMA ManagerKeepsFiles ==
    ASSUME OwnPaths, TypeOK, TypeOK', Accounted, SweepLosesNothing, Pieces, Kept,
           ManagerNext, UNCHANGED moduleVars, Undisturbed'
    PROVE  KeptNow'
<1>1. Undisturbed /\ PieceOnce /\ TwoHalves /\ KeptNow
  BY CalmStep, KeptIs DEF Pieces
<1>2. Sending' = Sending /\ \A w \in Worker : HandsOf(w)' = HandsOf(w)
  BY DEF moduleVars, Sending, HandsOf
<1>3. CASE PublishPair \/ SweepNext
  <2>1. PICK G \in SUBSET InPlay : InPlay' = InPlay \ G /\ Remove({x.src : x \in G})
    BY <1>1, <1>3, PiecesLeave
  <2>2. ASSUME NEW p \in CachePath, cache[p] # None, p \notin {x.src : x \in G}
        PROVE  cache'[p] # None
    BY <2>1, <2>2 DEF Remove
  <2>3. ASSUME NEW w \in Sending', NEW p \in HandsOf(w)' PROVE cache'[p] # None
    <3>1. w \in Sending /\ p \in HandsOf(w) /\ w \in Worker
      BY <1>2 DEF Sending
    <3>2. p \in CachePath
      <4>1. wjob[w].file \in File /\ \A s \in wmid[w] \cup wpair[w] : s \in Span[wjob[w].file]
        BY <3>1 DEF Sending, TypeOK, ModuleTypeOK, AtWork, Job, Processed, Unprocessed
      <4> QED
        BY <3>1, <4>1, SegmentPlaces DEF HandsOf
    <3>3. p \notin {x.src : x \in G}
      BY <1>1, <3>1, PathsApart
    <3> QED
      BY <1>1, <2>2, <3>1, <3>2, <3>3 DEF KeptNow
  <2>4. ASSUME NEW x \in InPlay' PROVE cache'[x.src] # None
    <3>1. x \in InPlay /\ x \notin G
      BY <2>1
    <3>2. x.src \in CachePath
      BY <3>1, PieceIsItem DEF Item
    <3>3. x.src \notin {y.src : y \in G}
      BY <1>1, <3>1, PathsApart
    <3> QED
      BY <1>1, <2>2, <3>1, <3>2, <3>3 DEF KeptNow
  <2> QED
    BY <2>3, <2>4 DEF KeptNow
<1>4. CASE ~PublishPair /\ ~SweepNext
  <2>1. InPlay' = InPlay
    BY <1>4, PiecesStay
  <2>2. UNCHANGED cache
    BY <1>4, CalmStep
       DEF ManagerStep, PollTimesOut, Submit, sharedVars, PollAccepts, PollLoses,
           ManagerExits, CollectFiles, CollectRaises, Abort, Unwind, PushNextJob,
           TakeJobDone, TakePairPut, LeaveDrain, MergePair, Notify
  <2> QED
    BY <1>1, <1>2, <2>1, <2>2 DEF KeptNow, Sending
<1> QED
  BY <1>3, <1>4

(* What a cycle needs from outside: nobody stops the manager, and what it   *)
(* merges and uploads itself goes well.  Jobs may fail, listings too, and   *)
(* processes may be killed and the daemon restarted.                        *)
NothingCuts == Fault \cap {"stop", "merge", "sweep"} = {}

(* Nothing but a request to stop or a storage failure of the manager's own  *)
(* cuts a cycle short: the files it merges and sweeps are always there      *)
(* (manager.py, _merge_pair and _upload_unpaired).                          *)
THEOREM NoneCutShort == ASSUME OwnPaths, NothingCuts PROVE Spec => []~Interrupted
<1>1. Init => Kept /\ ~disturbed
  <2> SUFFICES ASSUME Init PROVE InPlay = {} /\ Sending = {} /\ ~disturbed
    BY DEF Kept
  <2>1. AtRest /\ ModuleTypeOK
    BY NoBucketsWait DEF Init, SharedInit, ModuleInit, ManagerInit, AtRest, Idle,
                         ModuleTypeOK, WorkerPc, AtWork
  <2> QED
    BY <2>1, NothingInPlay DEF NoPiece, Init, ManagerInit
<1>2. TypeOK /\ TypeOK' /\ Accounted /\ SweepLosesNothing /\ Pieces
      /\ Kept /\ ~disturbed /\ [Next]_vars => Kept' /\ ~disturbed'
  <2> SUFFICES ASSUME TypeOK, TypeOK', Accounted, SweepLosesNothing, Pieces,
                      Kept, ~disturbed, [Next]_vars
               PROVE  (Undisturbed' => KeptNow') /\ ~disturbed'
    BY KeptIsNext
  <2>1. CASE ManagerNext /\ UNCHANGED moduleVars
    <3>1. ~MergeRaises
      <4> SUFFICES ASSUME MergeRaises PROVE FALSE
        OBVIOUS
      <4>1. mpc = "merge" /\ \E p \in Sources(pair) : cache[p] = None
        BY DEF MergeRaises, NothingCuts
      <4>2. KeptNow
        BY <4>1, KeptIs DEF Undisturbed
      <4>3. \A i \in DOMAIN pair : pair[i] \in InPlay
        BY DEF InPlay, Taken, Paired, Range
      <4> QED
        BY <4>1, <4>2, <4>3 DEF Sources, KeptNow
    <3>2. ~SweepRaises
      <4> SUFFICES ASSUME SweepRaises PROVE FALSE
        OBVIOUS
      <4>1. mpc = "sweep" /\ \E b \in unpaired : cache[b[1].src] = None
        BY DEF SweepRaises, NothingCuts
      <4>2. KeptNow
        BY <4>1, KeptIs DEF Undisturbed
      <4>3. \A b \in unpaired : b[1] \in InPlay
        BY DEF InPlay, Taken, Unpaired
      <4> QED
        BY <4>1, <4>2, <4>3 DEF KeptNow
    <3>3. ~StopManager
      BY DEF StopManager, NothingCuts
    <3>4. ~disturbed'
      BY <2>1, <3>1, <3>2, <3>3
         DEF ManagerNext, ManagerStep, PollAccepts, PollLoses, ManagerExits,
             CollectFiles, CollectRaises, Abort, PushNextJob, TakeJobDone, TakePairPut,
             LeaveDrain, MergePair, PublishPair, SweepNext, Notify, PollTimesOut,
             RedisFails, ManagerCrashes, Submit, managerVars, control
    <3> QED
      BY <2>1, <3>4, ManagerKeepsFiles
  <2>2. CASE ModuleNext /\ UNCHANGED managerVars
    <3>1. Undisturbed' = Undisturbed /\ ~disturbed'
      BY <2>2 DEF managerVars, Undisturbed
    <3>2. Undisturbed => PieceOnce /\ KeptNow
      BY KeptIs DEF Pieces
    <3> QED
      BY <2>2, <3>1, <3>2, WorkerKeepsFiles DEF ModuleNext
  <2>3. CASE UNCHANGED vars
    <3>1. Sending' = Sending /\ UNCHANGED <<wjob, wmid, wpair, cache, disturbed, mpc>>
          /\ OnTheWay' = OnTheWay /\ Taken' = Taken
      BY <2>3 DEF vars, sharedVars, moduleVars, managerVars, Sending, OnTheWay, PairAt,
                  Taken, Waiting, Paired, Unpaired
    <3>2. Undisturbed' = Undisturbed /\ (KeptNow' <=> KeptNow)
      BY <3>1 DEF Undisturbed, KeptNow, HandsOf, InPlay
    <3> QED
      BY <3>1, <3>2, KeptIs
  <2>4. CASE Restart
    <3>1. AtRest' /\ ~disturbed'
      BY <2>4, NoBucketsWaitNext
         DEF Restart, ManagerStartsAgain, ModuleStartsAgain, LoseCurrent, Idle, AtRest
    <3>2. InPlay' = {} /\ Sending' = {}
      BY <3>1, NothingInPlayNext DEF NoPiece, TypeOK
    <3> QED
      BY <3>1, <3>2 DEF KeptNow
  <2> QED
    BY <2>1, <2>2, <2>3, <2>4 DEF Next
<1> QED
  BY <1>1, <1>2, TypeCorrect, AccountCorrect, SweepComplete, PiecesCorrect, PTL
     DEF Spec, Interrupted

(* So where each segment has a path of its own and nothing cuts a cycle     *)
(* short from outside, these hold without reservation.                      *)
THEOREM CalmDaemon ==
    ASSUME OwnPaths, NothingCuts
    PROVE  Spec => [](MergesBothHalves /\ DiskCleanAtRest /\ BucketsFresh)
BY NoneCutShort, HalvesMeet, DiskClean, FreshBuckets, PTL

=============================================================================
