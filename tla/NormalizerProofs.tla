-------------------------- MODULE NormalizerProofs --------------------------
(***************************************************************************)
(* Theorems about Normalizer, for every set of files, requests and workers *)
(* and every kind of fault: its types and counts, and that it serves the   *)
(* line of NormalizationService.                                           *)
(***************************************************************************)
EXTENDS Normalizer, SequenceTheorems, FiniteSetTheorems, TLAPS

(* The path of a segment is a cache path, its second a second.              *)
LEMMA SegmentPlaces ==
    ASSUME NEW f \in File, NEW s \in Span[f]
    PROVE  /\ s \in Second /\ s \in Nat
           /\ <<f, s>> \in Segment
           /\ SavePath(f, s) \in CachePath
<1>1. s \in Second /\ s \in Nat
  BY RecordingAssumption DEF Second
<1>2. <<f, s>> \in Segment
  BY <1>1 DEF Segment
<1>3. SavePath(f, s) \in CachePath
  BY <1>2 DEF CachePath
<1> QED
  BY <1>1, <1>2, <1>3

(* What split_once leaves on the disk.                                      *)
LEMMA WrittenType ==
    ASSUME NEW f \in File, NEW S \in SUBSET Span[f],
           cache \in [CachePath -> Segment \cup {None}]
    PROVE  Written(f, S) \in [CachePath -> Segment \cup {None}]
<1>1. ASSUME NEW p \in CachePath, NEW s \in S, p = SavePath(f, s)
      PROVE  <<f, p[2]>> \in Segment
  <2>1. p[2] = s
    BY <1>1 DEF SavePath
  <2> QED
    BY <2>1, SegmentPlaces
<1> QED
  BY <1>1 DEF Written

(* Removing files leaves segments, or nothing, at the other paths.           *)
LEMMA RemoveType ==
    ASSUME NEW P, cache \in [CachePath -> Segment \cup {None}], Remove(P)
    PROVE  cache' \in [CachePath -> Segment \cup {None}]
BY DEF Remove

(* An upload of segments leaves every object made of segments.               *)
LEMMA UploadType ==
    ASSUME NEW n, NEW c \in Seq(Segment),
           object \in [ObjectName -> Seq(Segment)], Upload(n, c)
    PROVE  object' \in [ObjectName -> Seq(Segment)]
BY DEF Upload

(* What is popped off a queue, and what is left, has the queue's type.       *)
LEMMA PopType ==
    ASSUME NEW S, NEW q \in Seq(S), q # <<>>
    PROVE  Head(q) \in S /\ Tail(q) \in Seq(S)
BY HeadTailProperties

(* A queue keeps its type when one of its elements is pushed.                *)
LEMMA PushType ==
    ASSUME NEW S, NEW q \in Seq(S), NEW e \in S
    PROVE  Append(q, e) \in Seq(S)
BY AppendProperties

-----------------------------------------------------------------------------
(* Every step of a worker keeps the shared state and its own well typed.    *)
LEMMA WorkerType ==
    ASSUME TypeOK, NEW w \in Worker,
           WorkerStep(w) \/ WorkerCrashes(w) \/ StopWorker(w)
    PROVE  SharedTypeOK' /\ ModuleTypeOK'
<1> USE DEF TypeOK, AtWork
<1>1. CASE TakeJob(w)
  <2>1. Head(jobQueue) \in Job /\ jobQueue' \in Seq(Job)
    BY <1>1, PopType DEF TakeJob, PopJob, SharedTypeOK
  <2> QED
    BY <1>1, <2>1 DEF TakeJob, Goto, SharedTypeOK, ModuleTypeOK, WorkerPc
<1>2. CASE WorkerExits(w)
  BY <1>2 DEF WorkerExits, Goto, sharedVars, SharedTypeOK, ModuleTypeOK, WorkerPc
<1>3. CASE Download(w)
  <2>1. wjob[w].file \in File
    BY <1>3 DEF Download, Goto, ModuleTypeOK, Job
  <2> QED
    BY <1>3, <2>1 DEF Download, Goto, SharedTypeOK, ModuleTypeOK, WorkerPc
<1>4. CASE Split(w)
  <2> DEFINE f == wjob[w].file
  <2>1. f \in File
    BY <1>4 DEF Split, Goto, ModuleTypeOK, Job
  <2>2. cache' \in [CachePath -> Segment \cup {None}]
    BY <1>4, <2>1, WrittenType DEF Split, SharedTypeOK
  <2>3. Processed(f) \subseteq Second /\ Unprocessed(f) \subseteq Second
    BY <2>1, SegmentPlaces DEF Processed, Unprocessed
  <2>4. SharedTypeOK'
    BY <1>4, <2>2 DEF Split, SharedTypeOK
  <2>5. ModuleTypeOK'
    BY <1>4, <2>3 DEF Split, Goto, ModuleTypeOK, WorkerPc
  <2> QED
    BY <2>4, <2>5
<1>5. CASE UploadMid(w)
  <2>1. PICK s \in wmid[w] :
          LET path == SavePath(wjob[w].file, s)
          IN  /\ Goto(w, "deliver", "deliver")
              /\ cache[path] # None
              /\ Upload(MidName(s), <<cache[path]>>)
              /\ Remove({path})
              /\ wmid' = [wmid EXCEPT ![w] = @ \ {s}]
              /\ UNCHANGED <<jobQueue, mailbox, rawCopy, wjob, wpair, wstop>>
    BY <1>5 DEF UploadMid
  <2> DEFINE path == SavePath(wjob[w].file, s)
  <2>2. wjob[w].file \in File /\ s \in Span[wjob[w].file]
    BY <2>1 DEF Goto, ModuleTypeOK, Job, Processed
  <2>3. <<cache[path]>> \in Seq(Segment)
    <3>1. path \in CachePath
      BY <2>2, SegmentPlaces
    <3>2. cache[path] \in Segment
      BY <2>1, <3>1 DEF SharedTypeOK
    <3> QED
      BY <3>2
  <2>4. SharedTypeOK'
    BY <2>1, <2>3, UploadType, RemoveType DEF SharedTypeOK
  <2>5. ModuleTypeOK'
    BY <2>1 DEF Goto, ModuleTypeOK, WorkerPc
  <2> QED
    BY <2>4, <2>5
<1>6. CASE SendPair(w)
  <2>1. PICK s \in wpair[w] :
          /\ Goto(w, "deliver", "deliver")
          /\ Send(PairPut(s, [src |-> SavePath(wjob[w].file, s), out |-> s,
                              job |-> wjob[w]]))
          /\ wpair' = [wpair EXCEPT ![w] = @ \ {s}]
          /\ UNCHANGED <<jobQueue, rawCopy, cache, object, wjob, wmid, wstop>>
    BY <1>6 DEF SendPair
  <2> DEFINE item == [src |-> SavePath(wjob[w].file, s), out |-> s,
                      job |-> wjob[w]]
  <2>2. wjob[w] \in Job /\ wjob[w].file \in File /\ s \in Span[wjob[w].file]
    BY <2>1 DEF Goto, ModuleTypeOK, Job, Unprocessed
  <2>3. PairPut(s, item) \in Message
    BY <2>2, SegmentPlaces DEF PairPut, Message, PairPutMessage, Item
  <2>4. SharedTypeOK'
    BY <2>1, <2>3, PushType DEF Send, SharedTypeOK
  <2>5. ModuleTypeOK'
    BY <2>1 DEF Goto, ModuleTypeOK, WorkerPc
  <2> QED
    BY <2>4, <2>5
<1>7. CASE DownloadRaises(w)
  BY <1>7 DEF DownloadRaises, Goto, sharedVars, SharedTypeOK, ModuleTypeOK,
              WorkerPc
<1>8. CASE SplitRaises(w)
  <2> DEFINE f == wjob[w].file
  <2>1. f \in File
    BY <1>8 DEF SplitRaises, Goto, ModuleTypeOK, Job
  <2>2. cache' \in [CachePath -> Segment \cup {None}]
    BY <1>8, <2>1, WrittenType DEF SplitRaises, SharedTypeOK
  <2> QED
    BY <1>8, <2>2 DEF SplitRaises, Goto, SharedTypeOK, ModuleTypeOK, WorkerPc
<1>9. CASE UploadRaises(w)
  BY <1>9 DEF UploadRaises, Goto, sharedVars, SharedTypeOK, ModuleTypeOK,
              WorkerPc
<1>10. ASSUME NEW ok \in BOOLEAN, Report(w, ok)
       PROVE  SharedTypeOK' /\ ModuleTypeOK'
  <2>1. wjob[w] \in Job
    BY <1>10 DEF Report, Goto, ModuleTypeOK
  <2>2. JobDone(wjob[w], ok) \in Message
    BY <2>1 DEF JobDone, Message, JobDoneMessage
  <2>3. SharedTypeOK'
    BY <1>10, <2>2, PushType DEF Report, Send, SharedTypeOK
  <2>4. ModuleTypeOK'
    BY <1>10 DEF Report, Goto, ModuleTypeOK, WorkerPc
  <2> QED
    BY <2>3, <2>4
<1>11. CASE WorkerCrashes(w)
  BY <1>11 DEF WorkerCrashes, sharedVars, SharedTypeOK, ModuleTypeOK, WorkerPc
<1>12. CASE StopWorker(w)
  BY <1>12 DEF StopWorker, sharedVars, SharedTypeOK, ModuleTypeOK
<1> QED
  BY <1>1, <1>2, <1>3, <1>4, <1>5, <1>6, <1>7, <1>8, <1>9, <1>10, <1>11, <1>12
     DEF WorkerStep
-----------------------------------------------------------------------------
(* Putting a piece in the buckets keeps them sequences of pieces and returns*)
(* nothing or a sequence of pieces.                                         *)
LEMMA PutType ==
    ASSUME NEW b \in [Second -> Seq(Item)], NEW k \in Second, NEW item \in Item
    PROVE  /\ Put(b, k, item).buckets \in [Second -> Seq(Item)]
           /\ Put(b, k, item).paired \in Seq(Item)
<1>1. Append(b[k], item) \in Seq(Item)
  BY PushType
<1>2. <<>> \in Seq(Item)
  BY EmptySeq
<1> QED
  BY <1>1, <1>2 DEF Put

(* A fresh PairBuckets is well typed.                                        *)
LEMMA EmptyBucketsType == NoBuckets(Second) \in [Second -> Seq(Item)]
BY EmptySeq DEF NoBuckets

(* Counting a report brings the counter down by one, never below zero.      *)
LEMMA CountType ==
    ASSUME NEW p \in Progress, p.remaining > 0, NEW ok \in BOOLEAN
    PROVE  /\ MarkOneDone(p, ok) \in Progress
           /\ MarkOneDone(p, ok).remaining = p.remaining - 1
<1> DEFINE q == MarkOneDone(p, ok)
           a == IF ok THEN p.success + 1 ELSE p.success
           b == IF ok THEN p.failure ELSE p.failure + 1
<1>1. p.remaining \in Nat /\ p.success \in Nat /\ p.failure \in Nat
  BY DEF Progress
<1>2. p.remaining - 1 \in Nat /\ a \in Nat /\ b \in Nat
  BY <1>1
<1>3. q = [remaining |-> p.remaining - 1, success |-> a, failure |-> b]
  <2>1. q = [p EXCEPT !.remaining = p.remaining - 1, !.success = a, !.failure = b]
    BY DEF MarkOneDone
  <2> HIDE DEF q, a, b
  <2> QED
    BY <2>1, <1>2 DEF Progress
<1> HIDE DEF a, b
<1> QED
  BY <1>2, <1>3 DEF Progress

(* Before it is uploaded, a waiting piece is read from a cache path.        *)
LEMMA PieceContent ==
    ASSUME cache \in [CachePath -> Segment \cup {None}],
           NEW b \in Seq(Item) \ {<<>>}, cache[b[1].src] # None
    PROVE  <<cache[b[1].src]>> \in Seq(Segment)
<1>1. b[1] \in Item
  BY ElementOfSeq, EmptySeq
<1>2. cache[b[1].src] \in Segment
  BY <1>1 DEF Item
<1> QED
  BY <1>2

(* The merge file holds one segment per piece.                              *)
LEMMA MergeContent ==
    ASSUME cache \in [CachePath -> Segment \cup {None}],
           pair \in Seq(Item),
           \A p \in Sources(pair) : cache[p] # None
    PROVE  [i \in DOMAIN pair |-> cache[pair[i].src]] \in Seq(Segment)
<1>1. /\ Len(pair) \in Nat
      /\ DOMAIN pair = 1 .. Len(pair)
  BY LenProperties
<1>2. ASSUME NEW i \in 1 .. Len(pair)
      PROVE  cache[pair[i].src] \in Segment
  <2>1. pair[i] \in Item
    BY ElementOfSeq
  <2>2. pair[i].src \in CachePath /\ pair[i].src \in Sources(pair)
    BY <1>1, <2>1 DEF Item, Sources
  <2> QED
    BY <2>2
<1> QED
  BY <1>1, <1>2

(* A merge file is named for a second.                                      *)
LEMMA MergedSecond ==
    ASSUME ManagerTypeOK, mpc \in {"merge", "publish"}
    PROVE  pair[1].out \in Second
<1>1. pair \in Seq(Item) /\ pair # <<>>
  BY DEF ManagerTypeOK
<1>2. pair[1] \in Item
  BY <1>1, ElementOfSeq, EmptySeq
<1> QED
  BY <1>2 DEF Item

(* What the manager hands back to the poll loop.                            *)
LEMMA AnswerType ==
    ASSUME TypeOK, NEW a \in Status, AnswerWith(a)
    PROVE  /\ inbox' \in Seq(Request) /\ status' \in [Request -> Status]
           /\ mpc' \in ManagerPc /\ current' \in Request \cup {None}
           /\ mstop' \in BOOLEAN
           /\ mpc' \in Handling <=> current' \in Request
           /\ mpc' \notin {"merge", "publish"}
BY SharedAssumption
   DEF TypeOK, ManagerTypeOK, AnswerWith, ManagerPc, Handling

(* An exception leaves the shared state alone and the manager well typed.    *)
LEMMA AbortType ==
    ASSUME TypeOK, NEW a \in Status, Abort(a), mergeFiles' \subseteq Second
    PROVE  SharedTypeOK' /\ ManagerTypeOK'
<1>1. SharedTypeOK'
  BY DEF Abort, Unwind, sharedVars, TypeOK, SharedTypeOK
<1>2. <<>> \in Seq(File) /\ <<>> \in Seq(Item) /\ <<>> \in Seq(Segment)
  BY EmptySeq
<1>3. ManagerTypeOK'
  BY <1>2, AnswerType DEF Abort, Unwind, TypeOK, ManagerTypeOK
<1> QED
  BY <1>1, <1>3

(* A manager that dies takes its request and its locals along.              *)
LEMMA LoseType ==
    ASSUME TypeOK, LoseCurrent
    PROVE  /\ inbox' \in Seq(Request) /\ status' \in [Request -> Status]
           /\ current' = None /\ current' \notin Request
           /\ toPush' \in Seq(File) /\ pair' \in Seq(Item)
           /\ merged' \in Seq(Segment) /\ unpaired' \subseteq Seq(Item) \ {<<>>}
           /\ mergeFiles' \subseteq Second
<1>1. <<>> \in Seq(File) /\ <<>> \in Seq(Item) /\ <<>> \in Seq(Segment)
  BY EmptySeq
<1> QED
  BY <1>1, SharedAssumption DEF LoseCurrent, TypeOK, ManagerTypeOK, Status

(* Every step of the manager keeps the shared state and its own well typed. *)
LEMMA ManagerType ==
    ASSUME TypeOK, ManagerNext
    PROVE  SharedTypeOK' /\ ManagerTypeOK'
<1> USE DEF TypeOK
<1> USE SharedAssumption
<1>1. ASSUME NEW r \in Request, Submit(r)
      PROVE  SharedTypeOK' /\ ManagerTypeOK'
  <2>1. inbox' \in Seq(Request)
    BY <1>1, PushType DEF Submit, ManagerTypeOK
  <2> QED
    BY <1>1, <2>1 DEF Submit, sharedVars, cycleVars, control, SharedTypeOK,
                      ManagerTypeOK, Status
<1>2. CASE PollAccepts
  <2>1. Head(inbox) \in Request /\ inbox' \in Seq(Request)
    BY <1>2, PopType DEF PollAccepts, ManagerTypeOK
  <2> QED
    BY <1>2, <2>1 DEF PollAccepts, sharedVars, cycleVars, control, SharedTypeOK,
                      ManagerTypeOK, Status, ManagerPc, Handling
<1>3. CASE PollLoses
  <2>1. Head(inbox) \in Request /\ inbox' \in Seq(Request)
    BY <1>3, PopType DEF PollLoses, ManagerTypeOK
  <2>2. mpc' \in {"poll", "crashed"} /\ mpc = "poll"
    BY <1>3 DEF PollLoses
  <2> QED
    BY <1>3, <2>1, <2>2 DEF PollLoses, sharedVars, cycleVars, control, SharedTypeOK,
                            ManagerTypeOK, Status, ManagerPc, Handling
<1>4. CASE PollTimesOut
  BY <1>4 DEF PollTimesOut, sharedVars, managerVars, SharedTypeOK, ManagerTypeOK
<1>5. CASE ManagerExits
  BY <1>5 DEF ManagerExits, sharedVars, cycleVars, control, SharedTypeOK, ManagerTypeOK,
              ManagerPc, Handling
<1>6. CASE CollectFiles
  <2>1. current \in Request
    BY <1>6 DEF CollectFiles, ManagerTypeOK, Handling
  <2>2. Folder[current] \in Seq(File) /\ Len(Folder[current]) \in Nat
    BY <2>1, ManagerAssumption, LenProperties
  <2>3. progress' \in Progress
    BY <1>6, <2>2 DEF CollectFiles, BeginCycle, Progress
  <2> QED
    BY <1>6, <2>2, <2>3, EmptyBucketsType
       DEF CollectFiles, sharedVars, cycleVars, control, SharedTypeOK, ManagerTypeOK,
           ManagerPc, Handling
<1>7. CASE CollectRaises
  BY <1>7, AbortType DEF CollectRaises, Status, ManagerTypeOK
<1>8. CASE PushNextJob
  <2>1. current \in Request
    BY <1>8 DEF PushNextJob, ManagerTypeOK, Handling
  <2>2. Head(toPush) \in File /\ toPush' \in Seq(File)
    BY <1>8, PopType DEF PushNextJob, ManagerTypeOK
  <2>3. jobQueue' \in Seq(Job)
    BY <1>8, <2>1, <2>2, PushType DEF PushNextJob, PushJob, Job, SharedTypeOK
  <2> QED
    BY <1>8, <2>2, <2>3 DEF PushNextJob, cycleVars, control, SharedTypeOK, ManagerTypeOK
<1>9. CASE TakeJobDone
  <2>1. Head(mailbox) \in Message /\ mailbox' \in Seq(Message)
    BY <1>9, PopType DEF TakeJobDone, Receive, SharedTypeOK
  <2>2. Head(mailbox).success \in BOOLEAN
    BY <1>9, <2>1 DEF TakeJobDone, Message, JobDoneMessage, PairPutMessage
  <2>3. progress \in Progress /\ progress.remaining > 0
    BY <1>9 DEF TakeJobDone, Draining, IsDone, ManagerTypeOK, Progress
  <2>4. progress' \in Progress
    BY <1>9, <2>2, <2>3, CountType DEF TakeJobDone
  <2> QED
    BY <1>9, <2>1, <2>4 DEF TakeJobDone, cycleVars, control, SharedTypeOK, ManagerTypeOK
<1>10. CASE TakePairPut
  <2>1. Head(mailbox) \in Message /\ mailbox' \in Seq(Message)
    BY <1>10, PopType DEF TakePairPut, Receive, SharedTypeOK
  <2>2. Head(mailbox).key \in Second /\ Head(mailbox).item \in Item
    BY <1>10, <2>1 DEF TakePairPut, Message, JobDoneMessage, PairPutMessage
  <2>3. buckets' \in [Second -> Seq(Item)] /\ pair' \in Seq(Item)
    BY <1>10, <2>2, PutType DEF TakePairPut, ManagerTypeOK
  <2>4. mpc = "drain" /\ mpc' \in {"drain", "merge"}
    BY <1>10 DEF TakePairPut, Draining
  <2>5. mpc' = "merge" => pair' # <<>>
    BY <1>10 DEF TakePairPut
  <2> QED
    BY <1>10, <2>1, <2>3, <2>4, <2>5 DEF TakePairPut, control, SharedTypeOK, ManagerTypeOK,
                                   ManagerPc, Handling
<1>11. CASE LeaveDrain
  <2>1. Remaining(buckets) \subseteq Seq(Item) \ {<<>>}
    BY DEF Remaining, ManagerTypeOK
  <2> QED
    BY <1>11, <2>1, EmptyBucketsType
       DEF LeaveDrain, control, sharedVars, SharedTypeOK, ManagerTypeOK, ManagerPc,
           Handling
<1>12. CASE MergePair
  <2>1. merged' \in Seq(Segment)
    BY <1>12, MergeContent DEF MergePair, SharedTypeOK, ManagerTypeOK
  <2>2. mergeFiles' \subseteq Second
    BY <1>12, MergedSecond DEF MergePair, ManagerTypeOK
  <2> QED
    BY <1>12, <2>1, <2>2 DEF MergePair, control, sharedVars, SharedTypeOK, ManagerTypeOK,
                       ManagerPc, Handling
<1>13. CASE PublishPair
  <2>1. <<>> \in Seq(Item) /\ <<>> \in Seq(Segment)
    BY EmptySeq
  <2>2. SharedTypeOK'
    BY <1>13, UploadType, RemoveType DEF PublishPair, SharedTypeOK, ManagerTypeOK
  <2>3. ManagerTypeOK'
    BY <1>13, <2>1 DEF PublishPair, control, ManagerTypeOK, ManagerPc, Handling
  <2> QED
    BY <2>2, <2>3
<1>14. CASE MergeRaises
  <2>1. mergeFiles' \subseteq Second
    BY <1>14, MergedSecond DEF MergeRaises, ManagerTypeOK
  <2> QED
    BY <1>14, <2>1, AbortType DEF MergeRaises, Status
<1>15. CASE SweepNext
  <2>1. PICK b \in unpaired :
          /\ cache[b[1].src] # None
          /\ Upload(PairName(b[1].out), <<cache[b[1].src]>>)
          /\ Remove({b[1].src})
          /\ unpaired' = unpaired \ {b}
    BY <1>15 DEF SweepNext
  <2>2. <<cache[b[1].src]>> \in Seq(Segment)
    BY <2>1, PieceContent DEF SharedTypeOK, ManagerTypeOK
  <2>3. SharedTypeOK'
    BY <1>15, <2>1, <2>2, UploadType, RemoveType DEF SweepNext, SharedTypeOK
  <2>4. ManagerTypeOK'
    BY <1>15, <2>1 DEF SweepNext, control, ManagerTypeOK
  <2> QED
    BY <2>3, <2>4
<1>16. CASE SweepRaises
  BY <1>16, AbortType DEF SweepRaises, Status, ManagerTypeOK
<1>17. CASE Notify
  <2>1. \E a \in Status : AnswerWith(a)
    BY <1>17 DEF Notify, Status
  <2> QED
    BY <1>17, <2>1, AnswerType
       DEF Notify, sharedVars, cycleVars, control, SharedTypeOK, ManagerTypeOK
<1>18. CASE StopManager
  BY <1>18 DEF StopManager, sharedVars, cycleVars, control, SharedTypeOK, ManagerTypeOK
<1>19. CASE RedisFails
  <2>1. inbox' \in Seq(Request) /\ status' \in [Request -> Status]
    <3>1. CASE UNCHANGED <<inbox, status>>
      BY <3>1 DEF ManagerTypeOK
    <3>2. CASE /\ inbox # <<>> /\ inbox' = Tail(inbox)
               /\ status' = [status EXCEPT ![Head(inbox)] = "lost"]
      BY <3>2, PopType DEF ManagerTypeOK, Status
    <3> QED
      BY <1>19, <3>1, <3>2 DEF RedisFails
  <2> QED
    BY <1>19, <2>1 DEF RedisFails, sharedVars, cycleVars, control, SharedTypeOK,
                       ManagerTypeOK, ManagerPc, Handling
<1>20. CASE ManagerCrashes
  BY <1>20, LoseType DEF ManagerCrashes, sharedVars, control, SharedTypeOK,
                         ManagerTypeOK, ManagerPc, Handling
<1> QED
  BY <1>1, <1>2, <1>3, <1>4, <1>5, <1>6, <1>7, <1>8, <1>9, <1>10, <1>11,
     <1>12, <1>13, <1>14, <1>15, <1>16, <1>17, <1>18, <1>19, <1>20
     DEF ManagerNext, ManagerStep

(* A daemon that was started again is well typed, whatever it left behind.  *)
LEMMA RestartType ==
    ASSUME TypeOK, Restart
    PROVE  TypeOK'
<1>1. <<>> \in Seq(Job) /\ <<>> \in Seq(Message)
  BY EmptySeq
<1>2. SharedTypeOK'
  BY <1>1 DEF Restart, TypeOK, SharedTypeOK
<1>3. ModuleTypeOK'
  BY DEF Restart, ModuleStartsAgain, ModuleTypeOK, WorkerPc, AtWork
<1>4. ManagerTypeOK'
  BY LoseType, EmptyBucketsType
     DEF Restart, ManagerStartsAgain, ManagerTypeOK, BeginCycle, Progress,
         ManagerPc, Handling
<1> QED
  BY <1>2, <1>3, <1>4 DEF TypeOK

-----------------------------------------------------------------------------
(* Type correctness: the counter never goes below zero, a process that is   *)
(* at work has its job or its request in hand, and no empty bucket is swept,*)
(* whatever fails and however often a cycle is cut short.                   *)
THEOREM TypeCorrect == Spec => []TypeOK
<1>1. Init => TypeOK
  <2> SUFFICES ASSUME Init PROVE TypeOK
    OBVIOUS
  <2>1. \A S : <<>> \in Seq(S)
    BY EmptySeq
  <2>2. SharedTypeOK
    BY <2>1 DEF Init, SharedInit, SharedTypeOK
  <2>3. ModuleTypeOK
    BY DEF Init, ModuleInit, ModuleTypeOK, WorkerPc, AtWork
  <2>4. ManagerTypeOK
    BY <2>1, EmptyBucketsType, SharedAssumption
       DEF Init, ManagerInit, ManagerTypeOK, BeginCycle, Progress, Status,
           ManagerPc, Handling
  <2> QED
    BY <2>2, <2>3, <2>4 DEF TypeOK
<1>2. TypeOK /\ [Next]_vars => TypeOK'
  <2> SUFFICES ASSUME TypeOK, [Next]_vars PROVE TypeOK'
    OBVIOUS
  <2>1. CASE ManagerNext /\ UNCHANGED moduleVars
    <3>1. ModuleTypeOK'
      BY <2>1 DEF moduleVars, TypeOK, ModuleTypeOK
    <3> QED
      BY <2>1, <3>1, ManagerType DEF TypeOK
  <2>2. CASE ModuleNext /\ UNCHANGED managerVars
    <3>1. ManagerTypeOK'
      BY <2>2 DEF managerVars, TypeOK, ManagerTypeOK
    <3> QED
      BY <2>2, <3>1, WorkerType DEF ModuleNext, TypeOK
  <2>3. CASE UNCHANGED vars
    BY <2>3 DEF vars, sharedVars, moduleVars, managerVars, TypeOK,
                SharedTypeOK, ModuleTypeOK, ManagerTypeOK
  <2>4. CASE Restart
    BY <2>4, RestartType
  <2> QED
    BY <2>1, <2>2, <2>3, <2>4 DEF Next
<1> QED
  BY <1>1, <1>2, PTL DEF Spec

-----------------------------------------------------------------------------
(* A bucket never holds a second piece, so the sweep, which reads the first *)
(* piece of a bucket only, leaves none behind; this survives any failure.   *)
THEOREM SweepComplete == Spec => []SweepLosesNothing
<1>1. Init => SweepLosesNothing
  BY EmptySeq DEF Init, ManagerInit, NoBuckets, SweepLosesNothing
<1>2. TypeOK /\ SweepLosesNothing /\ [Next]_vars => SweepLosesNothing'
  <2> SUFFICES ASSUME TypeOK, SweepLosesNothing, [Next]_vars
               PROVE  SweepLosesNothing'
    OBVIOUS
  <2> USE DEF SweepLosesNothing
  <2>1. CASE UNCHANGED <<buckets, unpaired>>
    BY <2>1
  <2>2. ASSUME NEW a, Abort(a) PROVE SweepLosesNothing'
    BY <2>2 DEF Abort, Unwind
  <2>3. CASE CollectFiles
    BY <2>3, EmptySeq DEF CollectFiles, NoBuckets, cycleVars
  <2>4. CASE TakePairPut
    <3> DEFINE k == Head(mailbox).key
               item == Head(mailbox).item
    <3>1. Head(mailbox) \in Message
      BY <2>4, PopType DEF TakePairPut, Receive, TypeOK, SharedTypeOK
    <3>2. k \in Second /\ item \in Item
      BY <2>4, <3>1 DEF TakePairPut, Message, JobDoneMessage, PairPutMessage
    <3>3. Append(buckets[k], item) \in Seq(Item)
      BY <3>2, PushType DEF TypeOK, ManagerTypeOK
    <3>4. Len(Append(buckets[k], item)) \in Nat
      BY <3>3, LenProperties
    <3>5. \A n \in Second : Len(Put(buckets, k, item).buckets[n]) <= 1
      BY <3>2, <3>4, EmptySeq DEF Put, TypeOK, ManagerTypeOK
    <3>6. buckets' = Put(buckets, k, item).buckets /\ unpaired' = unpaired
      BY <2>4 DEF TakePairPut
    <3> QED
      BY <3>5, <3>6
  <2>5. CASE LeaveDrain
    <3>1. \A b \in Remaining(buckets) : Len(b) = 1
      <4> SUFFICES ASSUME NEW k \in Second, buckets[k] # <<>>
                   PROVE  Len(buckets[k]) = 1
        BY DEF Remaining, TypeOK, ManagerTypeOK
      <4>1. buckets[k] \in Seq(Item)
        BY DEF TypeOK, ManagerTypeOK
      <4>2. Len(buckets[k]) \in Nat /\ Len(buckets[k]) # 0
        BY <4>1, EmptySeq
      <4>3. Len(buckets[k]) <= 1
        OBVIOUS
      <4> QED
        BY <4>2, <4>3, \A n \in Nat : n # 0 /\ n <= 1 => n = 1
    <3> QED
      BY <2>5, <3>1, EmptySeq DEF LeaveDrain, NoBuckets
  <2>6. CASE SweepNext
    BY <2>6 DEF SweepNext
  <2>7. CASE ManagerNext
    BY <2>1, <2>2, <2>3, <2>4, <2>5, <2>6, <2>7
       DEF ManagerNext, ManagerStep, Submit, PollAccepts, PollLoses,
           PollTimesOut, ManagerExits, CollectRaises, PushNextJob, TakeJobDone,
           MergePair, PublishPair, MergeRaises, SweepRaises, Notify,
           StopManager, RedisFails, ManagerCrashes, LoseCurrent, managerVars,
           cycleVars, control
  <2>8. CASE UNCHANGED managerVars
    BY <2>1, <2>8 DEF managerVars
  <2>9. CASE Restart
    BY <2>9, EmptySeq DEF Restart, ManagerStartsAgain, LoseCurrent, NoBuckets
  <2> QED
    BY <2>7, <2>8, <2>9 DEF Next, vars
<1> QED
  BY <1>1, <1>2, TypeCorrect, PTL DEF Spec

-----------------------------------------------------------------------------
(* What popping and pushing do to the elements of a queue.                  *)
LEMMA PopKeeps ==
    ASSUME NEW S, NEW q \in Seq(S), q # <<>>, NEW i \in DOMAIN q
    PROVE  q[i] = Head(q) \/ \E j \in DOMAIN Tail(q) : Tail(q)[j] = q[i]
<1>1. /\ DOMAIN q = 1 .. Len(q) /\ Len(q) \in Nat
      /\ Tail(q) \in Seq(S) /\ Len(Tail(q)) = Len(q) - 1
      /\ \A j \in 1 .. Len(Tail(q)) : Tail(q)[j] = q[j + 1]
  BY LenProperties, HeadTailProperties
<1>2. DOMAIN Tail(q) = 1 .. Len(q) - 1
  BY <1>1, LenProperties
<1>3. CASE i = 1
  BY <1>3
<1>4. CASE i # 1
  <2>1. i - 1 \in 1 .. Len(q) - 1
    BY <1>1, <1>4
  <2>2. Tail(q)[i - 1] = q[i]
    BY <1>1, <2>1
  <2> QED
    BY <1>2, <2>1, <2>2
<1> QED
  BY <1>3, <1>4

(* Popping leaves the elements where they were, one place further on.       *)
LEMMA TailElements ==
    ASSUME NEW S, NEW q \in Seq(S), q # <<>>
    PROVE  /\ Head(q) = q[1] /\ 1 \in DOMAIN q /\ Tail(q) \in Seq(S)
           /\ \A i \in DOMAIN Tail(q) : i + 1 \in DOMAIN q /\ Tail(q)[i] = q[i + 1]
           /\ \A i \in DOMAIN q : i # 1 => \E k \in DOMAIN Tail(q) : Tail(q)[k] = q[i]
<1>1. /\ Head(q) = q[1] /\ 1 \in DOMAIN q /\ Tail(q) \in Seq(S)
      /\ \A i \in DOMAIN Tail(q) : i + 1 \in DOMAIN q /\ Tail(q)[i] = q[i + 1]
  BY HeadTailProperties, LenProperties
<1>2. ASSUME NEW i \in DOMAIN q, i # 1
      PROVE  \E k \in DOMAIN Tail(q) : Tail(q)[k] = q[i]
  <2>1. i - 1 \in DOMAIN Tail(q) /\ Tail(q)[i - 1] = q[i]
    BY <1>2, HeadTailProperties, LenProperties
  <2> QED
    BY <2>1
<1> QED
  BY <1>1, <1>2

(* A push keeps what is queued and adds the new element.                     *)
LEMMA PushKeeps ==
    ASSUME NEW S, NEW q \in Seq(S), NEW e \in S
    PROVE  /\ \A i \in DOMAIN q : /\ i \in DOMAIN Append(q, e)
                                 /\ Append(q, e)[i] = q[i]
           /\ \E i \in DOMAIN Append(q, e) : Append(q, e)[i] = e
<1>1. /\ DOMAIN q = 1 .. Len(q) /\ Len(q) \in Nat
      /\ Append(q, e) \in Seq(S) /\ Len(Append(q, e)) = Len(q) + 1
      /\ \A i \in 1 .. Len(q) : Append(q, e)[i] = q[i]
      /\ Append(q, e)[Len(q) + 1] = e
  BY LenProperties, AppendProperties
<1>2. DOMAIN Append(q, e) = 1 .. Len(q) + 1
  BY <1>1, LenProperties
<1> QED
  BY <1>1, <1>2

(* The image of a finite set under a function is finite.                    *)
LEMMA FiniteImage ==
    ASSUME NEW S, IsFiniteSet(S), NEW f
    PROVE  IsFiniteSet({f[x] : x \in S})
<1> DEFINE T == {f[x] : x \in S}
           g == [x \in S |-> f[x]]
<1>1. g \in Surjection(S, T)
  BY DEF Surjection
<1> QED
  BY <1>1, FS_Surjection

(* A sequence has finitely many positions.                                   *)
LEMMA DomainFinite ==
    ASSUME NEW S, NEW q \in Seq(S)
    PROVE  IsFiniteSet(DOMAIN q)
BY LenProperties, FS_Interval

(* Only finitely many jobs are in flight.                                   *)
LEMMA InFlightFinite ==
    ASSUME TypeOK
    PROVE  IsFiniteSet(InFlight)
<1> USE DEF TypeOK
<1>1. IsFiniteSet(ToPush)
  <2> DEFINE h == [i \in DOMAIN toPush |-> [req |-> current, file |-> toPush[i]]]
  <2>1. IsFiniteSet(DOMAIN toPush)
    BY DomainFinite DEF ManagerTypeOK
  <2>2. IsFiniteSet({h[i] : i \in DOMAIN toPush})
    BY <2>1, FiniteImage
  <2>3. ToPush = {h[i] : i \in DOMAIN toPush}
    BY DEF ToPush
  <2> QED
    BY <2>2, <2>3
<1>2. IsFiniteSet(Queued)
  BY DomainFinite, FiniteImage DEF SharedTypeOK, Queued
<1>3. IsFiniteSet(Held)
  <2>1. IsFiniteSet({wjob[w] : w \in Worker})
    BY WorkerAssumption, FiniteImage
  <2> QED
    BY <2>1, FS_Subset DEF Held
<1>4. IsFiniteSet(Reported)
  <2> DEFINE h == [i \in DOMAIN mailbox |-> mailbox[i].job]
             R == {h[i] : i \in DOMAIN mailbox}
  <2>1. IsFiniteSet(DOMAIN mailbox)
    BY DomainFinite DEF SharedTypeOK
  <2>2. IsFiniteSet(R)
    BY <2>1, FiniteImage
  <2>3. Reported \subseteq R
    BY DEF Reported, DoneAt
  <2> QED
    BY <2>2, <2>3, FS_Subset
<1> QED
  BY <1>1, <1>2, <1>3, <1>4, FS_Union DEF InFlight

(* The same of the next state, which is well typed too.                      *)
LEMMA InFlightFiniteNext == TypeOK' => IsFiniteSet(InFlight)'
<1>1. TypeOK => IsFiniteSet(InFlight)
  BY InFlightFinite
<1> QED
  BY <1>1, PTL

-----------------------------------------------------------------------------
(* No step of a worker, whether it fails or dies, loses a job: a job taken  *)
(* from the queue is held, a job let go of is reported.                     *)
LEMMA WorkerKeepsJobs ==
    ASSUME TypeOK, NEW w \in Worker, UNCHANGED managerVars,
           WorkerStep(w) \/ WorkerCrashes(w) \/ StopWorker(w)
    PROVE  InFlight \subseteq InFlight'
<1> USE DEF TypeOK
<1>1. ToPush' = ToPush
  BY DEF ToPush, managerVars
<1>2. ASSUME UNCHANGED <<jobQueue, wjob, mailbox>>
      PROVE  InFlight \subseteq InFlight'
  BY <1>1, <1>2 DEF InFlight, Queued, Held, Reported, DoneAt
<1>3. CASE TakeJob(w)
  <2> DEFINE j == Head(jobQueue)
  <2>1. jobQueue \in Seq(Job) /\ jobQueue # <<>> /\ j \in Job
    BY <1>3, PopType DEF TakeJob, PopJob, SharedTypeOK
  <2>2. wjob[w] = None /\ wjob' = [wjob EXCEPT ![w] = j] /\ wjob'[w] = j
    BY <1>3 DEF TakeJob, Goto, ModuleTypeOK
  <2>3. j \in Held' /\ Held \subseteq Held'
    BY <2>1, <2>2, SharedAssumption DEF Held, ModuleTypeOK
  <2>4. Queued \subseteq Queued' \cup {j}
    BY <1>3, <2>1, PopKeeps DEF TakeJob, PopJob, Queued
  <2>5. Reported' = Reported
    BY <1>3 DEF TakeJob, Reported, DoneAt
  <2> QED
    BY <1>1, <2>3, <2>4, <2>5 DEF InFlight
<1>4. CASE SendPair(w)
  <2>1. PICK m \in Message : mailbox' = Append(mailbox, m)
    <3>1. PICK s \in wpair[w] :
            /\ Goto(w, "deliver", "deliver")
            /\ Send(PairPut(s, [src |-> SavePath(wjob[w].file, s), out |-> s,
                                job |-> wjob[w]]))
      BY <1>4 DEF SendPair
    <3>2. wjob[w] \in Job /\ wjob[w].file \in File /\ s \in Span[wjob[w].file]
      BY <3>1 DEF Goto, ModuleTypeOK, AtWork, Job, Unprocessed
    <3> QED
      BY <3>1, <3>2, SegmentPlaces
         DEF Send, PairPut, Message, PairPutMessage, Item
  <2>2. Reported \subseteq Reported'
    BY <2>1, PushKeeps DEF SharedTypeOK, Reported, DoneAt
  <2>3. Queued' = Queued /\ Held' = Held
    BY <1>4 DEF SendPair, Queued, Held
  <2> QED
    BY <1>1, <2>2, <2>3 DEF InFlight
<1>5. ASSUME NEW ok \in BOOLEAN, Report(w, ok)
      PROVE  InFlight \subseteq InFlight'
  <2> DEFINE j == wjob[w]
             m == JobDone(j, ok)
  <2>1. j \in Job
    BY <1>5 DEF Report, Goto, ModuleTypeOK, AtWork
  <2>2. m \in Message /\ m.type = "WORKER_JOB_DONE" /\ m.job = j
    BY <2>1 DEF JobDone, Message, JobDoneMessage
  <2>3. mailbox \in Seq(Message) /\ mailbox' = Append(mailbox, m)
    BY <1>5 DEF Report, Send, SharedTypeOK
  <2>4. Reported \subseteq Reported' /\ j \in Reported'
    <3> HIDE DEF m, j
    <3>1. /\ \A i \in DOMAIN mailbox : /\ i \in DOMAIN mailbox'
                                      /\ mailbox'[i] = mailbox[i]
          /\ \E i \in DOMAIN mailbox' : mailbox'[i] = m
      BY <2>2, <2>3, PushKeeps
    <3> QED
      BY <3>1, <2>2 DEF Reported, DoneAt
  <2>5. Held \subseteq Held' \cup {j}
    BY <1>5 DEF Report, Held, ModuleTypeOK
  <2>6. Queued' = Queued
    BY <1>5 DEF Report, Queued
  <2> QED
    BY <1>1, <2>4, <2>5, <2>6 DEF InFlight
<1> QED
  BY <1>2, <1>3, <1>4, <1>5
     DEF WorkerStep, WorkerExits, Download, Split, UploadMid, DownloadRaises,
         SplitRaises, UploadRaises, WorkerCrashes, StopWorker, sharedVars

(* The jobs a cycle is about to push are as many as its files: a listing    *)
(* names a file once.                                                       *)
LEMMA JobsToPush ==
    ASSUME NEW r \in Request
    PROVE  LET jobs == {[req |-> r, file |-> Folder[r][i]] : i \in DOMAIN Folder[r]}
           IN  IsFiniteSet(jobs) /\ Cardinality(jobs) = Len(Folder[r])
<1> DEFINE n == Len(Folder[r])
           jobs == {[req |-> r, file |-> Folder[r][i]] : i \in DOMAIN Folder[r]}
           g == [i \in 1 .. n |-> [req |-> r, file |-> Folder[r][i]]]
<1>1. n \in Nat /\ DOMAIN Folder[r] = 1 .. n
  BY ManagerAssumption, LenProperties
<1>2. \A i, j \in 1 .. n : Folder[r][i] = Folder[r][j] => i = j
  BY <1>1, ManagerAssumption
<1>3. g \in Bijection(1 .. n, jobs)
  BY <1>1, <1>2 DEF Bijection, Injection, Surjection, IsInjective
<1>4. IsFiniteSet(1 .. n) /\ Cardinality(1 .. n) = n
  BY <1>1, FS_Interval
<1> HIDE DEF g, jobs
<1>5. ExistsBijection(1 .. n, jobs)
  BY <1>3 DEF ExistsBijection
<1>6. IsFiniteSet(jobs) /\ Cardinality(jobs) = n
  BY <1>4, <1>5, FS_Bijection
<1> QED
  BY <1>6 DEF jobs

(* The counter of a cycle never owes more reports than there are jobs in    *)
(* flight: whatever fails, the drain waits only for reports still to come.  *)
LEMMA ManagerKeepsOwed ==
    ASSUME TypeOK, TypeOK', ReportsOwed, ManagerNext, UNCHANGED moduleVars
    PROVE  ReportsOwed'
<1> SUFFICES ASSUME InCycle'
             PROVE  progress'.remaining <= Cardinality(InFlight')
  BY DEF ReportsOwed, InFlight, ToPush, Queued, Held, Reported, DoneAt
<1>1. Held' = Held
  BY DEF Held, moduleVars
<1>2. IsFiniteSet(InFlight) /\ Cardinality(InFlight) \in Nat
  BY InFlightFinite, FS_CardinalityType
<1>3. IsFiniteSet(InFlight') /\ Cardinality(InFlight') \in Nat
  <2>1. IsFiniteSet(InFlight')
    BY InFlightFiniteNext
  <2> QED
    BY <2>1, FS_CardinalityType
<1>4. ASSUME InCycle, InFlight \subseteq InFlight', UNCHANGED progress
      PROVE  progress'.remaining <= Cardinality(InFlight')
  <2>1. Cardinality(InFlight) <= Cardinality(InFlight')
    BY <1>3, <1>4, FS_Subset
  <2>2. progress.remaining <= Cardinality(InFlight) /\ progress.remaining \in Nat
    BY <1>4 DEF ReportsOwed, TypeOK, ManagerTypeOK, Progress
  <2> QED
    BY <1>2, <1>3, <1>4, <2>1, <2>2
<1>5. CASE CollectFiles
  <2>1. current \in Request /\ current' = current
    BY <1>5 DEF CollectFiles, TypeOK, ManagerTypeOK, Handling
  <2>2. /\ progress'.remaining = Len(Folder[current])
        /\ toPush' = Folder[current]
    BY <1>5 DEF CollectFiles, BeginCycle
  <2>3. ToPush' = {[req |-> current, file |-> Folder[current][i]] :
                       i \in DOMAIN Folder[current]}
    BY <2>1, <2>2 DEF ToPush
  <2>4. Cardinality(ToPush') = progress'.remaining
    BY <2>1, <2>2, <2>3, JobsToPush
  <2>5. ToPush' \subseteq InFlight'
    BY DEF InFlight
  <2>6. Cardinality(ToPush') <= Cardinality(InFlight')
    BY <1>3, <2>5, FS_Subset
  <2> QED
    BY <2>4, <2>6
<1>6. CASE PushNextJob
  <2> DEFINE j == [req |-> current, file |-> Head(toPush)]
  <2>1. /\ toPush \in Seq(File) /\ toPush # <<>> /\ toPush' = Tail(toPush)
        /\ current \in Request /\ current' = current
        /\ Head(toPush) \in File
    BY <1>6, PopType DEF PushNextJob, TypeOK, ManagerTypeOK, Handling
  <2>2. ToPush \subseteq ToPush' \cup {j}
    BY <2>1, PopKeeps DEF ToPush
  <2>3. jobQueue \in Seq(Job) /\ j \in Job /\ jobQueue' = Append(jobQueue, j)
    BY <1>6, <2>1 DEF PushNextJob, PushJob, Job, TypeOK, SharedTypeOK
  <2>4. Queued \subseteq Queued' /\ j \in Queued'
    <3> HIDE DEF j
    <3>1. /\ \A i \in DOMAIN jobQueue : /\ i \in DOMAIN jobQueue'
                                      /\ jobQueue'[i] = jobQueue[i]
          /\ \E i \in DOMAIN jobQueue' : jobQueue'[i] = j
      BY <2>3, PushKeeps
    <3> QED
      BY <3>1 DEF Queued
  <2>5. Reported' = Reported
    BY <1>6 DEF PushNextJob, Reported, DoneAt
  <2>6. InFlight \subseteq InFlight'
    BY <1>1, <2>2, <2>4, <2>5 DEF InFlight
  <2>7. InCycle /\ UNCHANGED progress
    BY <1>6 DEF PushNextJob, InCycle
  <2> QED
    BY <1>4, <2>6, <2>7
<1>7. CASE TakeJobDone
  <2> DEFINE m == Head(mailbox)
             j == m.job
  <2>1. mailbox \in Seq(Message) /\ mailbox # <<>> /\ mailbox' = Tail(mailbox)
    BY <1>7 DEF TakeJobDone, Receive, TypeOK, SharedTypeOK
  <2>2. Reported \subseteq Reported' \cup {j}
    <3>1. \A i \in DOMAIN mailbox :
             mailbox[i] = m \/ \E k \in DOMAIN mailbox' : mailbox'[k] = mailbox[i]
      BY <2>1, PopKeeps
    <3> QED
      BY <3>1 DEF Reported, DoneAt
  <2>3. ToPush' = ToPush /\ Queued' = Queued
    BY <1>7 DEF TakeJobDone, ToPush, Queued
  <2>4. InFlight \ {j} \subseteq InFlight'
    BY <1>1, <2>2, <2>3 DEF InFlight
  <2>5. Cardinality(InFlight) - 1 <= Cardinality(InFlight')
    <3>1. /\ IsFiniteSet(InFlight \ {j})
          /\ \/ Cardinality(InFlight \ {j}) = Cardinality(InFlight) - 1
             \/ Cardinality(InFlight \ {j}) = Cardinality(InFlight)
      BY <1>2, FS_RemoveElement
    <3>2. Cardinality(InFlight \ {j}) <= Cardinality(InFlight')
      BY <1>3, <2>4, FS_Subset
    <3> QED
      BY <1>2, <1>3, <3>1, <3>2
  <2>6. InCycle /\ progress \in Progress /\ progress.remaining > 0
    BY <1>7 DEF TakeJobDone, Draining, InCycle, IsDone, TypeOK, ManagerTypeOK,
                Progress
  <2>7. m.success \in BOOLEAN
    <3>1. m \in Message
      BY <2>1, PopType
    <3> QED
      BY <1>7, <3>1 DEF TakeJobDone, Message, JobDoneMessage, PairPutMessage
  <2>8. progress'.remaining = progress.remaining - 1
    BY <1>7, <2>6, <2>7, CountType DEF TakeJobDone
  <2>9. progress.remaining <= Cardinality(InFlight) /\ progress.remaining \in Nat
    BY <2>6 DEF ReportsOwed, Progress
  <2> QED
    BY <1>2, <1>3, <2>5, <2>8, <2>9
<1>8. CASE TakePairPut
  <2> DEFINE m == Head(mailbox)
  <2>1. mailbox \in Seq(Message) /\ mailbox # <<>> /\ mailbox' = Tail(mailbox)
    BY <1>8 DEF TakePairPut, Receive, TypeOK, SharedTypeOK
  <2>2. Reported \subseteq Reported'
    <3>1. \A i \in DOMAIN mailbox :
             mailbox[i] = m \/ \E k \in DOMAIN mailbox' : mailbox'[k] = mailbox[i]
      BY <2>1, PopKeeps
    <3>2. m.type # "WORKER_JOB_DONE"
      BY <1>8 DEF TakePairPut
    <3> QED
      BY <3>1, <3>2 DEF Reported, DoneAt
  <2>3. ToPush' = ToPush /\ Queued' = Queued
    BY <1>8 DEF TakePairPut, ToPush, Queued
  <2>4. InCycle /\ UNCHANGED progress
    BY <1>8 DEF TakePairPut, Draining, InCycle
  <2> QED
    BY <1>1, <1>4, <2>2, <2>3, <2>4 DEF InFlight
<1>9. ASSUME InCycle,
             UNCHANGED <<jobQueue, mailbox, toPush, current, progress>>
      PROVE  progress'.remaining <= Cardinality(InFlight')
  <2>1. InFlight' = InFlight
    BY <1>1, <1>9 DEF InFlight, ToPush, Queued, Reported, DoneAt
  <2> QED
    BY <1>4, <1>9, <2>1
<1>10. CASE MergePair \/ PublishPair
  BY <1>9, <1>10 DEF MergePair, PublishPair, InCycle, sharedVars
<1>11. CASE StopManager \/ \E r \in Request : Submit(r)
  BY <1>9, <1>11 DEF StopManager, Submit, InCycle, sharedVars
<1>12. ASSUME NEW a, AnswerWith(a) PROVE FALSE
  BY <1>12 DEF AnswerWith, InCycle
<1>13. CASE \/ PollAccepts \/ PollLoses \/ PollTimesOut \/ ManagerExits
            \/ LeaveDrain \/ SweepNext \/ RedisFails \/ ManagerCrashes
  BY <1>13 DEF PollAccepts, PollLoses, PollTimesOut, ManagerExits, LeaveDrain,
               SweepNext, RedisFails, ManagerCrashes, InCycle, managerVars
<1> QED
  BY <1>5, <1>6, <1>7, <1>8, <1>10, <1>11, <1>12, <1>13
     DEF ManagerNext, ManagerStep, CollectRaises, MergeRaises, SweepRaises,
         Notify, Abort

(* The drain never waits for a report that cannot come, for any number of   *)
(* workers and files and after any sequence of failed and aborted cycles.   *)
THEOREM OwedCorrect == Spec => []ReportsOwed
<1>1. Init => ReportsOwed
  BY DEF Init, ManagerInit, ReportsOwed, InCycle
<1>2. TypeOK /\ TypeOK' /\ ReportsOwed /\ [Next]_vars => ReportsOwed'
  <2> SUFFICES ASSUME TypeOK, TypeOK', ReportsOwed, [Next]_vars
               PROVE  ReportsOwed'
    OBVIOUS
  <2>1. CASE ManagerNext /\ UNCHANGED moduleVars
    BY <2>1, ManagerKeepsOwed
  <2>2. CASE ModuleNext /\ UNCHANGED managerVars
    <3>1. InFlight \subseteq InFlight'
      BY <2>2, WorkerKeepsJobs DEF ModuleNext
    <3>2. IsFiniteSet(InFlight) /\ IsFiniteSet(InFlight')
      BY InFlightFinite, InFlightFiniteNext
    <3>3. /\ Cardinality(InFlight) \in Nat /\ Cardinality(InFlight') \in Nat
          /\ Cardinality(InFlight) <= Cardinality(InFlight')
      BY <3>1, <3>2, FS_CardinalityType, FS_Subset
    <3>4. InCycle' <=> InCycle
      BY <2>2 DEF managerVars, InCycle
    <3>5. progress' = progress /\ progress.remaining \in Nat
      BY <2>2 DEF managerVars, TypeOK, ManagerTypeOK, Progress
    <3> QED
      BY <3>3, <3>4, <3>5 DEF ReportsOwed
  <2>3. CASE UNCHANGED vars
    BY <2>3 DEF vars, sharedVars, moduleVars, managerVars, ReportsOwed, InCycle,
                InFlight, ToPush, Queued, Held, Reported, DoneAt
  <2>4. CASE Restart
    BY <2>4 DEF Restart, ManagerStartsAgain, ReportsOwed, InCycle
  <2> QED
    BY <2>1, <2>2, <2>3, <2>4 DEF Next
<1> QED
  BY <1>1, <1>2, TypeCorrect, PTL DEF Spec

-----------------------------------------------------------------------------
(* The daemon serves the line of NormalizationService.                      *)

(* The service without its store: what the client asks, in which order it   *)
(* is taken up, and what he is answered.                                    *)
Line == INSTANCE NormalizationService WITH
    Wanted  <- [r \in Request |-> {}],
    stored  <- {},
    waiting <- inbox,
    outcome <- status

(* What a step of the daemon is to the line.                                *)
Quiet == UNCHANGED <<inbox, status, current, disturbed>>

TakenOff(to) ==
    /\ mpc = "poll" /\ inbox # <<>>
    /\ inbox' = Tail(inbox)
    /\ status' = [status EXCEPT ![Head(inbox)] = to]
    /\ current' = IF to = "running" THEN Head(inbox) ELSE current
    /\ disturbed' = disturbed

Answered(a) ==
    /\ current \in Request
    /\ AnswerWith(a)
    /\ \/ disturbed' = disturbed
       \/ a \in Line!Failure /\ disturbed' \in {disturbed, TRUE}

StopAsked == UNCHANGED <<inbox, status, current>> /\ disturbed' = TRUE

WentDown == LoseCurrent /\ disturbed' \in {disturbed, FALSE}

LineStep ==
    \/ Quiet
    \/ \E r \in Request : Submit(r)
    \/ \E to \in {"running", "dropped", "lost"} : TakenOff(to)
    \/ \E a \in Answer : Answered(a)
    \/ StopAsked
    \/ WentDown

-----------------------------------------------------------------------------
(* Every step of the daemon is one of these.                                *)
LEMMA StepOfLine ==
    ASSUME TypeOK, [Next]_vars
    PROVE  LineStep
<1> USE DEF LineStep
<1>1. ASSUME NEW a \in {"unlisted", "aborted"}, Abort(a), mpc \in Handling
      PROVE  Answered(a)
  <2>1. current \in Request /\ disturbed \in BOOLEAN
    BY <1>1 DEF TypeOK, ManagerTypeOK
  <2>2. disturbed' \in {disturbed, TRUE}
    BY <1>1, <2>1, Zenon DEF Abort
  <2>3. a \in Line!Failure
    BY <1>1 DEF Line!Failure
  <2> QED
    BY <1>1, <2>1, <2>2, <2>3 DEF Abort, Answered
<1>2. CASE CollectRaises \/ MergeRaises \/ SweepRaises
  <2>1. \E a \in {"unlisted", "aborted"} : Abort(a) /\ mpc \in Handling
    BY <1>2 DEF CollectRaises, MergeRaises, SweepRaises, Handling
  <2> QED
    BY <1>1, <2>1 DEF Answer
<1>3. CASE Notify
  <2>1. \E a \in Answer : AnswerWith(a)
    BY <1>3 DEF Notify, Answer
  <2>2. current \in Request
    BY <1>3 DEF Notify, TypeOK, ManagerTypeOK, Handling
  <2> QED
    BY <1>3, <2>1, <2>2 DEF Notify, Answered
<1>4. CASE PollAccepts
  BY <1>4 DEF PollAccepts, TakenOff, control
<1>5. CASE PollLoses
  BY <1>5 DEF PollLoses, TakenOff, control
<1>6. CASE RedisFails
  <2>1. CASE UNCHANGED <<inbox, status>>
    BY <1>6, <2>1 DEF RedisFails, Quiet, control
  <2>2. CASE /\ inbox # <<>> /\ inbox' = Tail(inbox)
             /\ status' = [status EXCEPT ![Head(inbox)] = "lost"]
    BY <1>6, <2>2 DEF RedisFails, TakenOff, control
  <2> QED
    BY <1>6, <2>1, <2>2 DEF RedisFails
<1>7. CASE StopManager
  BY <1>7 DEF StopManager, StopAsked
<1>8. CASE ManagerCrashes
  BY <1>8 DEF ManagerCrashes, WentDown, control
<1>9. CASE Restart
  BY <1>9 DEF Restart, ManagerStartsAgain, WentDown
<1>10. CASE \/ PollTimesOut \/ ManagerExits \/ CollectFiles \/ PushNextJob
            \/ TakeJobDone \/ TakePairPut \/ LeaveDrain \/ MergePair
            \/ PublishPair \/ SweepNext
  BY <1>10 DEF PollTimesOut, ManagerExits, CollectFiles, PushNextJob,
               TakeJobDone, TakePairPut, LeaveDrain, MergePair, PublishPair,
               SweepNext, managerVars, control, Quiet
<1>11. CASE UNCHANGED managerVars
  BY <1>11 DEF managerVars, Quiet
<1>12. CASE ManagerNext
  BY <1>2, <1>3, <1>4, <1>5, <1>6, <1>7, <1>8, <1>10, <1>12
     DEF ManagerNext, ManagerStep
<1> QED
  BY <1>9, <1>11, <1>12 DEF Next, vars

(* At the poll loop the manager has no request, and so none runs.           *)
LEMMA PollIdle ==
    ASSUME TypeOK, mpc = "poll"
    PROVE  current = None
BY DEF TypeOK, ManagerTypeOK, Handling

-----------------------------------------------------------------------------
(* The line stays in order.                                                 *)
LEMMA InLineKept ==
    ASSUME TypeOK, InLine, LineStep
    PROVE  InLine'
<1> USE DEF InLine
<1> USE SharedAssumption
<1>0. /\ inbox \in Seq(Request) /\ status \in [Request -> Status]
      /\ current \in Request \cup {None}
      /\ \A i \in DOMAIN inbox : inbox[i] \in Request
  BY DEF TypeOK, ManagerTypeOK
<1>1. CASE Quiet \/ StopAsked
  BY <1>1 DEF Quiet, StopAsked
<1>2. ASSUME NEW r \in Request, Submit(r) PROVE InLine'
  <2>1. \A i \in DOMAIN inbox : inbox[i] # r
    BY <1>2 DEF Submit
  <2>2. /\ status' = [status EXCEPT ![r] = "queued"]
        /\ inbox' = Append(inbox, r) /\ current' = current
        /\ status[r] = "unsent"
    BY <1>2 DEF Submit
  <2>3. /\ DOMAIN inbox' = DOMAIN inbox \cup {Len(inbox) + 1}
        /\ inbox'[Len(inbox) + 1] = r
        /\ \A i \in DOMAIN inbox : inbox'[i] = inbox[i]
        /\ Len(inbox) + 1 \notin DOMAIN inbox
    BY <1>0, <2>2, AppendProperties, LenProperties
  <2>4. \A i \in DOMAIN inbox' : status'[inbox'[i]] = "queued"
    BY <1>0, <2>1, <2>2, <2>3
  <2>5. \A i, j \in DOMAIN inbox' : inbox'[i] = inbox'[j] => i = j
    BY <2>1, <2>3
  <2>6. \A x \in Request : status'[x] = "running" <=> x = current'
    BY <1>0, <2>2
  <2>7. ASSUME NEW x \in Request, status'[x] = "queued"
        PROVE  \E i \in DOMAIN inbox' : inbox'[i] = x
    BY <1>0, <2>2, <2>3, <2>7
  <2> QED
    BY <2>4, <2>5, <2>6, <2>7
<1>3. ASSUME NEW to \in {"running", "dropped", "lost"}, TakenOff(to)
      PROVE  InLine'
  <2>1. current = None
    BY <1>3, PollIdle DEF TakenOff
  <2>2. /\ Head(inbox) = inbox[1] /\ 1 \in DOMAIN inbox
        /\ \A i \in DOMAIN inbox' :
              i + 1 \in DOMAIN inbox /\ inbox'[i] = inbox[i + 1]
    BY <1>0, <1>3, TailElements DEF TakenOff
  <2>3. \A i \in DOMAIN inbox' : i \in Nat /\ i >= 1
    BY <1>0, <1>3, TailElements, LenProperties DEF TakenOff
  <2>4. \A i \in DOMAIN inbox' : inbox'[i] # Head(inbox) /\ inbox'[i] \in Request
    BY <1>0, <2>2, <2>3
  <2>5. \A i \in DOMAIN inbox' : status'[inbox'[i]] = "queued"
    BY <1>0, <1>3, <2>2, <2>4 DEF TakenOff
  <2>6. \A i, j \in DOMAIN inbox' : inbox'[i] = inbox'[j] => i = j
    BY <2>2, <2>3
  <2>7. \A x \in Request : status'[x] = "running" <=> x = current'
    BY <1>0, <1>3, <2>1, <2>2 DEF TakenOff
  <2>8. ASSUME NEW x \in Request, status'[x] = "queued"
        PROVE  \E i \in DOMAIN inbox' : inbox'[i] = x
    <3>1. x # inbox[1] /\ status[x] = "queued"
      BY <1>0, <1>3, <2>2, <2>8 DEF TakenOff
    <3>2. PICK i \in DOMAIN inbox : inbox[i] = x
      BY <3>1
    <3> QED
      BY <1>0, <1>3, <3>1, <3>2, TailElements DEF TakenOff
  <2> QED
    BY <2>5, <2>6, <2>7, <2>8
<1>4. ASSUME NEW a \in Answer, Answered(a) PROVE InLine'
  <2>1. status[current] = "running" /\ a \notin {"queued", "running"}
    BY <1>4 DEF Answered, Answer
  <2> QED
    BY <1>0, <1>4, <2>1 DEF Answered, AnswerWith
<1>5. CASE WentDown
  BY <1>0, <1>5 DEF WentDown, LoseCurrent
<1> QED
  BY <1>1, <1>2, <1>3, <1>4, <1>5 DEF LineStep

(* Each such step is one of the abstract service, or none.                  *)
LEMMA LineSteps ==
    ASSUME TypeOK, InLine, LineStep
    PROVE  [Line!Next]_(Line!vars)
<1> USE SharedAssumption
<1> USE DEF Line!vars, Line!Becomes
<1>0. /\ inbox \in Seq(Request) /\ status \in [Request -> Status]
      /\ current \in Request \cup {None}
  BY DEF TypeOK, ManagerTypeOK
<1>1. CASE Quiet
  BY <1>1 DEF Quiet
<1>2. ASSUME NEW r \in Request, Submit(r) PROVE Line!Ask(r)
  BY <1>2 DEF Submit, control, Line!Ask
<1>3. ASSUME NEW to \in {"running", "dropped", "lost"}, TakenOff(to)
      PROVE  Line!Take(to)
  <2>1. \A r \in Request : status[r] # "running"
    BY <1>3, PollIdle DEF TakenOff, InLine
  <2>2. status[Head(inbox)] = "queued"
    BY <1>0, <1>3, TailElements DEF TakenOff, InLine
  <2> QED
    BY <1>3, <2>1, <2>2 DEF TakenOff, Line!Take
<1>4. ASSUME NEW a \in Answer, Answered(a)
      PROVE  Line!Succeed(current) \/ Line!Fail(current)
  <2>1. status[current] = "running" /\ status' = [status EXCEPT ![current] = a]
    BY <1>4 DEF Answered, AnswerWith, InLine
  <2>2. inbox' = inbox
    BY <1>4 DEF Answered, AnswerWith
  <2>3. CASE a = "success"
    <3>1. disturbed' = disturbed
      BY <1>4, <2>3 DEF Answered, Line!Failure
    <3>2. [r \in Request |-> {}][current] \subseteq {}
      BY <1>4 DEF Answered
    <3> QED
      BY <2>1, <2>2, <2>3, <3>1, <3>2 DEF Line!Succeed
  <2>4. CASE a # "success"
    <3>1. a \in Line!Failure
      BY <2>4 DEF Answer, Line!Failure
    <3>2. disturbed' \in {disturbed, TRUE}
      BY <1>4, Zenon DEF Answered
    <3> QED
      BY <2>1, <2>2, <3>1, <3>2 DEF Line!Fail
  <2> QED
    BY <2>3, <2>4
<1>5. CASE StopAsked
  <2>1. Line!Disturb
    BY <1>5 DEF StopAsked, Line!Disturb
  <2> QED
    BY <2>1 DEF Line!Next
<1>6. CASE WentDown
  <2>1. CASE current \in Request
    <3>1. status' = [status EXCEPT ![current] = "lost"]
      BY <1>0, <1>6, <2>1 DEF WentDown, LoseCurrent
    <3>2. status[current] = "running"
      BY <2>1 DEF InLine
    <3>3. Line!Lose(current)
      BY <1>6, <3>1, <3>2 DEF WentDown, LoseCurrent, Line!Lose
    <3> QED
      BY <2>1, <3>3 DEF Line!Next
  <2>2. CASE current = None
    <3>1. status' = status
      BY <1>0, <1>6, <2>2 DEF WentDown, LoseCurrent
    <3>2. inbox' = inbox /\ disturbed' \in {disturbed, FALSE}
      BY <1>6 DEF WentDown, LoseCurrent
    <3>3. CASE disturbed' = disturbed
      BY <3>1, <3>2, <3>3
    <3>4. CASE disturbed' = FALSE
      <4>1. Line!Refresh
        BY <3>1, <3>2, <3>4 DEF Line!Refresh
      <4> QED
        BY <4>1 DEF Line!Next
    <3> QED
      BY <3>2, <3>3, <3>4
  <2> QED
    BY <1>0, <2>1, <2>2
<1>7. ASSUME NEW a \in Answer, Answered(a) PROVE Line!Next
  <2>1. current \in Request
    BY <1>7 DEF Answered
  <2> QED
    BY <1>4, <1>7, <2>1 DEF Line!Next
<1>8. ASSUME NEW r \in Request, Submit(r) PROVE Line!Next
  BY <1>2, <1>8 DEF Line!Next
<1>9. ASSUME NEW to \in {"running", "dropped", "lost"}, TakenOff(to)
      PROVE  Line!Next
  BY <1>3, <1>9 DEF Line!Next
<1> QED
  BY <1>1, <1>5, <1>6, <1>7, <1>8, <1>9 DEF LineStep

-----------------------------------------------------------------------------
(* The requests are in line: the Redis list holds each queued request once  *)
(* and nothing else, and at most one runs, the one the manager handles      *)
(* (listener.poll, manager.py _handle_request).                             *)
THEOREM RequestsInLine == Spec => []InLine
<1>1. Init => InLine
  BY SharedAssumption, EmptySeq DEF Init, ManagerInit, InLine
<1>2. TypeOK /\ InLine /\ [Next]_vars => InLine'
  BY StepOfLine, InLineKept
<1> QED
  BY <1>1, <1>2, TypeCorrect, PTL DEF Spec

(* The daemon implements the line of the abstract service: requests are     *)
(* taken in the order they were queued, one at a time, each once; one that  *)
(* was taken is answered once, or lost and never answered, whatever fails   *)
(* and however often the daemon is killed and started again.                *)
THEOREM LineServed == Spec => Line!Spec
<1>1. Init => Line!Init
  BY DEF Init, ManagerInit, Line!Init
<1>2. TypeOK /\ InLine /\ [Next]_vars => [Line!Next]_(Line!vars)
  BY StepOfLine, LineSteps
<1> QED
  BY <1>1, <1>2, TypeCorrect, RequestsInLine, PTL DEF Spec, Line!Spec

=============================================================================
