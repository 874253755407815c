---------------------------- MODULE StorageProofs ----------------------------
(***************************************************************************)
(* That what is counted as processed is in storage when it is answered, and*)
(* nothing else ever is, for every set of files, requests and workers and  *)
(* every kind of fault: the daemon implements NormalizationService.  And   *)
(* that what is stored stays, where no object is meant for two requests.   *)
(***************************************************************************)
EXTENDS DiskProofs

-----------------------------------------------------------------------------
(* Storage. *)

(* An upload decides what is stored under its name and under no other.      *)
LEMMA UploadStores ==
    ASSUME TypeOK, NEW n \in ObjectName, NEW c, Upload(n, c),
           NEW f \in File, NEW s \in Span[f]
    PROVE  /\ NameOf(f, s) = n =>
                 (Stored(f, s)' <=> \E i \in DOMAIN c : c[i] = <<f, s>>)
           /\ NameOf(f, s) # n => (Stored(f, s)' <=> Stored(f, s))
<1>1. NameOf(f, s) \in ObjectName
  BY SegmentPlaces DEF NameOf, MidName, PairName, ObjectName
<1>2. /\ DOMAIN object = ObjectName
      /\ object' = [object EXCEPT ![n] = c]
  BY DEF TypeOK, SharedTypeOK, Upload
<1> QED
  BY <1>1, <1>2 DEF Stored

(* The segment of a worker's MID is the only one of its name, so that its   *)
(* upload adds it and removes nothing.                                      *)
LEMMA MidStored ==
    ASSUME Adjoining, TypeOK, PathsRight, NEW w \in Worker, UploadMid(w)
    PROVE  /\ \A f \in File : \A s \in Span[f] : Stored(f, s) => Stored(f, s)'
           /\ \E s \in wmid[w] : /\ Stored(wjob[w].file, s)'
                                 /\ s \in Processed(wjob[w].file)
                                 /\ wmid' = [wmid EXCEPT ![w] = @ \ {s}]
<1>0. PICK g \in File : wjob[w].file = g /\ wmid[w] \subseteq Processed(g)
  BY DEF UploadMid, Goto, TypeOK, ModuleTypeOK, AtWork, Job
<1>1. PICK s \in wmid[w] :
        /\ cache[SavePath(g, s)] # None
        /\ Upload(MidName(s), <<cache[SavePath(g, s)]>>)
        /\ wmid' = [wmid EXCEPT ![w] = @ \ {s}]
        /\ wjob' = wjob
  BY <1>0 DEF UploadMid
<1>2. s \in Processed(g)
  BY <1>0
<1>3. s \in Span[g] /\ Position(g, s) = "MID"
  BY <1>2 DEF Processed
<1>4. <<g, s>> \in Segment /\ MidName(s) \in ObjectName
  BY <1>2, <1>3, SegmentPlaces DEF MidName, ObjectName
<1>5. cache[SavePath(g, s)] = <<g, s>>
  BY <1>1, <1>4 DEF PathsRight
<1> DEFINE c == <<cache[SavePath(g, s)]>>
<1>6. DOMAIN c = {1} /\ c[1] = <<g, s>>
  BY <1>5
<1>7. Upload(MidName(s), c)
  BY <1>1
<1> HIDE DEF c
<1>8. ASSUME NEW f \in File, NEW t \in Span[f], NameOf(f, t) = MidName(s)
      PROVE  f = g /\ t = s
  <2>1. t = s /\ Position(f, t) = "MID" /\ <<f, t>> \in Segment
    BY <1>8, SegmentPlaces DEF NameOf, MidName, PairName
  <2>2. <<f, t>> = <<g, s>>
    BY <1>3, <1>4, <2>1 DEF Adjoining
  <2> QED
    BY <2>2
<1>9. ASSUME NEW f \in File, NEW t \in Span[f], Stored(f, t)
      PROVE  Stored(f, t)'
  <2>1. CASE NameOf(f, t) = MidName(s)
    BY <1>4, <1>6, <1>7, <1>8, <2>1, UploadStores
  <2>2. CASE NameOf(f, t) # MidName(s)
    BY <1>4, <1>7, <1>9, <2>2, UploadStores
  <2> QED
    BY <2>1, <2>2
<1>10. NameOf(g, s) = MidName(s)
  BY <1>3 DEF NameOf
<1>11. Stored(g, s)'
  BY <1>2, <1>3, <1>4, <1>6, <1>7, <1>10, UploadStores
<1>12. Stored(wjob[w].file, s)'
  BY <1>0, <1>1, <1>11
<1> QED
  BY <1>0, <1>1, <1>2, <1>9, <1>12

(* Workers replace nothing that is stored.                                  *)
LEMMA WorkersStore ==
    ASSUME Adjoining, TypeOK, PathsRight, NEW w \in Worker,
           WorkerStep(w) \/ WorkerCrashes(w) \/ StopWorker(w),
           NEW f \in File, NEW s \in Span[f], Stored(f, s)
    PROVE  Stored(f, s)'
<1>1. CASE UploadMid(w)
  BY <1>1, MidStored
<1>2. CASE ~UploadMid(w)
  <2>1. object' = object
    BY <1>2 DEF WorkerStep, TakeJob, WorkerExits, Download, Split, SendPair,
                DownloadRaises, SplitRaises, UploadRaises, Report, WorkerCrashes,
                StopWorker, sharedVars
  <2> QED
    BY <2>1 DEF Stored
<1> QED
  BY <1>1, <1>2

-----------------------------------------------------------------------------
(* What is secure stays so. *)

(* A second of which nothing is to come stays so as long as no piece of it  *)
(* appears and no worker gets one to send.                                  *)
LEMMA SettledStays ==
    ASSUME NEW s, Settled(s), \A x \in InPlay' : x \in InPlay \/ x.out # s,
           ToSplit' \subseteq ToSplit,
           \A v \in Sending' : \/ v \in Sending /\ wpair'[v] \subseteq wpair[v]
                               \/ s \notin wpair'[v]
    PROVE  Settled(s)'
BY DEF Settled

(* Steps that replace nothing stored and take no piece out of play leave    *)
(* secure what is.                                                          *)
LEMMA SecureStays ==
    ASSUME NEW j \in Job, NEW s \in Span[j.file], SecureAt(j, s),
           Stored(j.file, s) => Stored(j.file, s)',
           InPlay \subseteq InPlay',
           Settled(s) => Settled(s)'
    PROVE  SecureAt(j, s)'
BY DEF SecureAt, Piece

(* A worker's step unsettles no second.                                     *)
LEMMA WorkerSettles ==
    ASSUME TypeOK, NEW w \in Worker, UNCHANGED managerVars,
           WorkerStep(w) \/ WorkerCrashes(w) \/ StopWorker(w), NEW s
    PROVE  InPlay \subseteq InPlay' /\ (Settled(s) => Settled(s)')
<1>1. InPlay \subseteq InPlay' /\ (Settled(s) => \A x \in InPlay' : x \in InPlay \/ x.out # s)
  <2>1. CASE SendPair(w)
    <3>1. PICK t \in wpair[w] : /\ InPlay' = InPlay \cup {Piece(wjob[w], t)}
                                /\ wpc[w] = "deliver"
      BY <2>1, PieceSent
    <3>2. Settled(s) => t # s
      BY <3>1 DEF Settled, Sending
    <3> QED
      BY <3>1, <3>2 DEF Piece
  <2>2. CASE ~SendPair(w)
    BY <2>2, NoPieceSent
  <2> QED
    BY <2>1, <2>2
<1>2. Settled(s) => Settled(s)'
  <2> SUFFICES ASSUME Settled(s) PROVE Settled(s)'
    OBVIOUS
  <2>1. ASSUME NEW v \in Sending'
        PROVE  \/ v \in Sending /\ wpair'[v] \subseteq wpair[v]
               \/ s \notin wpair'[v]
    <3>1. CASE Split(w) /\ v = w /\ wjob[w] \in ToSplit
      <4>1. wpair'[w] = Unprocessed(wjob[w].file)
        BY <3>1 DEF Split, TypeOK, ModuleTypeOK
      <4> QED
        BY <3>1, <4>1 DEF Settled
    <3> QED
      BY <3>1, WorkerMoves
  <2>2. ToSplit' \subseteq ToSplit
    BY WorkerMoves
  <2> QED
    BY <1>1, <2>1, <2>2, SettledStays
<1> QED
  BY <1>1, <1>2

(* Nor does it undo what is secure.                                         *)
LEMMA WorkerKeepsSecure ==
    ASSUME Adjoining, TypeOK, PathsRight, NEW w \in Worker, UNCHANGED managerVars,
           WorkerStep(w) \/ WorkerCrashes(w) \/ StopWorker(w),
           NEW j \in Job, NEW s \in Span[j.file], SecureAt(j, s)
    PROVE  SecureAt(j, s)'
<1>1. Stored(j.file, s) => Stored(j.file, s)'
  BY WorkersStore DEF Job
<1>2. InPlay \subseteq InPlay' /\ (Settled(s) => Settled(s)')
  BY WorkerSettles
<1> QED
  BY <1>1, <1>2, SecureStays

(* A worker brings no job into flight.                                      *)
LEMMA WorkerAddsNoJob ==
    ASSUME TypeOK, NEW w \in Worker, UNCHANGED managerVars,
           WorkerStep(w) \/ WorkerCrashes(w) \/ StopWorker(w)
    PROVE  InFlight' \subseteq InFlight
<1> USE DEF TypeOK
<1>1. ToPush' = ToPush
  BY DEF ToPush, managerVars
<1>2. CASE UNCHANGED <<jobQueue, wjob, mailbox>>
  BY <1>1, <1>2 DEF InFlight, Queued, Held, Reported, DoneAt
<1>3. CASE Takes(w)
  <2>1. jobQueue \in Seq(Job) /\ jobQueue # <<>> /\ jobQueue' = Tail(jobQueue)
    BY <1>3 DEF Takes, SharedTypeOK
  <2>2. Queued = Queued' \cup {Head(jobQueue)}
    BY <2>1, PopOnce, QueuedIsRange, QueuedIsRangeNext
  <2>3. Held' \subseteq Held \cup {Head(jobQueue)}
    BY <1>3 DEF Takes, Held, ModuleTypeOK
  <2>4. Reported' = Reported
    BY <1>3 DEF Takes, Reported, DoneAt
  <2> QED
    BY <1>1, <2>2, <2>3, <2>4 DEF InFlight
<1>4. ASSUME NEW m \in Message, Sends(w, m) PROVE InFlight' \subseteq InFlight
  <2>1. /\ mailbox \in Seq(Message) /\ mailbox' = Append(mailbox, m)
        /\ m.type = "WORKER_PAIR_PUT" /\ UNCHANGED <<jobQueue, wjob>>
    BY <1>4 DEF Sends, PairPutMessage, SharedTypeOK
  <2>2. DoneAt' = DoneAt /\ \A i \in DoneAt : mailbox'[i] = mailbox[i]
    BY <2>1, MailIn DEF DoneAt
  <2>3. Reported' = Reported
    BY <2>2 DEF Reported
  <2> QED
    BY <1>1, <2>1, <2>3 DEF InFlight, Queued, Held
<1>5. ASSUME NEW ok \in BOOLEAN, Reports(w, ok) PROVE InFlight' \subseteq InFlight
  <2> DEFINE m == JobDone(wjob[w], ok)
             n == Len(mailbox) + 1
  <2>1. /\ mailbox \in Seq(Message) /\ mailbox' = Append(mailbox, m) /\ m \in Message
        /\ m.type = "WORKER_JOB_DONE" /\ m.job = wjob[w]
        /\ wjob[w] \in Held /\ jobQueue' = jobQueue
    BY <1>5, SharedAssumption
       DEF Reports, JobDone, Message, JobDoneMessage, SharedTypeOK, Held
  <2>2. Held' \subseteq Held
    BY <1>5 DEF Reports, Held, ModuleTypeOK
  <2> HIDE DEF m
  <2>3. /\ DoneAt' = DoneAt \cup {n} /\ mailbox'[n] = m
        /\ \A i \in DoneAt : mailbox'[i] = mailbox[i]
    BY <2>1, MailIn DEF DoneAt
  <2>4. Reported' \subseteq Reported \cup {wjob[w]}
    BY <2>1, <2>3 DEF Reported
  <2> QED
    BY <1>1, <2>1, <2>2, <2>4 DEF InFlight, Queued
<1> QED
  BY <1>2, <1>3, <1>4, <1>5, StepOfWorker

(* The jobs in a worker's hands, in the mailbox and in a cycle are jobs.    *)
LEMMA JobsAreJobs ==
    ASSUME TypeOK
    PROVE  /\ \A w \in Worker : wpc[w] \in AtWork => wjob[w] \in Job
           /\ \A i \in DoneAt : mailbox[i].job \in Job /\ mailbox[i].success \in BOOLEAN
           /\ current \in Request => JobsOf(current) \subseteq Job
<1>1. \A i \in DoneAt : mailbox[i].job \in Job /\ mailbox[i].success \in BOOLEAN
  <2> SUFFICES ASSUME NEW i \in DoneAt
               PROVE  mailbox[i].job \in Job /\ mailbox[i].success \in BOOLEAN
    OBVIOUS
  <2>1. mailbox[i] \in Message /\ mailbox[i].type = "WORKER_JOB_DONE"
    BY ElementOfSeq, LenProperties DEF DoneAt, TypeOK, SharedTypeOK
  <2> QED
    BY <2>1 DEF Message, JobDoneMessage, PairPutMessage
<1>2. ASSUME current \in Request PROVE JobsOf(current) \subseteq Job
  <2>1. Folder[current] \in Seq(File)
    BY <1>2, ManagerAssumption
  <2>2. \A i \in DOMAIN Folder[current] : Folder[current][i] \in File
    BY <2>1, ElementOfSeq, LenProperties
  <2> QED
    BY <1>2, <2>2 DEF JobsOf, Job
<1> QED
  BY <1>1, <1>2 DEF TypeOK, ModuleTypeOK

-----------------------------------------------------------------------------
(* What a worker is done with is secure. *)

(* What leaves the lists of a worker that goes on delivering was uploaded   *)
(* or sent.                                                                 *)
LEMMA ListsShrink ==
    ASSUME TypeOK, NEW w \in Worker, NEW v \in Sending, v \in Sending',
           WorkerStep(w) \/ WorkerCrashes(w) \/ StopWorker(w)
    PROVE  /\ wmid'[v] # wmid[v] => v = w /\ UploadMid(w)
           /\ wpair'[v] # wpair[v] => v = w /\ SendPair(w)
<1>1. v \in Worker /\ wpc[v] = "deliver" /\ wpc'[v] = "deliver"
  BY DEF Sending
<1>2. CASE UploadMid(w)
  BY <1>1, <1>2 DEF UploadMid, TypeOK, ModuleTypeOK
<1>3. CASE SendPair(w)
  BY <1>1, <1>3 DEF SendPair, TypeOK, ModuleTypeOK
<1>4. CASE Split(w)
  BY <1>1, <1>4 DEF Split, Goto, TypeOK, ModuleTypeOK
<1>5. CASE UploadRaises(w)
  BY <1>1, <1>5 DEF UploadRaises, Goto, TypeOK, ModuleTypeOK
<1>6. CASE ~UploadMid(w) /\ ~SendPair(w) /\ ~Split(w) /\ ~UploadRaises(w)
  BY <1>6 DEF WorkerStep, TakeJob, WorkerExits, Download, DownloadRaises, SplitRaises,
              Report, WorkerCrashes, StopWorker, sharedVars
<1> QED
  BY <1>2, <1>3, <1>4, <1>5, <1>6

(* A worker's step secures what it takes off its lists, and reports a       *)
(* success when the lists are empty.                                        *)
LEMMA WorkerSecured ==
    ASSUME Adjoining, TypeOK, TypeOK', PathsRight, Secured, NEW w \in Worker,
           UNCHANGED managerVars,
           WorkerStep(w) \/ WorkerCrashes(w) \/ StopWorker(w)
    PROVE  Secured'
<1> SUFFICES ASSUME Undisturbed PROVE WorkerSecures' /\ ReportSecure' /\ CountSecure'
  BY DEF Secured, Undisturbed, managerVars
<1>1. WorkerSecures /\ ReportSecure /\ CountSecure
  BY DEF Secured
<1>2. ASSUME NEW j \in Job, Secure(j) PROVE Secure(j)'
  BY <1>2, WorkerKeepsSecure DEF Secure
<1>3. WorkerSecures'
  <2> SUFFICES ASSUME NEW v \in Sending', NEW s \in Span[wjob'[v].file],
                      s \notin wmid'[v] \cup wpair'[v]
               PROVE  SecureAt(wjob[v], s)' /\ wjob'[v] = wjob[v]
    BY DEF WorkerSecures
  <2>1. PICK j \in Job : wjob'[v] = j
    BY DEF Sending, TypeOK, ModuleTypeOK, AtWork
  <2>2. CASE v = w /\ Split(w)
    <3>1. wmid'[w] = Processed(j.file) /\ wpair'[w] = Unprocessed(j.file)
      BY <2>1, <2>2 DEF Split, TypeOK, ModuleTypeOK
    <3> QED
      BY <2>1, <2>2, <3>1 DEF Processed, Unprocessed
  <2>3. CASE ~(v = w /\ Split(w))
    <3>1. v \in Sending /\ wjob[v] = j
      BY <2>1, <2>3, WorkerMoves
    <3>2. SecureAt(j, s)'
      <4>1. CASE s \notin wmid[v] \cup wpair[v]
        BY <1>1, <2>1, <3>1, <4>1, WorkerKeepsSecure DEF WorkerSecures
      <4>2. CASE s \in wmid[v]
        <5>1. v = w /\ UploadMid(w)
          BY <3>1, <4>2, ListsShrink
        <5>2. Stored(j.file, s)' /\ s \in Processed(j.file)
          <6>1. PICK t \in wmid[w] : /\ Stored(wjob[w].file, t)'
                                     /\ t \in Processed(wjob[w].file)
                                     /\ wmid' = [wmid EXCEPT ![w] = @ \ {t}]
            BY <5>1, MidStored
          <6>2. s = t
            BY <4>2, <5>1, <6>1 DEF TypeOK, ModuleTypeOK
          <6> QED
            BY <2>1, <3>1, <5>1, <6>1, <6>2
        <5> QED
          BY <5>2 DEF SecureAt
      <4>3. CASE s \in wpair[v]
        <5>1. v = w /\ SendPair(w)
          BY <3>1, <4>3, ListsShrink
        <5>2. PICK t \in wpair[w] :
                /\ InPlay' = InPlay \cup {Piece(wjob[w], t)} /\ wpc[w] = "deliver"
                /\ wpair' = [wpair EXCEPT ![w] = @ \ {t}]
          BY <5>1, PieceSent
        <5>3. s = t /\ s \in Unprocessed(j.file)
          BY <3>1, <4>3, <5>1, <5>2 DEF TypeOK, ModuleTypeOK
        <5>4. Piece(j, s) \in InPlay'
          BY <3>1, <5>1, <5>2, <5>3
        <5> QED
          BY <5>3, <5>4 DEF SecureAt, Piece
      <4> QED
        BY <4>1, <4>2, <4>3
    <3> QED
      BY <2>1, <3>1, <3>2
  <2> QED
    BY <2>2, <2>3
<1>4. ReportSecure'
  <2> SUFFICES ASSUME NEW i \in DoneAt', mailbox'[i].success
               PROVE  Secure(mailbox[i].job)'
    BY DEF ReportSecure
  <2>1. mailbox \in Seq(Message)
    BY DEF TypeOK, SharedTypeOK
  <2>2. CASE i \in DoneAt /\ mailbox'[i] = mailbox[i]
    <3>1. mailbox[i].job \in Job
      BY <2>2, JobsAreJobs
    <3>2. Secure(mailbox[i].job)
      BY <1>1, <2>2 DEF ReportSecure
    <3> DEFINE j == mailbox[i].job
    <3>3. PICK k \in Job : k = j /\ Secure(k)
      BY <3>1, <3>2
    <3>4. Secure(k)'
      BY <1>2, <3>3
    <3> QED
      BY <2>2, <3>3, <3>4
  <2>3. CASE ~(i \in DoneAt /\ mailbox'[i] = mailbox[i])
    <3>1. PICK ok \in BOOLEAN : Reports(w, ok)
      <4>1. ~UNCHANGED mailbox
        BY <2>3 DEF DoneAt
      <4>2. ASSUME NEW m \in Message, Sends(w, m) PROVE FALSE
        <5>1. mailbox' = Append(mailbox, m) /\ m.type = "WORKER_PAIR_PUT"
          BY <4>2 DEF Sends, PairPutMessage
        <5>2. DoneAt' = DoneAt /\ \A k \in DoneAt : mailbox'[k] = mailbox[k]
          BY <2>1, <5>1, MailIn DEF DoneAt
        <5> QED
          BY <2>3, <5>2
      <4> QED
        BY <4>1, <4>2, StepOfWorker DEF Takes
    <3> DEFINE m == JobDone(wjob[w], ok)
    <3>2. /\ mailbox' = Append(mailbox, m) /\ m \in Message
          /\ m.type = "WORKER_JOB_DONE" /\ m.job = wjob[w] /\ m.success = ok
          /\ wjob[w] \in Job
      BY <3>1 DEF Reports, JobDone, Message, JobDoneMessage
    <3> HIDE DEF m
    <3>3. mailbox'[i] = m
      <4>1. /\ DoneAt' = DoneAt \cup {Len(mailbox) + 1}
            /\ mailbox'[Len(mailbox) + 1] = m
            /\ \A k \in DoneAt : mailbox'[k] = mailbox[k]
        BY <2>1, <3>2, MailIn DEF DoneAt
      <4> QED
        BY <2>3, <4>1
    <3>4. PICK k \in Job : k = wjob[w] /\ mailbox'[i].job = k
      BY <3>2, <3>3
    <3>5. ok
      BY <3>2, <3>3
    <3>6. w \in Sending /\ wmid[w] = {} /\ wpair[w] = {}
      <4>1. wjob[w] \in Job /\ wjob' = [wjob EXCEPT ![w] = None]
        BY <3>1 DEF Reports
      <4>2. wjob'[w] # wjob[w]
        BY <4>1, SharedAssumption DEF TypeOK, ModuleTypeOK
      <4>3. ~TakeJob(w)
        BY <4>1, SharedAssumption DEF TakeJob, Goto, TypeOK, ModuleTypeOK
      <4>4. PICK a \in BOOLEAN : Report(w, a)
        BY <4>2, <4>3
           DEF WorkerStep, WorkerExits, Download, Split, UploadMid, SendPair,
               DownloadRaises, SplitRaises, UploadRaises, WorkerCrashes, StopWorker,
               sharedVars
      <4>5. a = ok
        <5>1. mailbox' = Append(mailbox, JobDone(wjob[w], a)) /\ JobDone(wjob[w], a) \in Message
          BY <4>1, <4>4 DEF Report, Send, JobDone, Message, JobDoneMessage
        <5>2. mailbox'[Len(mailbox) + 1] = JobDone(wjob[w], a)
          BY <2>1, <5>1, MailIn
        <5>3. mailbox'[Len(mailbox) + 1] = m
          BY <2>1, <3>2, MailIn
        <5> QED
          BY <3>2, <5>2, <5>3 DEF JobDone
      <4> QED
        BY <3>5, <4>4, <4>5 DEF Report, Goto, Sending
    <3>7. Secure(k)
      BY <1>1, <3>4, <3>6 DEF WorkerSecures, Secure
    <3>8. Secure(k)'
      BY <1>2, <3>7
    <3> QED
      BY <3>4, <3>8
  <2> QED
    BY <2>2, <2>3
<1>5. CountSecure'
  <2> SUFFICES ASSUME mpc \in {"drain", "merge", "publish", "sweep"}
               PROVE  CountSecure'
    BY DEF CountSecure, managerVars
  <2>1. PICK G \in SUBSET (JobsOf(current) \ InFlight) :
          Cardinality(G) = progress.success /\ \A j \in G : Secure(j)
    BY <1>1 DEF CountSecure
  <2>2. G \in SUBSET (JobsOf(current) \ InFlight')
    BY WorkerAddsNoJob
  <2>3. \A j \in G : j \in Job
    BY JobsAreJobs DEF TypeOK, ManagerTypeOK, Handling
  <2>4. \A j \in G : Secure(j)'
    BY <1>2, <2>1, <2>3
  <2>5. current' = current /\ progress' = progress
    BY DEF managerVars
  <2> QED
    BY <2>1, <2>2, <2>4, <2>5 DEF CountSecure
<1> QED
  BY <1>3, <1>4, <1>5

-----------------------------------------------------------------------------
(* What the manager uploads is the last of its second. *)

(* A piece is a segment of its file, and is stored under its second's name. *)
LEMMA PieceNamed ==
    ASSUME TypeOK, PieceOnce, NEW x \in InPlay
    PROVE  /\ x.job \in Job /\ x.job.file \in File /\ x.out \in Second
           /\ x.job \in JobsOf(current) /\ x = Piece(x.job, x.out)
           /\ x.src = SavePath(x.job.file, x.out)
           /\ x.out \in Span[x.job.file] /\ x.out \in Unprocessed(x.job.file)
           /\ <<x.job.file, x.out>> \in Segment
           /\ NameOf(x.job.file, x.out) = PairName(x.out)
           /\ PairName(x.out) \in ObjectName
<1>1. x \in Item
  BY PieceIsItem
<1>2. /\ x.job \in Job /\ x.job.file \in File /\ x.out \in Second
  BY <1>1 DEF Item, Job
<1>3. /\ x.job \in JobsOf(current) /\ x = Piece(x.job, x.out)
      /\ x.out \in Unprocessed(x.job.file)
  BY DEF PieceOnce, WellMade
<1>4. /\ x.src = SavePath(x.job.file, x.out) /\ x.out \in Span[x.job.file]
      /\ NameOf(x.job.file, x.out) = PairName(x.out)
  BY <1>3 DEF Piece, Unprocessed, NameOf
<1>5. <<x.job.file, x.out>> \in Segment /\ PairName(x.out) \in ObjectName
  BY <1>2, <1>4, SegmentPlaces DEF PairName, ObjectName
<1> QED
  BY <1>2, <1>3, <1>4, <1>5

(* What is still to be split is in flight, and a worker that delivers holds *)
(* a job.                                                                   *)
LEMMA AtWorkInFlight ==
    ASSUME TypeOK
    PROVE  /\ ToSplit \subseteq InFlight
           /\ \A w \in Sending : wjob[w] \in InFlight /\ wjob[w] \in Job
<1>1. \A w \in Worker : wpc[w] \in {"download", "split", "deliver"} =>
          wjob[w] \in Job /\ wjob[w] \in Held
  BY SharedAssumption DEF TypeOK, ModuleTypeOK, AtWork, Held
<1> QED
  BY <1>1 DEF ToSplit, Sending, InFlight

(* Where files adjoin, the two pieces of a pair are all of their second.    *)
LEMMA PairIsAll ==
    ASSUME Adjoining, TypeOK, Accounted, Undisturbed, PieceOnce, TwoHalves, PublishPair,
           NEW j \in JobsOf(current), pair[1].out \in Unprocessed(j.file)
    PROVE  Piece(j, pair[1].out) \in Paired
<1> DEFINE s == pair[1].out
           f == pair[1].job.file
           g == pair[2].job.file
           h == j.file
<1>1. /\ mpc = "publish" /\ pair[1].out = pair[2].out /\ pair[1].job # pair[2].job
      /\ Paired = {pair[1], pair[2]}
      /\ pair[1] \in InPlay /\ pair[2] \in InPlay
  BY PairLeaves DEF PublishPair, TwoHalves
<1>2. current \in Request
  BY <1>1 DEF TypeOK, ManagerTypeOK, Handling
<1>3. j \in Job /\ j = [req |-> current, file |-> h] /\ h \in File
  BY <1>2, JobsAreJobs DEF JobsOf, Job
<1>4. /\ pair[1].job \in JobsOf(current) /\ pair[2].job \in JobsOf(current)
      /\ pair[1] = Piece(pair[1].job, s) /\ pair[2] = Piece(pair[2].job, s)
      /\ <<f, s>> \in Segment /\ <<g, s>> \in Segment
      /\ NameOf(f, s) = PairName(s) /\ NameOf(g, s) = PairName(s)
  BY <1>1, PieceNamed
<1>5. /\ pair[1].job = [req |-> current, file |-> f]
      /\ pair[2].job = [req |-> current, file |-> g]
  BY <1>4 DEF JobsOf
<1>6. s \in Span[h] /\ Position(h, s) # "MID"
  BY DEF Unprocessed
<1>7. <<h, s>> \in Segment /\ NameOf(h, s) = PairName(s)
  BY <1>3, <1>6, SegmentPlaces DEF NameOf
<1> HIDE DEF s, f, g, h
<1>8. f # g
  BY <1>1, <1>5
<1>9. <<f, s>> = <<g, s>> \/ <<g, s>> = <<h, s>> \/ <<f, s>> = <<h, s>>
  BY <1>4, <1>7 DEF Adjoining
<1>10. h = f \/ h = g
  BY <1>8, <1>9
<1>11. j = pair[1].job \/ j = pair[2].job
  BY <1>3, <1>5, <1>10
<1> QED
  BY <1>1, <1>4, <1>11 DEF s

(* The manager's uploads store the pieces they take out of play and replace *)
(* nothing but what is stored under their second's name, and nothing of the *)
(* second is to come.                                                       *)
LEMMA PieceStored ==
    ASSUME Adjoining, TypeOK, Accounted, Undisturbed, PieceOnce, TwoHalves, PathsRight,
           PublishPair \/ SweepNext, UNCHANGED moduleVars
    PROVE  \E s \in Second, G \in SUBSET InPlay :
              /\ InPlay' = InPlay \ G /\ G # {}
              /\ \A x \in G : x.out = s /\ Stored(x.job.file, s)'
              /\ \A f \in File : \A t \in Span[f] :
                    NameOf(f, t) # PairName(s) /\ Stored(f, t) => Stored(f, t)'
              /\ Settled(s)'
              /\ object' = [object EXCEPT ![PairName(s)] = object'[PairName(s)]]
<1>1. ToSplit' = ToSplit /\ Sending' = Sending /\ wpair' = wpair
  BY DEF PublishPair, SweepNext, moduleVars, ToSplit, ToPush, Queued, Sending
<1>2. CASE PublishPair
  <2>1. /\ DOMAIN pair = {1, 2} /\ Paired = {pair[1], pair[2]}
        /\ Paired \in SUBSET InPlay /\ InPlay' = InPlay \ Paired
    BY <1>2, PairLeaves
  <2>2. PICK s \in Second : s = pair[1].out /\ PairName(s) \in ObjectName
    BY <2>1, PieceNamed
  <2>3. /\ mpc = "publish" /\ Upload(PairName(s), merged) /\ pair[2].out = s
        /\ merged = [i \in DOMAIN pair |-> <<pair[i].job.file, pair[i].out>>]
    BY <1>2, <2>2 DEF PublishPair, TwoHalves, PathsRight
  <2>4. ASSUME NEW x \in Paired PROVE x.out = s /\ Stored(x.job.file, s)'
    <3>1. x.out = s /\ \E i \in DOMAIN merged : merged[i] = <<x.job.file, s>>
      BY <2>1, <2>2, <2>3
    <3>2. x.job.file \in File /\ s \in Span[x.job.file] /\ NameOf(x.job.file, s) = PairName(s)
      BY <2>1, <3>1, PieceNamed
    <3> QED
      BY <2>2, <2>3, <3>1, <3>2, UploadStores
  <2>5. Settled(s)'
    <3>1. ASSUME NEW j \in JobsOf(current), s \in Unprocessed(j.file)
          PROVE  Piece(j, s) \in Paired
      BY <1>2, <2>2, <3>1, PairIsAll
    <3>2. \A x \in InPlay' : x.out # s
      BY <2>1, <3>1, PieceNamed
    <3>3. InFlight \subseteq JobsOf(current)
      BY <2>3 DEF Accounted, CycleAccount, InCycle
    <3>4. \A w \in Sending : s \notin wpair[w]
      <4> SUFFICES ASSUME NEW w \in Sending, s \in wpair[w] PROVE FALSE
        OBVIOUS
      <4>1. wjob[w] \in JobsOf(current) /\ s \in Unprocessed(wjob[w].file)
        BY <3>3, AtWorkInFlight DEF Sending, TypeOK, ModuleTypeOK
      <4> QED
        BY <2>1, <3>1, <4>1 DEF PieceOnce
    <3>5. \A j \in ToSplit : s \notin Unprocessed(j.file)
      <4> SUFFICES ASSUME NEW j \in ToSplit, s \in Unprocessed(j.file) PROVE FALSE
        OBVIOUS
      <4>1. Piece(j, s) \in InPlay
        BY <2>1, <3>1, <3>3, AtWorkInFlight
      <4> QED
        BY <4>1 DEF PieceOnce, Piece
    <3> QED
      BY <1>1, <3>2, <3>4, <3>5 DEF Settled
  <2>6. ASSUME NEW f \in File, NEW t \in Span[f], NameOf(f, t) # PairName(s), Stored(f, t)
        PROVE  Stored(f, t)'
    BY <2>2, <2>3, <2>6, UploadStores
  <2> DEFINE G == Paired
  <2>7. G \in SUBSET InPlay /\ InPlay' = InPlay \ G /\ G # {}
    BY <2>1
  <2>8. \A x \in G : x.out = s /\ Stored(x.job.file, s)'
    BY <2>4
  <2>9. object' = [object EXCEPT ![PairName(s)] = object'[PairName(s)]]
    BY <2>2, <2>3 DEF Upload, TypeOK, SharedTypeOK
  <2> HIDE DEF G
  <2> QED
    BY <2>2, <2>5, <2>6, <2>7, <2>8, <2>9
<1>3. CASE SweepNext
  <2>1. InPlay = Unpaired
    BY <1>3, SweptLeaves
  <2>2. PICK b \in unpaired :
          /\ cache[b[1].src] # None
          /\ Upload(PairName(b[1].out), <<cache[b[1].src]>>)
          /\ InPlay' = InPlay \ {b[1]}
    BY <1>3, SweptLeaves
  <2> DEFINE x == b[1]
             s == x.out
             c == <<cache[x.src]>>
  <2>3. x \in InPlay
    BY <2>1 DEF Unpaired
  <2>4. PICK g \in File : x.job.file = g
    BY <2>3, PieceNamed
  <2>5. /\ s \in Second /\ PairName(s) \in ObjectName /\ s \in Span[g]
        /\ NameOf(g, s) = PairName(s) /\ <<g, s>> \in Segment
        /\ x.src = SavePath(g, s)
    BY <2>3, <2>4, PieceNamed
  <2>6. cache[x.src] = <<g, s>>
    BY <2>2, <2>5 DEF PathsRight
  <2>7. \E i \in DOMAIN c : c[i] = <<g, s>>
    <3>1. 1 \in DOMAIN c /\ c[1] = <<g, s>>
      BY <2>6
    <3> QED
      BY <3>1
  <2> HIDE DEF c
  <2>8. Stored(g, s)'
    BY <2>2, <2>5, <2>7, UploadStores DEF c
  <2>9. Settled(s)'
    <3>1. InFlight = {}
      BY <1>3 DEF SweepNext, Accounted, InCycle, Dry
    <3>2. ToSplit = {} /\ Sending = {}
      BY <3>1, AtWorkInFlight
    <3>3. \A y \in InPlay' : y.out # s
      BY <2>1, <2>2 DEF Unpaired, TwoHalves
    <3> QED
      BY <1>1, <3>2, <3>3 DEF Settled
  <2>10. ASSUME NEW f \in File, NEW t \in Span[f], NameOf(f, t) # PairName(s), Stored(f, t)
         PROVE  Stored(f, t)'
    BY <2>2, <2>5, <2>10, UploadStores
  <2> DEFINE G == {x}
  <2>11. G \in SUBSET InPlay /\ InPlay' = InPlay \ G /\ G # {}
    BY <2>2, <2>3
  <2>12. \A y \in G : y.out = s /\ Stored(y.job.file, s)'
    BY <2>4, <2>8
  <2>13. object' = [object EXCEPT ![PairName(s)] = object'[PairName(s)]]
    BY <2>2, <2>5 DEF Upload, TypeOK, SharedTypeOK
  <2> HIDE DEF G, x
  <2> QED
    BY <2>5, <2>9, <2>10, <2>11, <2>12, <2>13
<1> QED
  BY <1>2, <1>3

-----------------------------------------------------------------------------
(* The manager loses nothing of it. *)

(* The steps of a cycle under way.                                          *)
CycleStep ==
    \/ PushNextJob \/ TakeJobDone \/ TakePairPut \/ LeaveDrain
    \/ MergePair \/ PublishPair \/ SweepNext

(* They unsettle no second.                                                 *)
LEMMA CycleSettles ==
    ASSUME TypeOK, TypeOK', Accounted, SweepLosesNothing, Pieces,
           ManagerNext, CycleStep, Undisturbed', UNCHANGED moduleVars, NEW s
    PROVE  Settled(s) => Settled(s)'
<1>1. Undisturbed /\ PieceOnce /\ TwoHalves
  BY CalmStep DEF Pieces
<1>2. ToSplit' \subseteq ToSplit /\ Sending' = Sending /\ wpair' = wpair
  <2>1. Sending' = Sending /\ wpair' = wpair
    BY DEF moduleVars, Sending
  <2>2. CASE PushNextJob
    BY <2>1, <2>2, PushMoves DEF moduleVars, ToSplit
  <2>3. CASE ~PushNextJob
    BY <2>1, <2>3 DEF CycleStep, TakeJobDone, TakePairPut, LeaveDrain, MergePair,
                      PublishPair, SweepNext, sharedVars, moduleVars, ToSplit, ToPush,
                      Queued
  <2> QED
    BY <2>1, <2>2, <2>3
<1>3. InPlay' \subseteq InPlay
  BY <1>1, PiecesStay, PiecesLeave
<1> QED
  BY <1>2, <1>3, SettledStays

(* They keep secure what is.                                                *)
LEMMA CycleKeepsSecure ==
    ASSUME Adjoining, TypeOK, TypeOK', Accounted, SweepLosesNothing, Pieces, PathsRight,
           ManagerNext, CycleStep, Undisturbed', UNCHANGED moduleVars,
           NEW j \in Job, NEW s \in Span[j.file], SecureAt(j, s)
    PROVE  SecureAt(j, s)'
<1>1. Undisturbed /\ PieceOnce /\ TwoHalves
  BY CalmStep DEF Pieces
<1>2. Settled(s) => Settled(s)'
  BY CycleSettles
<1>3. CASE ~PublishPair /\ ~SweepNext
  <2>1. InPlay' = InPlay
    BY <1>3, PiecesStay
  <2>3. object' = object
    BY <1>3 DEF CycleStep, PushNextJob, TakeJobDone, TakePairPut, LeaveDrain, MergePair,
                sharedVars
  <2>4. Stored(j.file, s) => Stored(j.file, s)'
    BY <2>3 DEF Stored
  <2> QED
    BY <1>2, <2>1, <2>4, SecureStays
<1>4. CASE PublishPair \/ SweepNext
  <2>1. PICK t \in Second, G \in SUBSET InPlay :
          /\ InPlay' = InPlay \ G /\ G # {}
          /\ \A x \in G : x.out = t /\ Stored(x.job.file, t)'
          /\ \A f \in File : \A u \in Span[f] :
                NameOf(f, u) # PairName(t) /\ Stored(f, u) => Stored(f, u)'
          /\ Settled(t)'
    BY <1>1, <1>4, PieceStored
  <2>2. PICK f \in File : f = j.file
    BY DEF Job
  <2>3. CASE s \in Processed(f)
    <3>1. NameOf(f, s) # PairName(t)
      BY <2>3 DEF Processed, NameOf, MidName, PairName
    <3>2. Stored(f, s)
      BY <2>2, <2>3 DEF SecureAt, Processed, Unprocessed
    <3>3. Stored(f, s)'
      BY <2>1, <2>2, <3>1, <3>2
    <3> QED
      BY <2>2, <2>3, <3>3 DEF SecureAt
  <2>4. CASE s \notin Processed(f) /\ s # t
    <3>1. NameOf(f, s) # PairName(t)
      BY <2>4 DEF NameOf, MidName, PairName
    <3>2. Stored(f, s) => Stored(f, s)'
      BY <2>1, <2>2, <3>1
    <3>3. Piece(j, s) \in InPlay => Piece(j, s) \in InPlay'
      BY <2>1, <2>4 DEF Piece
    <3> QED
      BY <1>2, <2>2, <3>2, <3>3 DEF SecureAt, Piece
  <2>5. CASE s \notin Processed(f) /\ s = t
    <3>1. ~Settled(s)
      BY <2>1, <2>5 DEF Settled
    <3>2. s \in Unprocessed(f) /\ Piece(j, s) \in InPlay
      BY <2>2, <2>5, <3>1 DEF SecureAt
    <3>3. CASE Piece(j, s) \in G
      <4>1. Stored(f, s)'
        BY <2>1, <2>2, <2>5, <3>3 DEF Piece
      <4> QED
        BY <2>1, <2>2, <2>5, <4>1 DEF SecureAt
    <3>4. CASE Piece(j, s) \notin G
      BY <2>1, <2>2, <3>2, <3>4 DEF SecureAt, Piece
    <3> QED
      BY <3>3, <3>4
  <2> QED
    BY <2>3, <2>4, <2>5
<1> QED
  BY <1>3, <1>4

(* Between cycles there is nothing to secure.                               *)
Resting == Idle /\ mpc \notin {"drain", "merge", "publish", "sweep"}

(* So that is secure that need be.                                          *)
LEMMA RestSecured == TypeOK /\ Resting => Secured
<1> SUFFICES ASSUME TypeOK, Resting PROVE Secured
  OBVIOUS
<1>1. DoneAt = {}
  BY DEF Resting, Idle, DoneAt
<1>2. Sending = {}
  BY SharedAssumption DEF Resting, Idle, Sending, TypeOK, ModuleTypeOK, AtWork
<1> QED
  BY <1>1, <1>2 DEF Resting, Secured, WorkerSecures, ReportSecure, CountSecure

(* The next state's, likewise.                                              *)
LEMMA RestSecuredNext == TypeOK' /\ Resting' => Secured'
BY RestSecured, PTL

(* What is counted is secure: a success taken off the mailbox was reported  *)
(* for a job that is.                                                       *)
LEMMA CycleSecured ==
    ASSUME Adjoining, TypeOK, TypeOK', Accounted, SweepLosesNothing, Pieces, PathsRight,
           Secured, ManagerNext, CycleStep, Undisturbed', UNCHANGED moduleVars
    PROVE  Secured'
<1>1. Undisturbed /\ WorkerSecures /\ ReportSecure /\ CountSecure
  BY CalmStep DEF Secured
<1>2. ASSUME NEW j \in Job, Secure(j) PROVE Secure(j)'
  BY <1>2, CycleKeepsSecure DEF Secure
<1>3. WorkerSecures'
  <2> SUFFICES ASSUME NEW w \in Sending', NEW s \in Span[wjob'[w].file],
                      s \notin wmid'[w] \cup wpair'[w]
               PROVE  SecureAt(wjob[w], s)'
    BY DEF WorkerSecures
  <2>1. w \in Sending /\ wjob' = wjob /\ wmid' = wmid /\ wpair' = wpair
    BY DEF Sending, moduleVars
  <2>2. PICK j \in Job : j = wjob[w] /\ j = wjob'[w]
    BY <2>1, AtWorkInFlight
  <2>3. SecureAt(j, s)
    BY <1>1, <2>1, <2>2 DEF WorkerSecures
  <2>4. SecureAt(j, s)'
    BY <2>2, <2>3, CycleKeepsSecure
  <2> QED
    BY <2>2, <2>4
<1>4. /\ \A i \in DoneAt' : \E k \in DoneAt : mailbox'[i] = mailbox[k]
      /\ InFlight' \subseteq InFlight
  <2>1. Held' = Held
    BY DEF moduleVars, Held
  <2>2. CASE TakeJobDone
    BY <1>1, <2>2, ReportTaken
  <2>3. CASE TakePairPut
    <3>1. mailbox \in Seq(Message) /\ mailbox # <<>> /\ mailbox' = Tail(mailbox)
      BY <2>3 DEF TakePairPut, Receive, TypeOK, SharedTypeOK
    <3>2. \A i \in DoneAt' : \E k \in DoneAt : mailbox'[i] = mailbox[k]
      BY <3>1, MailOut DEF DoneAt
    <3>3. Reported' \subseteq Reported
      BY <3>2 DEF Reported
    <3>4. ToPush' = ToPush /\ Queued' = Queued
      BY <2>3 DEF TakePairPut, ToPush, Queued
    <3> QED
      BY <2>1, <3>2, <3>3, <3>4 DEF InFlight
  <2>4. CASE ~TakeJobDone /\ ~TakePairPut
    <3>1. mailbox' = mailbox
      BY <2>4 DEF CycleStep, PushNextJob, LeaveDrain, MergePair, PublishPair, SweepNext,
                  sharedVars
    <3>2. DoneAt' = DoneAt /\ Reported' = Reported
      BY <3>1 DEF DoneAt, Reported
    <3>3. ToPush' \cup Queued' \subseteq ToPush \cup Queued
      <4>1. CASE PushNextJob
        BY <4>1, PushMoves
      <4>2. CASE ~PushNextJob
        BY <2>4, <4>2 DEF CycleStep, LeaveDrain, MergePair, PublishPair, SweepNext,
                          sharedVars, ToPush, Queued
      <4> QED
        BY <4>1, <4>2
    <3> QED
      BY <2>1, <3>1, <3>2, <3>3 DEF InFlight
  <2> QED
    BY <2>2, <2>3, <2>4
<1>5. ReportSecure'
  <2> SUFFICES ASSUME NEW i \in DoneAt', mailbox'[i].success
               PROVE  Secure(mailbox[i].job)'
    BY DEF ReportSecure
  <2>1. PICK k \in DoneAt : mailbox'[i] = mailbox[k]
    BY <1>4
  <2>2. PICK j \in Job : j = mailbox[k].job /\ j = mailbox'[i].job /\ Secure(j)
    BY <1>1, <2>1, JobsAreJobs DEF ReportSecure
  <2>3. Secure(j)'
    BY <1>2, <2>2
  <2> QED
    BY <2>2, <2>3
<1>6. CountSecure'
  <2>1. /\ mpc \in {"drain", "merge", "publish", "sweep"} /\ current' = current
        /\ current \in Request
    BY DEF CycleStep, PushNextJob, TakeJobDone, TakePairPut, Draining, LeaveDrain,
           MergePair, PublishPair, SweepNext, TypeOK, ManagerTypeOK, Handling
  <2>2. PICK G \in SUBSET (JobsOf(current) \ InFlight) :
          Cardinality(G) = progress.success /\ \A j \in G : Secure(j)
    BY <1>1, <2>1 DEF CountSecure
  <2>3. \A j \in JobsOf(current) : j \in Job
    BY <2>1, JobsAreJobs
  <2>4. \A j \in G : Secure(j)'
    BY <1>2, <2>2, <2>3
  <2>5. G \in SUBSET (JobsOf(current') \ InFlight')
    BY <1>4, <2>1
  <2>6. CASE progress' = progress
    BY <2>2, <2>4, <2>5, <2>6 DEF CountSecure
  <2>7. CASE TakeJobDone
    <3> DEFINE m == Head(mailbox)
    <3>1. /\ m.success \in BOOLEAN /\ progress' = MarkOneDone(progress, m.success)
          /\ 1 \in DoneAt /\ mailbox[1] = m
          /\ InFlight' = InFlight \ {m.job} /\ m.job \in InFlight
      BY <1>1, <2>7, ReportTaken
    <3>2. progress \in Progress /\ progress.remaining > 0
      BY <2>7 DEF TakeJobDone, Draining, IsDone, TypeOK, ManagerTypeOK, Progress
    <3>3. progress'.success = IF m.success THEN progress.success + 1 ELSE progress.success
      BY <3>1, <3>2, CountSum
    <3>4. m.job \in JobsOf(current)
      BY <1>1, <2>7, <3>1 DEF TakeJobDone, Draining, Accounted, CycleAccount, InCycle
    <3> HIDE DEF m
    <3>5. CASE ~m.success
      BY <2>2, <2>4, <2>5, <3>3, <3>5 DEF CountSecure
    <3>6. CASE m.success
      <4>1. PICK j \in Job : j = m.job /\ Secure(j)
        BY <1>1, <2>3, <3>1, <3>4, <3>6 DEF ReportSecure
      <4> DEFINE H == G \cup {j}
      <4>2. IsFiniteSet(G) /\ j \notin G
        <5>1. IsFiniteSet(JobsOf(current))
          BY <2>1, JobsToPush DEF JobsOf
        <5> QED
          BY <2>2, <3>1, <4>1, <5>1, FS_Subset
      <4>3. Cardinality(H) = progress.success + 1
        BY <2>2, <4>2, FS_AddElement
      <4>4. H \in SUBSET (JobsOf(current') \ InFlight')
        BY <2>1, <2>5, <3>1, <3>4, <4>1
      <4>5. \A k \in H : Secure(k)'
        BY <1>2, <2>4, <4>1
      <4> HIDE DEF H
      <4> QED
        BY <3>3, <3>6, <4>3, <4>4, <4>5 DEF CountSecure
    <3> QED
      BY <3>1, <3>5, <3>6
  <2> QED
    BY <2>6, <2>7 DEF CycleStep, PushNextJob, TakePairPut, LeaveDrain, MergePair,
                      PublishPair, SweepNext
<1> QED
  BY <1>3, <1>5, <1>6 DEF Secured

(* No step of the manager makes what is counted insecure.                   *)
LEMMA ManagerSecured ==
    ASSUME Adjoining, TypeOK, TypeOK', Accounted, Accounted', SweepLosesNothing, Pieces,
           PathsRight, Secured, ManagerNext, UNCHANGED moduleVars
    PROVE  Secured'
<1> SUFFICES ASSUME Undisturbed' PROVE Secured'
  BY DEF Secured
<1>1. Undisturbed
  BY CalmStep
<1>2. CASE CycleStep
  BY <1>2, CycleSecured
<1>3. CASE PollAccepts \/ PollLoses \/ ManagerExits \/ CollectRaises \/ Notify
  <2>1. AtRest'
    BY <1>1, <1>3, StaysAtRest
  <2>2. mpc' \in {"poll", "collect", "stopped", "crashed"}
    BY <1>3 DEF PollAccepts, PollLoses, ManagerExits, CollectRaises, Notify, Abort,
                AnswerWith
  <2> QED
    BY <2>1, <2>2, RestSecuredNext DEF Resting, AtRest
<1>4. CASE CollectFiles
  <2>1. Idle
    BY <1>1, <1>4, DryIsIdle DEF CollectFiles, Accounted, InCycle
  <2>2. DoneAt' = {}
    BY <1>4, <2>1 DEF CollectFiles, sharedVars, Idle, DoneAt
  <2>3. Sending' = {}
    BY <2>1, SharedAssumption
       DEF Idle, Sending, TypeOK, ModuleTypeOK, AtWork, moduleVars
  <2>4. progress'.success = 0
    BY <1>4 DEF CollectFiles, BeginCycle
  <2>5. CountSecure'
    BY <2>4, FS_EmptySet DEF CountSecure
  <2> QED
    BY <2>2, <2>3, <2>5 DEF Secured, WorkerSecures, ReportSecure
<1>5. CASE PollTimesOut \/ \E r \in Request : Submit(r)
  <2>1. UNCHANGED <<sharedVars, moduleVars, mpc, current, toPush, buckets, progress,
                    pair, unpaired>>
    BY <1>5 DEF PollTimesOut, Submit, managerVars, cycleVars
  <2>2. /\ DoneAt' = DoneAt /\ Sending' = Sending /\ ToSplit' = ToSplit
        /\ InPlay' = InPlay /\ InFlight' = InFlight
    BY <2>1 DEF sharedVars, moduleVars, DoneAt, Sending, ToSplit, ToPush, Queued, InPlay,
                OnTheWay, PairAt, Taken, Waiting, Paired, Unpaired, InFlight, Held, Reported
  <2>3. ASSUME NEW j, NEW s PROVE SecureAt(j, s)' <=> SecureAt(j, s)
    BY <2>1, <2>2 DEF SecureAt, Stored, Settled, sharedVars, moduleVars, Piece
  <2>4. ASSUME NEW j PROVE Secure(j)' <=> Secure(j)
    BY <2>3 DEF Secure
  <2>5. WorkerSecures /\ ReportSecure /\ CountSecure
    BY <1>1 DEF Secured
  <2> QED
    BY <2>1, <2>2, <2>3, <2>4, <2>5
       DEF Secured, WorkerSecures, ReportSecure, CountSecure, sharedVars, moduleVars
<1> QED
  BY <1>2, <1>3, <1>4, <1>5, CalmStep DEF ManagerStep, CycleStep

-----------------------------------------------------------------------------
(* Where files adjoin, what a worker is done with, what it reports and what *)
(* the manager counts is in storage or on its way there, as long as nothing *)
(* has cut a cycle short.                                                   *)
THEOREM SecureCorrect == ASSUME Adjoining PROVE Spec => []Secured
<1>0. OwnPaths
  BY DEF Adjoining
<1>1. TypeOK /\ Init => Secured
  BY RestSecured DEF Init, SharedInit, ModuleInit, ManagerInit, Resting, Idle
<1>2. /\ TypeOK /\ TypeOK' /\ Accounted /\ Accounted' /\ SweepLosesNothing /\ Pieces
      /\ PathsRight /\ Secured /\ [Next]_vars
      => Secured'
  <2> SUFFICES ASSUME TypeOK, TypeOK', Accounted, Accounted', SweepLosesNothing, Pieces,
                      PathsRight, Secured, [Next]_vars
               PROVE  Secured'
    OBVIOUS
  <2>1. CASE ManagerNext /\ UNCHANGED moduleVars
    BY <2>1, ManagerSecured
  <2>2. CASE ModuleNext /\ UNCHANGED managerVars
    BY <2>2, WorkerSecured DEF ModuleNext
  <2>3. CASE UNCHANGED vars
    <3>1. /\ DoneAt' = DoneAt /\ Sending' = Sending /\ ToSplit' = ToSplit
          /\ InPlay' = InPlay /\ InFlight' = InFlight
      BY <2>3 DEF vars, managerVars, sharedVars, moduleVars, DoneAt, Sending, ToSplit,
                  ToPush, Queued, InPlay, OnTheWay, PairAt, Taken, Waiting, Paired,
                  Unpaired, InFlight, Held, Reported
    <3>2. ASSUME NEW j, NEW s PROVE SecureAt(j, s)' <=> SecureAt(j, s)
      BY <2>3, <3>1 DEF SecureAt, Stored, Settled, vars, sharedVars, moduleVars, Piece
    <3>3. ASSUME NEW j PROVE Secure(j)' <=> Secure(j)
      BY <3>2 DEF Secure
    <3> QED
      BY <2>3, <3>1, <3>2, <3>3
         DEF Secured, WorkerSecures, ReportSecure, CountSecure, Undisturbed, vars,
             sharedVars, moduleVars, managerVars
  <2>4. CASE Restart
    BY <2>4, RestSecuredNext
       DEF Restart, ManagerStartsAgain, ModuleStartsAgain, LoseCurrent, Idle, Resting
  <2> QED
    BY <2>1, <2>2, <2>3, <2>4 DEF Next
<1> QED
  BY <1>0, <1>1, <1>2, TypeCorrect, AccountCorrect, SweepComplete, PiecesCorrect,
     PathsCorrect, PTL DEF Spec

-----------------------------------------------------------------------------
(* When the manager answers, what it counted is in storage: nothing is in   *)
(* play any more.                                                           *)
LEMMA CountIsStored ==
    ASSUME TypeOK, TypeOK', Accounted, Secured, Undisturbed, Notify, UNCHANGED moduleVars
    PROVE  \E G \in SUBSET JobsOf(current) :
              Cardinality(G) = progress.success /\ \A j \in G : Complete(j.file)'
<1>1. InPlay = {}
  BY StaysAtRest, NothingInPlay DEF TypeOK, NoPiece
<1>2. PICK G \in SUBSET (JobsOf(current) \ InFlight) :
        Cardinality(G) = progress.success /\ \A j \in G : Secure(j)
  BY DEF Notify, Secured, CountSecure
<1>3. \A j \in G : \A s \in Span[j.file] : Stored(j.file, s)
  BY <1>1, <1>2 DEF Secure, SecureAt
<1>4. object' = object
  BY DEF Notify, sharedVars
<1>5. \A j \in G : Complete(j.file)'
  BY <1>3, <1>4 DEF Complete, Stored
<1> QED
  BY <1>2, <1>5

(* As many files of a request are wholly in storage when it is answered as  *)
(* successes were counted, where files adjoin and nothing has cut a cycle   *)
(* short (manager.py, _handle_request).                                     *)
THEOREM CountStored == Spec => CountedMeansStored
<1> DEFINE Step == \A r \in Request :
                      /\ Answers(r, "success") \/ Answers(r, "partial")
                      /\ ~Interrupted /\ Adjoining
                      => Cardinality({j \in JobsOf(r) : Complete(j.file)'})
                            >= progress.success
<1>1. TypeOK /\ TypeOK' /\ Accounted /\ Secured /\ [Next]_vars => [Step]_vars
  <2> SUFFICES ASSUME TypeOK, TypeOK', Accounted, Secured, [Next]_vars, NEW r \in Request,
                      Answers(r, "success") \/ Answers(r, "partial"), ~Interrupted
               PROVE  Cardinality({j \in JobsOf(r) : Complete(j.file)'}) >= progress.success
    OBVIOUS
  <2>1. Notify /\ r = current /\ UNCHANGED moduleVars
    BY AnswerIsNotified
  <2>2. Undisturbed
    BY <2>1 DEF Notify, Undisturbed, Interrupted
  <2> DEFINE F == {j \in JobsOf(r) : Complete(j.file)'}
  <2>3. PICK G \in SUBSET JobsOf(r) :
          Cardinality(G) = progress.success /\ \A j \in G : Complete(j.file)'
    BY <2>1, <2>2, CountIsStored
  <2>4. IsFiniteSet(F)
    BY JobsToPush, FS_Subset DEF JobsOf
  <2>5. G \in SUBSET F
    BY <2>3
  <2>6. Cardinality(G) <= Cardinality(F) /\ Cardinality(G) \in Nat /\ Cardinality(F) \in Nat
    BY <2>4, <2>5, FS_Subset, FS_CardinalityType
  <2> QED
    BY <2>3, <2>6
<1>2. CASE Adjoining
  BY <1>1, <1>2, TypeCorrect, AccountCorrect, SecureCorrect, PTL
     DEF Spec, CountedMeansStored
<1>3. CASE ~Adjoining
  <2>1. [Next]_vars => [Step]_vars
    BY <1>3
  <2> QED
    BY <2>1, PTL DEF Spec, CountedMeansStored
<1> QED
  BY <1>2, <1>3

-----------------------------------------------------------------------------
(* Only what was asked for. *)

(* A request once taken up stays so; the one being handled was.             *)
LEMMA AskedGrows ==
    ASSUME TypeOK, InLine, LineStep
    PROVE  AskedFor \subseteq AskedFor' /\ (current \in Request => current \in AskedFor)
<1>1. status \in [Request -> Status] /\ inbox \in Seq(Request)
  BY DEF TypeOK, ManagerTypeOK
<1>2. current \in Request => status[current] = "running"
  BY DEF InLine
<1>3. ASSUME Quiet \/ StopAsked PROVE AskedFor \subseteq AskedFor'
  BY <1>3 DEF Quiet, StopAsked, AskedFor
<1>4. ASSUME NEW r \in Request, Submit(r) PROVE AskedFor \subseteq AskedFor'
  BY <1>1, <1>4 DEF Submit, AskedFor
<1>5. ASSUME NEW to \in {"running", "dropped", "lost"}, TakenOff(to)
      PROVE  AskedFor \subseteq AskedFor'
  <2>1. status[Head(inbox)] = "queued"
    BY <1>1, <1>5, TailElements DEF TakenOff, InLine
  <2> QED
    BY <1>1, <1>5, <2>1 DEF TakenOff, AskedFor
<1>6. ASSUME NEW a \in Answer, Answered(a) PROVE AskedFor \subseteq AskedFor'
  BY <1>1, <1>6 DEF Answered, AnswerWith, Answer, AskedFor
<1>7. ASSUME WentDown PROVE AskedFor \subseteq AskedFor'
  BY <1>1, <1>7 DEF WentDown, LoseCurrent, AskedFor
<1>8. AskedFor \subseteq AskedFor'
  BY <1>3, <1>4, <1>5, <1>6, <1>7 DEF LineStep
<1>9. current \in Request => current \in AskedFor
  BY <1>2 DEF AskedFor
<1> QED
  BY <1>8, <1>9

(* A job asked for is one of segments asked for.                            *)
LEMMA JobIsAsked ==
    ASSUME NEW j \in JobsAsked, j \in Job, NEW s \in Span[j.file]
    PROVE  <<j.file, s>> \in SegmentsAsked
<1>1. PICK r \in AskedFor : j \in JobsOf(r)
  BY DEF JobsAsked
<1>2. \E i \in DOMAIN Folder[r] : Folder[r][i] = j.file
  BY <1>1 DEF JobsOf
<1>3. <<j.file, s>> \in Segment
  BY SegmentPlaces DEF Job
<1>4. <<j.file, s>> \in SegmentsOf(r)
  BY <1>2, <1>3 DEF SegmentsOf
<1> QED
  BY <1>4 DEF SegmentsAsked

(* The jobs the workers may still take or have in hand are those they had.  *)
LEMMA WorkerTakesAsked ==
    ASSUME TypeOK, NEW w \in Worker, UNCHANGED managerVars,
           WorkerStep(w) \/ WorkerCrashes(w) \/ StopWorker(w)
    PROVE  ToPush' = ToPush /\ Queued' \cup Held' \subseteq Queued \cup Held
<1>1. ToPush' = ToPush
  BY DEF ToPush, managerVars
<1>2. CASE Takes(w)
  <2>1. jobQueue \in Seq(Job) /\ jobQueue # <<>> /\ jobQueue' = Tail(jobQueue)
    BY <1>2 DEF Takes, TypeOK, SharedTypeOK
  <2>2. Queued = Queued' \cup {Head(jobQueue)}
    BY <2>1, PopOnce, QueuedIsRange, QueuedIsRangeNext
  <2>3. Held' \subseteq Held \cup {Head(jobQueue)}
    BY <1>2 DEF Takes, Held, TypeOK, ModuleTypeOK
  <2> QED
    BY <1>1, <2>2, <2>3
<1>3. CASE \E ok \in BOOLEAN : Reports(w, ok)
  <2>1. Held' \subseteq Held /\ Queued' = Queued
    BY <1>3 DEF Reports, Held, Queued, TypeOK, ModuleTypeOK
  <2> QED
    BY <1>1, <2>1
<1>4. CASE UNCHANGED <<jobQueue, wjob>>
  BY <1>1, <1>4 DEF Queued, Held
<1> QED
  BY <1>2, <1>3, <1>4, StepOfWorker DEF Sends

(* The manager brings in the jobs of the request it handles, and no others. *)
LEMMA ManagerTakesAsked ==
    ASSUME TypeOK, OnlyAsked, ManagerNext, UNCHANGED moduleVars
    PROVE  /\ ToPush' \subseteq ToPush \cup
                 (IF current \in Request THEN JobsOf(current) ELSE {})
           /\ Queued' \cup Held' \subseteq ToPush \cup Queued \cup Held
           /\ toPush' # <<>> => mpc' = "drain"
<1>1. Held' = Held /\ (toPush # <<>> => mpc = "drain")
  BY DEF moduleVars, Held, OnlyAsked
<1>2. toPush' = <<>> => ToPush' = {}
  BY DEF ToPush
<1>3. CASE PushNextJob
  <2>1. ToPush' \cup Queued' \subseteq ToPush \cup Queued
    BY <1>3, PushMoves
  <2>2. ToPush' \subseteq ToPush /\ mpc' = "drain"
    <3>1. toPush \in Seq(File) /\ toPush # <<>> /\ toPush' = Tail(toPush)
          /\ current' = current /\ mpc' = "drain"
      BY <1>3 DEF PushNextJob, TypeOK, ManagerTypeOK
    <3>2. \A i \in DOMAIN toPush' : i + 1 \in DOMAIN toPush /\ toPush'[i] = toPush[i + 1]
      BY <3>1, TailElements
    <3> QED
      BY <3>1, <3>2 DEF ToPush
  <2> QED
    BY <1>1, <2>1, <2>2
<1>4. CASE CollectFiles
  <2>1. /\ toPush' = Folder[current] /\ current' = current /\ mpc' = "drain"
        /\ jobQueue' = jobQueue /\ current \in Request
    BY <1>4 DEF CollectFiles, TypeOK, ManagerTypeOK, Handling, sharedVars
  <2>2. ToPush' = JobsOf(current) /\ Queued' = Queued
    BY <2>1 DEF ToPush, JobsOf, Queued
  <2> QED
    BY <1>1, <2>1, <2>2
<1>5. CASE ~PushNextJob /\ ~CollectFiles
  <2>1. Queued' = Queued
    BY <1>5 DEF ManagerNext, ManagerStep, Submit, PollAccepts, PollLoses, PollTimesOut,
                ManagerExits, CollectRaises, TakeJobDone, TakePairPut, LeaveDrain,
                MergePair, PublishPair, MergeRaises, SweepNext, SweepRaises, Notify,
                StopManager, RedisFails, ManagerCrashes, Abort, Unwind, sharedVars, Queued
  <2>2. CASE toPush = <<>>
    <3>1. toPush' = <<>>
      BY <1>5, <2>2
         DEF ManagerNext, ManagerStep, Submit, PollAccepts, PollLoses, PollTimesOut,
             ManagerExits, CollectRaises, TakeJobDone, TakePairPut, LeaveDrain,
             MergePair, PublishPair, MergeRaises, SweepNext, SweepRaises, Notify,
             StopManager, RedisFails, ManagerCrashes, LoseCurrent, Abort, Unwind,
             managerVars
    <3> QED
      BY <1>1, <1>2, <2>1, <3>1
  <2>3. CASE toPush # <<>>
    <3>1. mpc = "drain"
      BY <1>1, <2>3
    <3>2. ManagerCrashes \/ UNCHANGED <<toPush, current, mpc>>
      BY <1>5, <2>3, <3>1
         DEF ManagerNext, ManagerStep, Submit, PollAccepts, PollLoses, PollTimesOut,
             ManagerExits, CollectRaises, Draining, TakeJobDone, TakePairPut, LeaveDrain,
             MergePair, PublishPair, MergeRaises, SweepNext, SweepRaises, Notify,
             StopManager, RedisFails, managerVars
    <3>3. CASE ManagerCrashes
      BY <1>1, <1>2, <2>1, <3>3 DEF ManagerCrashes, LoseCurrent
    <3>4. CASE UNCHANGED <<toPush, current, mpc>>
      BY <1>1, <2>1, <3>1, <3>4 DEF ToPush
    <3> QED
      BY <3>2, <3>3, <3>4
  <2> QED
    BY <2>2, <2>3
<1> QED
  BY <1>3, <1>4, <1>5

(* What was asked for stays asked for, and nothing else is taken up.        *)
LEMMA AskedStays ==
    ASSUME TypeOK, InLine, [Next]_vars
    PROVE  /\ JobsAsked \subseteq JobsAsked' /\ SegmentsAsked \subseteq SegmentsAsked'
           /\ current \in Request => JobsOf(current) \subseteq JobsAsked'
<1>1. AskedFor \subseteq AskedFor' /\ (current \in Request => current \in AskedFor)
  BY StepOfLine, AskedGrows
<1>2. JobsAsked \subseteq JobsAsked' /\ SegmentsAsked \subseteq SegmentsAsked'
  BY <1>1 DEF JobsAsked, SegmentsAsked
<1>3. current \in Request => JobsOf(current) \subseteq JobsAsked
  BY <1>1 DEF JobsAsked
<1> QED
  BY <1>2, <1>3

(* Jobs are taken from requests taken up.                                   *)
LEMMA JobsStayAsked ==
    ASSUME TypeOK, InLine, OnlyAsked, [Next]_vars
    PROVE  /\ ToPush' \cup Queued' \cup Held' \subseteq JobsAsked'
           /\ toPush' # <<>> => mpc' = "drain"
<1>1. /\ ToPush \cup Queued \cup Held \subseteq JobsAsked'
      /\ current \in Request => JobsOf(current) \subseteq JobsAsked'
  BY AskedStays DEF OnlyAsked
<1>2. CASE Restart
  <2>1. toPush' = <<>> /\ jobQueue' = <<>> /\ wjob' = [w \in Worker |-> None]
    BY <1>2 DEF Restart, ManagerStartsAgain, LoseCurrent, ModuleStartsAgain
  <2>2. ToPush' = {} /\ Queued' = {} /\ Held' = {}
    BY <2>1 DEF ToPush, Queued, Held
  <2> QED
    BY <2>1, <2>2
<1>3. CASE ManagerNext /\ UNCHANGED moduleVars
  BY <1>1, <1>3, ManagerTakesAsked
<1>4. CASE ModuleNext /\ UNCHANGED managerVars
  <2>1. PICK w \in Worker : WorkerStep(w) \/ WorkerCrashes(w) \/ StopWorker(w)
    BY <1>4 DEF ModuleNext
  <2>2. ToPush' = ToPush /\ Queued' \cup Held' \subseteq Queued \cup Held
    BY <1>4, <2>1, WorkerTakesAsked
  <2>3. toPush' = toPush /\ mpc' = mpc
    BY <1>4 DEF managerVars
  <2> QED
    BY <1>1, <2>2, <2>3 DEF OnlyAsked
<1>5. CASE UNCHANGED vars
  <2>1. ToPush' = ToPush /\ Queued' = Queued /\ Held' = Held /\ toPush' = toPush /\ mpc' = mpc
    BY <1>5 DEF vars, sharedVars, managerVars, moduleVars, ToPush, Queued, Held
  <2> QED
    BY <1>1, <2>1 DEF OnlyAsked
<1> QED
  BY <1>2, <1>3, <1>4, <1>5 DEF Next

(* A split writes segments of the file its job is for.                      *)
LEMMA CacheStaysAsked ==
    ASSUME TypeOK, InLine, OnlyAsked, [Next]_vars, NEW p \in CachePath
    PROVE  cache'[p] \in SegmentsAsked' \cup {None}
<1>1. SegmentsAsked \subseteq SegmentsAsked' /\ cache[p] \in SegmentsAsked' \cup {None}
  BY AskedStays DEF OnlyAsked
<1>2. CASE UNCHANGED cache
  BY <1>1, <1>2
<1>3. CASE \E P : Remove(P)
  BY <1>1, <1>3 DEF Remove
<1>4. ASSUME NEW j \in Job, j \in Held, NEW S \in SUBSET Span[j.file],
             cache' = Written(j.file, S)
      PROVE  cache'[p] \in SegmentsAsked' \cup {None}
  <2>1. CASE \E s \in S : p = SavePath(j.file, s)
    <3>1. PICK s \in S : p = SavePath(j.file, s)
      BY <2>1
    <3>2. cache'[p] = <<j.file, s>>
      BY <1>4, <3>1 DEF Written, SavePath
    <3>3. j \in JobsAsked
      BY <1>4 DEF OnlyAsked
    <3>4. <<j.file, s>> \in SegmentsAsked
      BY <3>1, <3>3, JobIsAsked
    <3> QED
      BY <1>1, <3>2, <3>4
  <2>2. CASE ~\E s \in S : p = SavePath(j.file, s)
    BY <1>1, <1>4, <2>2 DEF Written
  <2> QED
    BY <2>1, <2>2
<1> QED
  BY <1>2, <1>3, <1>4, StepOfCache

(* An upload stores what the disk holds or what was merged.                 *)
LEMMA ObjectStaysAsked ==
    ASSUME TypeOK, InLine, OnlyAsked, [Next]_vars, NEW n \in ObjectName
    PROVE  Range(object'[n]) \subseteq SegmentsAsked'
<1>1. /\ SegmentsAsked \subseteq SegmentsAsked' /\ Range(object[n]) \subseteq SegmentsAsked
      /\ Range(merged) \subseteq SegmentsAsked
  BY AskedStays DEF OnlyAsked
<1>2. ASSUME NEW m, NEW content, Upload(m, content), Range(content) \subseteq SegmentsAsked
      PROVE  Range(object'[n]) \subseteq SegmentsAsked'
  <2>1. object'[n] = content \/ object'[n] = object[n]
    BY <1>2 DEF Upload, TypeOK, SharedTypeOK
  <2> QED
    BY <1>1, <1>2, <2>1
<1>3. CASE PublishPair
  BY <1>1, <1>2, <1>3 DEF PublishPair
<1>4. ASSUME NEW p \in CachePath, cache[p] # None
      PROVE  Range(<<cache[p]>>) \subseteq SegmentsAsked
  <2>1. cache[p] \in SegmentsAsked
    BY <1>4 DEF OnlyAsked
  <2> QED
    BY <2>1 DEF Range
<1> QED
  BY <1>1, <1>2, <1>3, <1>4, StepOfStore

(* A merge is of what the disk holds.                                       *)
LEMMA MergedStaysAsked ==
    ASSUME TypeOK, InLine, OnlyAsked, [Next]_vars
    PROVE  Range(merged') \subseteq SegmentsAsked'
<1>1. SegmentsAsked \subseteq SegmentsAsked' /\ Range(merged) \subseteq SegmentsAsked
  BY AskedStays DEF OnlyAsked
<1>2. CASE MergePair
  <2>1. /\ merged' = [i \in DOMAIN pair |-> cache[pair[i].src]]
        /\ \A i \in DOMAIN pair : cache[pair[i].src] # None
    BY <1>2 DEF MergePair, Sources
  <2>2. \A i \in DOMAIN pair : pair[i].src \in CachePath
    <3>1. \A i \in DOMAIN pair : pair[i] \in Item
      BY DEF TypeOK, ManagerTypeOK
    <3> QED
      BY <3>1 DEF Item
  <2>3. \A i \in DOMAIN pair : cache[pair[i].src] \in SegmentsAsked
    BY <2>1, <2>2 DEF OnlyAsked
  <2> QED
    BY <1>1, <2>1, <2>3 DEF Range
<1>3. CASE merged' = merged
  BY <1>1, <1>3
<1>4. CASE merged' = <<>>
  BY <1>4 DEF Range
<1>5. CASE ~MergePair
  <2>1. merged' = merged \/ merged' = <<>>
    BY <1>5 DEF Next, vars, managerVars, ManagerNext, ManagerStep, Submit, PollAccepts,
                PollLoses, PollTimesOut, ManagerExits, CollectFiles, CollectRaises,
                PushNextJob, TakeJobDone, TakePairPut, LeaveDrain, PublishPair,
                MergeRaises, SweepNext, SweepRaises, Notify, StopManager, RedisFails,
                ManagerCrashes, Restart, ManagerStartsAgain, LoseCurrent, Abort, Unwind,
                cycleVars
  <2> QED
    BY <1>3, <1>4, <2>1
<1> QED
  BY <1>2, <1>5

(* Nothing is processed, kept on the disk, merged or stored that no request *)
(* taken up asked for, whatever fails and however often the daemon is       *)
(* started again.                                                           *)
THEOREM OnlyAskedStored == Spec => []OnlyAsked
<1>1. Init => OnlyAsked
  <2> SUFFICES ASSUME Init PROVE OnlyAsked
    OBVIOUS
  <2>1. /\ toPush = <<>> /\ jobQueue = <<>> /\ wjob = [w \in Worker |-> None] /\ merged = <<>>
        /\ cache = [p \in CachePath |-> None] /\ object = [n \in ObjectName |-> <<>>]
    BY DEF Init, SharedInit, ModuleInit, ManagerInit
  <2>2. ToPush = {} /\ Queued = {} /\ Held = {}
    BY <2>1 DEF ToPush, Queued, Held
  <2>3. Range(merged) = {} /\ \A n \in ObjectName : Range(object[n]) = {}
    BY <2>1 DEF Range
  <2> QED
    BY <2>1, <2>2, <2>3 DEF OnlyAsked
<1>2. TypeOK /\ InLine /\ OnlyAsked /\ [Next]_vars => OnlyAsked'
  <2> SUFFICES ASSUME TypeOK, InLine, OnlyAsked, [Next]_vars PROVE OnlyAsked'
    OBVIOUS
  <2>1. /\ ToPush' \cup Queued' \cup Held' \subseteq JobsAsked'
        /\ toPush' # <<>> => mpc' = "drain"
    BY JobsStayAsked
  <2>2. \A p \in CachePath : cache'[p] \in SegmentsAsked' \cup {None}
    BY CacheStaysAsked
  <2>3. \A n \in ObjectName : Range(object'[n]) \subseteq SegmentsAsked'
    BY ObjectStaysAsked
  <2>4. Range(merged') \subseteq SegmentsAsked'
    BY MergedStaysAsked
  <2> QED
    BY <2>1, <2>2, <2>3, <2>4 DEF OnlyAsked
<1> QED
  BY <1>1, <1>2, TypeCorrect, RequestsInLine, PTL DEF Spec

-----------------------------------------------------------------------------
(* The daemon is the service. *)

(* What is stored, ...                                                      *)
InStorage == {p \in Segment : Stored(p[1], p[2])}

(* ... was asked for.                                                       *)
LEMMA StoredIsAsked == OnlyAsked => InStorage \subseteq SegmentsAsked
<1> SUFFICES ASSUME OnlyAsked, NEW f \in File, NEW s \in Span[f], Stored(f, s)
             PROVE  <<f, s>> \in SegmentsAsked
  BY DEF InStorage, Segment
<1>1. NameOf(f, s) \in ObjectName
  BY SegmentPlaces DEF NameOf, MidName, PairName, ObjectName
<1>2. <<f, s>> \in Range(object[NameOf(f, s)])
  BY DEF Stored, Range
<1> QED
  BY <1>1, <1>2 DEF OnlyAsked

(* And so after a step.                                                     *)
LEMMA StoredIsAskedNext == OnlyAsked' => (InStorage \subseteq SegmentsAsked)'
BY StoredIsAsked, PTL

(* An upload is nothing to the line.                                        *)
LEMMA UploadIsQuiet ==
    ASSUME [Next]_vars, object' # object
    PROVE  Quiet
<1>1. CASE ManagerNext
  BY <1>1 DEF ManagerNext, ManagerStep, Submit, PollAccepts, PollLoses, PollTimesOut,
              ManagerExits, CollectFiles, CollectRaises, PushNextJob, TakeJobDone,
              TakePairPut, LeaveDrain, MergePair, PublishPair, MergeRaises, SweepNext,
              SweepRaises, Notify, StopManager, RedisFails, ManagerCrashes, Abort,
              Unwind, sharedVars, managerVars, control, Quiet
<1>2. CASE UNCHANGED managerVars
  BY <1>2 DEF managerVars, Quiet
<1> QED
  BY <1>1, <1>2 DEF Next, vars, sharedVars, Restart

(* An upload stores what was asked for.                                     *)
LEMMA UploadIsStore ==
    ASSUME OnlyAsked', Quiet
    PROVE  Service!Store
<1>1. InStorage' \subseteq SegmentsAsked'
  BY StoredIsAskedNext
<1>2. SegmentsAsked' = SegmentsAsked
  BY DEF Quiet, SegmentsAsked, AskedFor
<1>3. SegmentsAsked = Service!Asked
  BY DEF SegmentsAsked, AskedFor, Service!Asked
<1> QED
  BY <1>1, <1>2, <1>3 DEF Quiet, InStorage, Service!Store

(* A success is wholly in storage unless the daemon was disturbed.          *)
LEMMA SuccessIsStored ==
    ASSUME TypeOK, TypeOK', InLine, Accounted, Secured, [Next]_vars,
           Answered("success"), ~disturbed
    PROVE  object' = object /\ SegmentsOf(current) \subseteq InStorage
<1>1. Answers(current, "success") /\ current \in Request
  BY DEF Answered, AnswerWith, InLine, Answers, TypeOK, ManagerTypeOK
<1>2. Notify /\ UNCHANGED moduleVars /\ progress.failure = 0
  BY <1>1, AnswerIsNotified
<1>3. Undisturbed /\ mpc = "sweep" /\ object' = object
  BY <1>2 DEF Notify, Undisturbed, sharedVars
<1>4. PICK G \in SUBSET JobsOf(current) :
        Cardinality(G) = progress.success /\ \A j \in G : Complete(j.file)'
  BY <1>2, <1>3, CountIsStored
<1>5. progress.success = Len(Folder[current])
  BY <1>2, <1>3 DEF Accounted, Counted, TypeOK, ManagerTypeOK, Progress
<1>6. IsFiniteSet(JobsOf(current)) /\ Cardinality(JobsOf(current)) = Len(Folder[current])
  BY <1>1, JobsToPush DEF JobsOf
<1>7. G = JobsOf(current)
  BY <1>4, <1>5, <1>6, FS_Subset
<1>8. \A i \in DOMAIN Folder[current] : Complete(Folder[current][i])
  <2>1. \A i \in DOMAIN Folder[current] :
          \E j \in JobsOf(current) : j.file = Folder[current][i]
    <3> SUFFICES ASSUME NEW i \in DOMAIN Folder[current]
                 PROVE  \E j \in JobsOf(current) : j.file = Folder[current][i]
      OBVIOUS
    <3>1. [req |-> current, file |-> Folder[current][i]] \in JobsOf(current)
      BY DEF JobsOf
    <3> QED
      BY <3>1
  <2>2. \A j \in JobsOf(current) : Complete(j.file)
    <3>1. \A j \in G : Complete(j.file)
      BY <1>3, <1>4 DEF Complete, Stored
    <3> QED
      BY <1>7, <3>1
  <2> QED
    BY <2>1, <2>2 DEF Complete
<1> QED
  BY <1>3, <1>8 DEF SegmentsOf, InStorage, Complete, Segment

(* Where nothing is uploaded, a step of the daemon is one of the line, and  *)
(* a success is answered when everything is in storage.                     *)
LEMMA ServiceSteps ==
    ASSUME TypeOK, InLine, LineStep, object' = object,
           Answered("success") /\ ~disturbed => SegmentsOf(current) \subseteq InStorage
    PROVE  [Service!Next]_(Service!vars)
<1> USE SharedAssumption
<1> USE DEF Service!vars, Service!Becomes
<1>0. /\ inbox \in Seq(Request) /\ status \in [Request -> Status]
      /\ current \in Request \cup {None}
  BY DEF TypeOK, ManagerTypeOK
<1>00. {p \in Segment : Stored(p[1], p[2])}' = {p \in Segment : Stored(p[1], p[2])}
  BY DEF Stored
<1>1. CASE Quiet
  BY <1>00, <1>1 DEF Quiet
<1>2. ASSUME NEW r \in Request, Submit(r) PROVE Service!Next
  <2>1. Service!Ask(r)
    BY <1>00, <1>2 DEF Submit, control, Service!Ask
  <2> QED
    BY <2>1 DEF Service!Next
<1>3. ASSUME NEW to \in {"running", "dropped", "lost"}, TakenOff(to)
      PROVE  Service!Next
  <2>1. \A r \in Request : status[r] # "running"
    BY <1>3, PollIdle DEF TakenOff, InLine
  <2>2. status[Head(inbox)] = "queued"
    BY <1>0, <1>3, TailElements DEF TakenOff, InLine
  <2>3. Service!Take(to)
    BY <1>00, <1>3, <2>1, <2>2 DEF TakenOff, Service!Take
  <2> QED
    BY <2>3 DEF Service!Next
<1>4. ASSUME NEW a \in Answer, Answered(a) PROVE Service!Next
  <2>1. /\ status[current] = "running" /\ status' = [status EXCEPT ![current] = a]
        /\ current \in Request /\ inbox' = inbox
    BY <1>4 DEF Answered, AnswerWith, InLine
  <2>2. CASE a = "success"
    <3>1. disturbed' = disturbed
      BY <1>4, <2>2 DEF Answered, Line!Failure
    <3>2. disturbed \/ SegmentsOf(current) \subseteq InStorage
      BY <1>4, <2>2
    <3>3. disturbed \/ [r \in Request |-> SegmentsOf(r)][current]
                          \subseteq {p \in Segment : Stored(p[1], p[2])}
      BY <2>1, <3>2 DEF InStorage
    <3>4. Service!Succeed(current)
      BY <1>00, <2>1, <2>2, <3>1, <3>3 DEF Service!Succeed
    <3> QED
      BY <2>1, <3>4 DEF Service!Next
  <2>3. CASE a # "success"
    <3>1. a \in Service!Failure
      BY <2>3 DEF Answer, Service!Failure
    <3>2. disturbed' \in {disturbed, TRUE}
      BY <1>4, Zenon DEF Answered
    <3>3. Service!Fail(current)
      BY <1>00, <2>1, <3>1, <3>2 DEF Service!Fail
    <3> QED
      BY <2>1, <3>3 DEF Service!Next
  <2> QED
    BY <2>2, <2>3
<1>5. CASE StopAsked
  <2>1. Service!Disturb
    BY <1>00, <1>5 DEF StopAsked, Service!Disturb
  <2> QED
    BY <2>1 DEF Service!Next
<1>6. CASE WentDown
  <2>1. CASE current \in Request
    <3>1. status' = [status EXCEPT ![current] = "lost"]
      BY <1>0, <1>6, <2>1 DEF WentDown, LoseCurrent
    <3>2. status[current] = "running"
      BY <2>1 DEF InLine
    <3>3. Service!Lose(current)
      BY <1>00, <1>6, <3>1, <3>2 DEF WentDown, LoseCurrent, Service!Lose
    <3> QED
      BY <2>1, <3>3 DEF Service!Next
  <2>2. CASE current = None
    <3>1. status' = status
      BY <1>0, <1>6, <2>2 DEF WentDown, LoseCurrent
    <3>2. inbox' = inbox /\ disturbed' \in {disturbed, FALSE}
      BY <1>6 DEF WentDown, LoseCurrent
    <3>3. CASE disturbed' = disturbed
      BY <1>00, <3>1, <3>2, <3>3
    <3>4. CASE disturbed' = FALSE
      <4>1. Service!Refresh
        BY <1>00, <3>1, <3>2, <3>4 DEF Service!Refresh
      <4> QED
        BY <4>1 DEF Service!Next
    <3> QED
      BY <3>2, <3>3, <3>4
  <2> QED
    BY <1>0, <2>1, <2>2
<1> QED
  BY <1>1, <1>2, <1>3, <1>4, <1>5, <1>6 DEF LineStep

(* The daemon implements the whole of the abstract service where raw files  *)
(* adjoin: requests in order and one at a time, nothing stored that was not *)
(* asked for, and a success in storage (README.md, Redis LIST).             *)
THEOREM ServiceImplemented ==
    ASSUME Adjoining
    PROVE  Spec => ServiceProvided
<1>1. Init => Service!Init
  <2> SUFFICES ASSUME Init PROVE Service!Init
    OBVIOUS
  <2>1. {p \in Segment : Stored(p[1], p[2])} = {}
    <3> SUFFICES ASSUME NEW f \in File, NEW s \in Span[f] PROVE ~Stored(f, s)
      BY DEF Segment
    <3>1. NameOf(f, s) \in ObjectName
      BY SegmentPlaces DEF NameOf, MidName, PairName, ObjectName
    <3> QED
      BY <3>1 DEF Init, SharedInit, Stored
  <2> QED
    BY <2>1 DEF Init, ManagerInit, Service!Init
<1>2. /\ TypeOK /\ TypeOK' /\ InLine /\ Accounted /\ Secured /\ OnlyAsked'
      /\ [Next]_vars
      => [Service!Next]_(Service!vars)
  <2> SUFFICES ASSUME TypeOK, TypeOK', InLine, Accounted, Secured, OnlyAsked',
                      [Next]_vars
               PROVE  [Service!Next]_(Service!vars)
    OBVIOUS
  <2>1. CASE object' # object
    <3>1. Service!Store
      BY <2>1, UploadIsQuiet, UploadIsStore
    <3> QED
      BY <3>1 DEF Service!Next
  <2>2. CASE object' = object
    BY <2>2, StepOfLine, SuccessIsStored, ServiceSteps
  <2> QED
    BY <2>1, <2>2
<1> QED
  BY <1>1, <1>2, TypeCorrect, RequestsInLine, AccountCorrect, SecureCorrect,
     OnlyAskedStored, PTL DEF Spec, ServiceProvided, Service!Spec

-----------------------------------------------------------------------------
(* What was stored stays stored. *)

(* A job of a request is of files, and its edges have names.                *)
LEMMA EdgeOfJob ==
    ASSUME NEW r \in Request, NEW j \in JobsOf(r), NEW s \in Unprocessed(j.file)
    PROVE  /\ j \in Job /\ s \in Second /\ s \in Span[j.file]
           /\ PairName(s) \in ObjectName
<1>1. PICK f \in File : j = [req |-> r, file |-> f]
  BY ManagerAssumption DEF JobsOf
<1>2. j \in Job /\ s \in Span[f]
  BY <1>1 DEF Job, Unprocessed
<1>3. s \in Second
  BY <1>2, SegmentPlaces
<1> QED
  BY <1>1, <1>2, <1>3 DEF ObjectName, PairName

(* A worker's uploads go to names of their own.                             *)
LEMMA WorkersWrite ==
    ASSUME TypeOK, NEW w \in Worker, WorkerStep(w) \/ WorkerCrashes(w) \/ StopWorker(w),
           NEW s \in Second
    PROVE  object'[PairName(s)] = object[PairName(s)]
<1>1. CASE UploadMid(w)
  <2>1. PICK t, c : Upload(MidName(t), c)
    BY <1>1 DEF UploadMid
  <2>2. PairName(s) \in DOMAIN object /\ PairName(s) # MidName(t)
    BY DEF TypeOK, SharedTypeOK, ObjectName, PairName, MidName
  <2> QED
    BY <2>1, <2>2 DEF Upload
<1>2. CASE ~UploadMid(w)
  BY <1>2 DEF WorkerStep, WorkerCrashes, StopWorker, TakeJob, WorkerExits, Download, Split,
              SendPair, DownloadRaises, SplitRaises, UploadRaises, Report, sharedVars
<1> QED
  BY <1>1, <1>2

(* The manager uploads pairs and what is left of them, and nothing else.    *)
LEMMA OthersWriteNothing ==
    ASSUME ManagerNext, ~PublishPair, ~SweepNext
    PROVE  object' = object
<1>1. CASE PollAccepts \/ PollLoses \/ ManagerExits \/ PollTimesOut
           \/ \E r \in Request : Submit(r)
  BY <1>1 DEF PollAccepts, PollLoses, ManagerExits, PollTimesOut, Submit, sharedVars
<1>2. CASE CollectRaises \/ MergeRaises \/ SweepRaises \/ Notify
  BY <1>2 DEF CollectRaises, MergeRaises, SweepRaises, Notify, Abort, Unwind, sharedVars
<1>3. CASE \/ CollectFiles \/ PushNextJob \/ TakeJobDone \/ TakePairPut \/ LeaveDrain
           \/ MergePair
  BY <1>3 DEF CollectFiles, PushNextJob, TakeJobDone, TakePairPut, LeaveDrain, MergePair,
              sharedVars
<1>4. CASE StopManager \/ RedisFails \/ ManagerCrashes
  BY <1>4 DEF StopManager, RedisFails, ManagerCrashes, sharedVars
<1> QED
  BY <1>1, <1>2, <1>3, <1>4 DEF ManagerNext, ManagerStep

(* A request is taken up by being accepted.                                 *)
LEMMA TakenUp ==
    ASSUME TypeOK, [Next]_vars
    PROVE  \/ PollAccepts
           \/ /\ current' \in {current, None}
              /\ mpc' = "collect" => mpc = "collect" /\ current' = current
<1>1. CASE \/ PollLoses \/ ManagerExits \/ PollTimesOut \/ RedisFails
           \/ \E r \in Request : Submit(r)
  BY <1>1 DEF PollLoses, ManagerExits, PollTimesOut, RedisFails, Submit, managerVars
<1>2. CASE CollectRaises \/ MergeRaises \/ SweepRaises \/ Notify
  BY <1>2 DEF CollectRaises, MergeRaises, SweepRaises, Notify, Abort, AnswerWith
<1>3. CASE \/ CollectFiles \/ PushNextJob \/ TakeJobDone \/ TakePairPut \/ LeaveDrain
           \/ MergePair \/ PublishPair \/ SweepNext
  BY <1>3 DEF CollectFiles, PushNextJob, TakeJobDone, TakePairPut, LeaveDrain, MergePair,
              PublishPair, SweepNext
<1>4. CASE StopManager \/ ManagerCrashes \/ Restart
  BY <1>4 DEF StopManager, ManagerCrashes, Restart, ManagerStartsAgain, LoseCurrent
<1>5. CASE UNCHANGED managerVars
  BY <1>5 DEF managerVars
<1> QED
  BY <1>1, <1>2, <1>3, <1>4, <1>5 DEF Next, ManagerNext, ManagerStep, vars

(* None comes to wait that did not, and the one at hand was accepted.       *)
LEMMA AwaitsStays ==
    ASSUME TypeOK, InLine, WrittenOnce, [Next]_vars
    PROVE  /\ \A r \in Request : Awaits(r)' => Awaits(r)
           /\ current' # None => Accepts(Envelope[current'])
<1>1. /\ status \in [Request -> Status] /\ inbox \in Seq(Request)
      /\ PollAccepts \/ /\ current' \in {current, None}
                        /\ mpc' = "collect" => mpc = "collect" /\ current' = current
  BY TakenUp DEF TypeOK, ManagerTypeOK
<1>2. ASSUME NEW r \in Request, status'[r] \in {"unsent", "queued"}
      PROVE  status[r] \in {"unsent", "queued"}
  <2>1. CASE Quiet \/ StopAsked
    BY <1>2, <2>1 DEF Quiet, StopAsked
  <2>2. ASSUME NEW q \in Request, Submit(q) PROVE status[r] \in {"unsent", "queued"}
    BY <1>1, <1>2, <2>2 DEF Submit
  <2>3. ASSUME NEW to \in {"running", "dropped", "lost"}, TakenOff(to)
        PROVE  status[r] \in {"unsent", "queued"}
    BY <1>1, <1>2, <2>3 DEF TakenOff
  <2>4. ASSUME NEW a \in Answer, Answered(a) PROVE status[r] \in {"unsent", "queued"}
    BY <1>1, <1>2, <2>4 DEF Answered, AnswerWith, Answer
  <2>5. CASE WentDown
    BY <1>1, <1>2, <2>5 DEF WentDown, LoseCurrent
  <2> QED
    BY <2>1, <2>2, <2>3, <2>4, <2>5, StepOfLine DEF LineStep
<1>3. ASSUME PollAccepts
      PROVE  /\ status[current'] = "queued" /\ Accepts(Envelope[current'])
             /\ current' \in Request
  BY <1>1, <1>3, TailElements DEF PollAccepts, InLine
<1>4. current' # None => Accepts(Envelope[current'])
  BY <1>1, <1>3 DEF WrittenOnce
<1> QED
  BY <1>1, <1>2, <1>3, <1>4 DEF Awaits

(* At rest nothing is to come.                                              *)
LEMMA RestSettles == TypeOK /\ AtRest => \A s \in Second : Settled(s)
<1> SUFFICES ASSUME TypeOK, AtRest PROVE \A s \in Second : Settled(s)
  OBVIOUS
<1>1. InPlay = {} /\ Sending = {}
  BY NothingInPlay DEF NoPiece, TypeOK
<1>2. ToSplit = {}
  BY SharedAssumption
     DEF AtRest, Idle, ToSplit, ToPush, Queued, TypeOK, ModuleTypeOK, AtWork
<1> QED
  BY <1>1, <1>2 DEF Settled

(* Of the next state the same.                                              *)
LEMMA RestSettlesNext == TypeOK' /\ AtRest' => (\A s \in Second : Settled(s))'
BY RestSettles, PTL

(* The jobs of a new cycle are the ones that waited.                        *)
LEMMA CollectSettles ==
    ASSUME TypeOK, TypeOK', Accounted, Undisturbed, WrittenOnce, CollectFiles,
           UNCHANGED moduleVars, NEW s \in Second
    PROVE  Settled(s)' \/ Unwritten(s)'
<1>1. /\ Idle /\ Waiting = {} /\ pair = <<>> /\ unpaired = {}
      /\ current \in Request
  BY DryIsIdle
     DEF Accounted, InCycle, CollectFiles, TypeOK, ManagerTypeOK, Handling
<1>2. /\ mailbox' = mailbox /\ jobQueue' = jobQueue /\ object' = object /\ pair' = pair
      /\ unpaired' = unpaired /\ current' = current /\ toPush' = Folder[current]
      /\ Waiting' = {} /\ wpc' = wpc /\ wjob' = wjob /\ wpair' = wpair
  BY NoBucketsWaitNext DEF CollectFiles, sharedVars, cycleVars, moduleVars
<1>3. InPlay' = {}
  BY <1>1, <1>2 DEF InPlay, OnTheWay, PairAt, Taken, Paired, Unpaired, Idle, Range
<1>4. Sending' = {}
  BY <1>1, <1>2, SharedAssumption DEF Sending, Idle, TypeOK, ModuleTypeOK, AtWork
<1>5. ToSplit' = JobsOf(current)
  <2>1. {wjob[w] : w \in {v \in Worker : wpc[v] \in {"download", "split"}}} = {}
    BY <1>1, SharedAssumption DEF Idle, TypeOK, ModuleTypeOK, AtWork
  <2>2. ToPush' = JobsOf(current) /\ Queued' = {}
    BY <1>1, <1>2 DEF ToPush, Queued, JobsOf, Idle
  <2> QED
    BY <1>2, <2>1, <2>2 DEF ToSplit
<1>6. Awaits(current)
  BY <1>1, SharedAssumption DEF Awaits, CollectFiles, WrittenOnce
<1>7. CASE \E j \in JobsOf(current) : s \in Unprocessed(j.file)
  BY <1>1, <1>2, <1>6, <1>7 DEF WrittenOnce, Unwritten
<1>8. CASE \A j \in JobsOf(current) : s \notin Unprocessed(j.file)
  BY <1>3, <1>4, <1>5, <1>8 DEF Settled
<1> QED
  BY <1>7, <1>8

(* An upload goes to a name that is meant for nobody else.                  *)
LEMMA StoreWritesOnce ==
    ASSUME Adjoining, EdgesApart, TypeOK, TypeOK', InLine, Accounted, SweepLosesNothing,
           Pieces, PathsRight, Undisturbed, Undisturbed', WrittenOnce, [Next]_vars,
           ManagerNext, PublishPair \/ SweepNext, UNCHANGED moduleVars
    PROVE  WrittenOnce'
<1>1. PieceOnce /\ TwoHalves
  BY DEF Pieces
<1>2. PICK s \in Second, G \in SUBSET InPlay :
        /\ G # {} /\ \A x \in G : x.out = s
        /\ Settled(s)'
        /\ object' = [object EXCEPT ![PairName(s)] = object'[PairName(s)]]
  BY <1>1, PieceStored
<1>3. PICK x \in G : x \in InPlay /\ x.out = s
  BY <1>2
<1>4. x.job \in JobsOf(current) /\ s \in Unprocessed(x.job.file)
  BY <1>1, <1>3, PieceNamed
<1>5. \A t \in Second : t # s => object'[PairName(t)] = object[PairName(t)]
  BY <1>2 DEF TypeOK, SharedTypeOK, ObjectName, PairName
<1>6. /\ \A r \in Request : Awaits(r)' => Awaits(r)
      /\ current' # None => Accepts(Envelope[current'])
  BY AwaitsStays
<1>7. current \in Request /\ status[current] = "running" /\ Accepts(Envelope[current])
      /\ mpc # "collect"
  BY SharedAssumption
     DEF PublishPair, SweepNext, TypeOK, ManagerTypeOK, Handling, InLine, WrittenOnce
<1>8. ASSUME NEW r \in Request, Awaits(r)', NEW j \in JobsOf(r), NEW t \in Unprocessed(j.file)
      PROVE  Unwritten(t)'
  <2>1. Awaits(r) /\ r # current
    BY <1>6, <1>7, <1>8 DEF Awaits
  <2>2. t # s
    BY <1>4, <1>7, <2>1 DEF EdgesApart, Awaits
  <2>3. t \in Second /\ Unwritten(t)
    BY <2>1, EdgeOfJob DEF WrittenOnce
  <2> QED
    BY <1>5, <2>2, <2>3 DEF Unwritten
<1>9. ASSUME NEW t \in Second PROVE Settled(t)' \/ Unwritten(t)'
  <2>1. Settled(t) => Settled(t)'
    BY CycleSettles DEF CycleStep
  <2>2. t # s /\ Unwritten(t) => Unwritten(t)'
    BY <1>5 DEF Unwritten
  <2> QED
    BY <1>2, <2>1, <2>2 DEF WrittenOnce
<1> QED
  BY <1>6, <1>8, <1>9 DEF WrittenOnce

(* Any other step leaves the names of pairs alone.                          *)
LEMMA PairsAlone ==
    ASSUME TypeOK, [Next]_vars, NEW s \in Second,
           ~(ManagerNext /\ UNCHANGED moduleVars /\ (PublishPair \/ SweepNext))
    PROVE  Unwritten(s) => Unwritten(s)'
<1>1. object'[PairName(s)] = object[PairName(s)]
  <2>1. CASE ManagerNext /\ UNCHANGED moduleVars
    BY <2>1, OthersWriteNothing
  <2>2. CASE ModuleNext
    BY <2>2, WorkersWrite DEF ModuleNext
  <2>3. CASE Restart \/ UNCHANGED vars
    BY <2>3 DEF Restart, vars, sharedVars
  <2> QED
    BY <2>1, <2>2, <2>3 DEF Next
<1> QED
  BY <1>1 DEF Unwritten

(* Nor does it bring back what is settled, unless a cycle begins.           *)
LEMMA SettledOrUnwritten ==
    ASSUME TypeOK, TypeOK', Accounted, SweepLosesNothing, Pieces, WrittenOnce, Undisturbed',
           [Next]_vars, ~(ManagerNext /\ UNCHANGED moduleVars /\ (PublishPair \/ SweepNext)),
           NEW s \in Second
    PROVE  Settled(s)' \/ Unwritten(s)'
<1>1. ASSUME Undisturbed, Settled(s) => Settled(s)' PROVE Settled(s)' \/ Unwritten(s)'
  BY <1>1, PairsAlone DEF WrittenOnce
<1>2. CASE ManagerNext /\ UNCHANGED moduleVars
  <2>1. Undisturbed
    BY <1>2, CalmStep
  <2>2. CASE CycleStep
    BY <1>1, <1>2, <2>1, <2>2, CycleSettles
  <2>3. CASE PollAccepts \/ PollLoses \/ ManagerExits \/ CollectRaises \/ Notify
    BY <1>2, <2>1, <2>3, StaysAtRest, RestSettlesNext
  <2>4. CASE CollectFiles
    BY <1>2, <2>1, <2>4, CollectSettles
  <2>5. CASE PollTimesOut \/ \E r \in Request : Submit(r)
    <3>1. UNCHANGED <<sharedVars, moduleVars, current, toPush, buckets, pair, unpaired>>
      BY <1>2, <2>5 DEF PollTimesOut, Submit, managerVars, cycleVars
    <3>2. Sending' = Sending /\ ToSplit' = ToSplit /\ InPlay' = InPlay /\ wpair' = wpair
      BY <3>1 DEF sharedVars, moduleVars, Sending, ToSplit, ToPush, Queued, InPlay,
                  OnTheWay, PairAt, Taken, Waiting, Paired, Unpaired
    <3> QED
      BY <1>1, <2>1, <3>2 DEF Settled
  <2> QED
    BY <1>2, <2>2, <2>3, <2>4, <2>5, CalmStep DEF ManagerStep, CycleStep
<1>3. CASE ModuleNext /\ UNCHANGED managerVars
  <2>1. Undisturbed
    BY <1>3 DEF Undisturbed, managerVars
  <2>2. Settled(s) => Settled(s)'
    BY <1>3, WorkerSettles DEF ModuleNext
  <2> QED
    BY <1>1, <2>1, <2>2
<1>4. CASE Restart
  <2>1. AtRest'
    BY <1>4, NoBucketsWaitNext
       DEF Restart, ManagerStartsAgain, ModuleStartsAgain, LoseCurrent, Idle, AtRest
  <2> QED
    BY <2>1, RestSettlesNext
<1>5. CASE UNCHANGED vars
  <2>1. Undisturbed
    BY <1>5 DEF Undisturbed, vars, managerVars
  <2>2. Sending' = Sending /\ ToSplit' = ToSplit /\ InPlay' = InPlay /\ wpair' = wpair
    BY <1>5 DEF vars, managerVars, sharedVars, moduleVars, Sending, ToSplit, ToPush, Queued,
                InPlay, OnTheWay, PairAt, Taken, Waiting, Paired, Unpaired
  <2> QED
    BY <1>1, <2>1, <2>2 DEF Settled
<1> QED
  BY <1>2, <1>3, <1>4, <1>5 DEF Next

(* Where files adjoin and requests have no second in common, an object is   *)
(* written only while nothing else is to come under its name.               *)
THEOREM OnceWritten ==
    ASSUME Adjoining, EdgesApart
    PROVE  Spec /\ []~Interrupted => []WrittenOnce
<1>0. OwnPaths
  BY DEF Adjoining
<1>1. TypeOK /\ Init => WrittenOnce
  <2> SUFFICES ASSUME TypeOK, Init PROVE WrittenOnce
    OBVIOUS
  <2>1. \A s \in Second : Unwritten(s)
    BY DEF Init, SharedInit, Unwritten, ObjectName, PairName
  <2>2. current = None
    BY DEF Init, ManagerInit
  <2> QED
    BY <2>1, <2>2, EdgeOfJob DEF WrittenOnce
<1>2. /\ TypeOK /\ TypeOK' /\ InLine /\ Accounted /\ SweepLosesNothing /\ Pieces
      /\ PathsRight /\ ~Interrupted /\ ~Interrupted' /\ WrittenOnce /\ [Next]_vars
      => WrittenOnce'
  <2> SUFFICES ASSUME TypeOK, TypeOK', InLine, Accounted, SweepLosesNothing, Pieces,
                      PathsRight, ~Interrupted, ~Interrupted', WrittenOnce, [Next]_vars
               PROVE  WrittenOnce'
    OBVIOUS
  <2>1. CASE ManagerNext /\ UNCHANGED moduleVars /\ (PublishPair \/ SweepNext)
    <3>1. Undisturbed /\ Undisturbed'
      BY <2>1 DEF PublishPair, SweepNext, Undisturbed, Interrupted
    <3> QED
      BY <2>1, <3>1, StoreWritesOnce
  <2>2. CASE ~(ManagerNext /\ UNCHANGED moduleVars /\ (PublishPair \/ SweepNext))
    <3>1. /\ \A r \in Request : Awaits(r)' => Awaits(r)
          /\ current' # None => Accepts(Envelope[current'])
      BY AwaitsStays
    <3>2. ASSUME NEW r \in Request, Awaits(r)', NEW j \in JobsOf(r),
                 NEW s \in Unprocessed(j.file)
          PROVE  Unwritten(s)'
      <4>1. Unwritten(s) /\ s \in Second
        BY <3>1, <3>2, EdgeOfJob DEF WrittenOnce
      <4> QED
        BY <2>2, <4>1, PairsAlone
    <3>3. Undisturbed' => \A s \in Second : Settled(s)' \/ Unwritten(s)'
      BY <2>2, SettledOrUnwritten
    <3> QED
      BY <3>1, <3>2, <3>3 DEF WrittenOnce
  <2> QED
    BY <2>1, <2>2
<1> QED
  BY <1>0, <1>1, <1>2, TypeCorrect, RequestsInLine, AccountCorrect, SweepComplete,
     PiecesCorrect, PathsCorrect, PTL DEF Spec

(* Then no upload takes a segment out of storage (module.py,                *)
(* _upload_processed; manager.py, _merge_pair and _upload_unpaired).        *)
THEOREM NothingReplaced ==
    ASSUME Adjoining, EdgesApart
    PROVE  Spec /\ []~Interrupted => StoredStays
<1>0. OwnPaths
  BY DEF Adjoining
<1>1. /\ TypeOK /\ Accounted /\ Pieces /\ PathsRight /\ WrittenOnce /\ ~Interrupted
      /\ [Next]_vars
      => [\A p \in Segment : Stored(p[1], p[2]) => Stored(p[1], p[2])']_vars
  <2> SUFFICES ASSUME TypeOK, Accounted, Pieces, PathsRight, WrittenOnce, ~Interrupted,
                      [Next]_vars, NEW f \in File, NEW t \in Span[f], Stored(f, t)
               PROVE  Stored(f, t)'
    BY DEF Segment
  <2>1. CASE ModuleNext /\ UNCHANGED managerVars
    BY <2>1, WorkersStore DEF ModuleNext
  <2>2. CASE ManagerNext /\ UNCHANGED moduleVars /\ (PublishPair \/ SweepNext)
    <3>1. Undisturbed /\ PieceOnce /\ TwoHalves
      BY <2>2 DEF PublishPair, SweepNext, Undisturbed, Interrupted, Pieces
    <3>2. PICK s \in Second, G \in SUBSET InPlay :
            /\ G # {} /\ \A x \in G : x.out = s
            /\ \A g \in File : \A u \in Span[g] :
                  NameOf(g, u) # PairName(s) /\ Stored(g, u) => Stored(g, u)'
      BY <2>2, <3>1, PieceStored
    <3>3. ~Settled(s)
      BY <3>2 DEF Settled
    <3>4. object[PairName(s)] = <<>>
      BY <3>1, <3>3 DEF WrittenOnce, Unwritten
    <3>5. NameOf(f, t) # PairName(s)
      BY <3>4 DEF Stored
    <3> QED
      BY <3>2, <3>5
  <2>3. CASE ManagerNext /\ ~PublishPair /\ ~SweepNext
    BY <2>3, OthersWriteNothing DEF Stored
  <2>4. CASE Restart \/ UNCHANGED vars
    BY <2>4 DEF Restart, vars, sharedVars, Stored
  <2> QED
    BY <2>1, <2>2, <2>3, <2>4 DEF Next
<1> QED
  BY <1>0, <1>1, TypeCorrect, AccountCorrect, PiecesCorrect, PathsCorrect, OnceWritten,
     PTL DEF Spec, StoredStays

(* Nor in a daemon in which no merge, no sweep and no stop cuts a cycle     *)
(* short: then StoredStays holds without reservation.                       *)
THEOREM CalmStorage ==
    ASSUME Adjoining, EdgesApart, NothingCuts
    PROVE  Spec => StoredStays
<1>1. OwnPaths
  BY DEF Adjoining
<1> QED
  BY <1>1, NoneCutShort, NothingReplaced, PTL

=============================================================================
