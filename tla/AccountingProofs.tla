-------------------------- MODULE AccountingProofs --------------------------
(***************************************************************************)
(* That the manager's counter is an account of the jobs of its cycle, for  *)
(* every set of files, requests and workers and every kind of fault.       *)
(***************************************************************************)
EXTENDS NormalizerInvariants, NormalizerProofs

(* A pop takes the first element off; it is nowhere else in a queue without *)
(* repetition.                                                              *)
LEMMA PopOnce ==
    ASSUME NEW S, NEW q \in Seq(S), q # <<>>
    PROVE  /\ Range(q) = Range(Tail(q)) \cup {Head(q)}
           /\ IsInjective(q) => IsInjective(Tail(q)) /\ Head(q) \notin Range(Tail(q))
<1>1. \A i \in DOMAIN Tail(q) : i \in Nat /\ i >= 1
  BY HeadTailProperties, LenProperties
<1> QED
  BY <1>1, TailElements DEF Range, IsInjective

(* A push adds its element; a new one keeps a queue without repetition so.  *)
LEMMA PushOnce ==
    ASSUME NEW S, NEW q \in Seq(S), NEW e \in S
    PROVE  /\ Range(Append(q, e)) = Range(q) \cup {e}
           /\ IsInjective(q) /\ e \notin Range(q) => IsInjective(Append(q, e))
<1>1. /\ DOMAIN Append(q, e) = DOMAIN q \cup {Len(q) + 1}
      /\ Append(q, e)[Len(q) + 1] = e
      /\ \A i \in DOMAIN q : Append(q, e)[i] = q[i]
  BY AppendProperties, LenProperties
<1> QED
  BY <1>1 DEF Range, IsInjective

(* What is queued is what the queue ranges over, and so for the push list.  *)
LEMMA QueuedIsRange ==
    /\ Queued = Range(jobQueue)
    /\ ToPush = {[req |-> current, file |-> f] : f \in Range(toPush)}
BY DEF Queued, ToPush, Range

(* The next state's, likewise.                                              *)
LEMMA QueuedIsRangeNext ==
    /\ Queued' = Range(jobQueue')
    /\ ToPush' = {[req |-> current', file |-> f] : f \in Range(toPush')}
BY DEF Queued, ToPush, Range

-----------------------------------------------------------------------------
(* The mailbox: what taking a message out of it and putting one in do to    *)
(* the reports and pieces in it.                                            *)
LEMMA MailIn ==
    ASSUME mailbox \in Seq(Message), NEW m \in Message,
           mailbox' = Append(mailbox, m)
    PROVE  /\ DOMAIN mailbox' = DOMAIN mailbox \cup {Len(mailbox) + 1}
           /\ mailbox'[Len(mailbox) + 1] = m
           /\ \A i \in DOMAIN mailbox : /\ mailbox'[i] = mailbox[i]
                                        /\ i \in Nat /\ i < Len(mailbox) + 1
           /\ DoneAt' = DoneAt \cup (IF m.type = "WORKER_JOB_DONE"
                                     THEN {Len(mailbox) + 1} ELSE {})
           /\ PairAt' = PairAt \cup (IF m.type = "WORKER_PAIR_PUT"
                                     THEN {Len(mailbox) + 1} ELSE {})
<1>1. /\ DOMAIN mailbox' = DOMAIN mailbox \cup {Len(mailbox) + 1}
      /\ mailbox'[Len(mailbox) + 1] = m
      /\ \A i \in DOMAIN mailbox : /\ mailbox'[i] = mailbox[i]
                                   /\ i \in Nat /\ i < Len(mailbox) + 1
  BY AppendProperties, LenProperties
<1> QED
  BY <1>1 DEF DoneAt, PairAt

(* Received: the head leaves, the rest moves up by one.                     *)
LEMMA MailOut ==
    ASSUME mailbox \in Seq(Message), mailbox # <<>>, mailbox' = Tail(mailbox)
    PROVE  /\ 1 \in DOMAIN mailbox /\ mailbox[1] = Head(mailbox)
           /\ \A i \in DOMAIN mailbox : i \in Nat /\ i >= 1
           /\ \A i \in DOMAIN mailbox' : /\ i \in Nat /\ i >= 1
                                         /\ i + 1 \in DOMAIN mailbox
                                         /\ mailbox'[i] = mailbox[i + 1]
           /\ \A i \in DOMAIN mailbox : i # 1 => /\ i - 1 \in DOMAIN mailbox'
                                                /\ mailbox'[i - 1] = mailbox[i]
BY HeadTailProperties, LenProperties

-----------------------------------------------------------------------------
(* What a step of a worker is to the queues.                                *)
Takes(w) ==
    /\ jobQueue # <<>> /\ jobQueue' = Tail(jobQueue)
    /\ wjob[w] = None /\ wjob' = [wjob EXCEPT ![w] = Head(jobQueue)]
    /\ UNCHANGED mailbox

(* It sends a piece of the job it has, ...                                  *)
Sends(w, m) ==
    /\ wjob[w] \in Job
    /\ m \in PairPutMessage /\ m.item.job = wjob[w]
    /\ mailbox' = Append(mailbox, m)
    /\ UNCHANGED <<jobQueue, wjob>>

(* ... or its report, and has no job then.                                  *)
Reports(w, ok) ==
    /\ wjob[w] \in Job
    /\ mailbox' = Append(mailbox, JobDone(wjob[w], ok))
    /\ wjob' = [wjob EXCEPT ![w] = None]
    /\ UNCHANGED jobQueue

(* Every step of a worker is one of these or leaves the queues alone.       *)
LEMMA StepOfWorker ==
    ASSUME TypeOK, NEW w \in Worker,
           WorkerStep(w) \/ WorkerCrashes(w) \/ StopWorker(w)
    PROVE  \/ Takes(w)
           \/ \E m \in Message : Sends(w, m)
           \/ \E ok \in BOOLEAN : Reports(w, ok)
           \/ UNCHANGED <<jobQueue, wjob, mailbox>>
<1> USE DEF TypeOK
<1>1. CASE TakeJob(w)
  BY <1>1 DEF TakeJob, Goto, PopJob, Takes, ModuleTypeOK
<1>2. CASE SendPair(w)
  <2>1. PICK s \in wpair[w] :
          /\ Goto(w, "deliver", "deliver")
          /\ Send(PairPut(s, [src |-> SavePath(wjob[w].file, s), out |-> s,
                              job |-> wjob[w]]))
          /\ UNCHANGED <<jobQueue, wjob>>
    BY <1>2 DEF SendPair
  <2>2. wjob[w] \in Job /\ wjob[w].file \in File /\ s \in Span[wjob[w].file]
    BY <2>1 DEF Goto, ModuleTypeOK, AtWork, Job, Unprocessed
  <2>3. PICK m \in PairPutMessage : m.item.job = wjob[w] /\ Send(m)
    BY <2>1, <2>2, SegmentPlaces DEF PairPut, PairPutMessage, Item
  <2> QED
    BY <2>1, <2>2, <2>3 DEF Send, Sends, Message
<1>3. ASSUME NEW ok \in BOOLEAN, Report(w, ok)
      PROVE  Reports(w, ok)
  BY <1>3 DEF Report, Reports, Send, Goto, ModuleTypeOK, AtWork
<1> QED
  BY <1>1, <1>2, <1>3
     DEF WorkerStep, WorkerExits, Download, Split, UploadMid, DownloadRaises,
         SplitRaises, UploadRaises, WorkerCrashes, StopWorker, sharedVars

(* When the manager's state and the jobs in flight are as they were, the    *)
(* account is.                                                              *)
LEMMA AccountKept ==
    ASSUME Accounted, InCycle, UNCHANGED managerVars, InFlight' = InFlight,
           Undisturbed => OneHolder' /\ ReportsTrail'
    PROVE  Accounted'
<1>1. Undisturbed' = Undisturbed /\ InCycle'
  BY DEF Undisturbed, managerVars, InCycle
<1> QED
  BY <1>1 DEF Accounted, CycleAccount, Counted, managerVars, InCycle

(* No step of a worker loses, doubles or hides a job.                       *)
LEMMA WorkerAccounts ==
    ASSUME TypeOK, TypeOK', Accounted, NEW w \in Worker, UNCHANGED managerVars,
           WorkerStep(w) \/ WorkerCrashes(w) \/ StopWorker(w)
    PROVE  Accounted'
<1> USE DEF TypeOK
<1> SUFFICES ASSUME Undisturbed PROVE Accounted'
  BY DEF Accounted, Undisturbed, managerVars
<1>1. ToPush' = ToPush /\ toPush' = toPush /\ InCycle' = InCycle
  BY DEF ToPush, managerVars, InCycle
<1>2. OneHolder /\ ReportsTrail
  BY DEF Accounted
<1>3. InFlight # {} => InCycle
  BY DEF Accounted, Dry
<1>4. CASE UNCHANGED <<jobQueue, wjob, mailbox>>
  <2>1. /\ Queued' = Queued /\ Held' = Held /\ Reported' = Reported
        /\ DoneAt' = DoneAt /\ PairAt' = PairAt
    BY <1>4 DEF Queued, Held, Reported, DoneAt, PairAt
  <2>2. InFlight' = InFlight /\ OneHolder' /\ ReportsTrail'
    BY <1>1, <1>2, <1>4, <2>1 DEF InFlight, OneHolder, ReportsTrail
  <2>3. Waiting' = Waiting /\ Dry' = Dry
    BY <1>4, <2>2 DEF Waiting, Dry, managerVars
  <2> QED
    BY <1>1, <2>2, <2>3
       DEF Accounted, CycleAccount, Counted, Undisturbed, managerVars, InCycle
<1>5. CASE Takes(w)
  <2> DEFINE j == Head(jobQueue)
  <2>1. jobQueue \in Seq(Job) /\ jobQueue # <<>> /\ jobQueue' = Tail(jobQueue)
    BY <1>5 DEF Takes, SharedTypeOK
  <2>2. /\ Queued = Queued' \cup {j} /\ j \notin Queued'
        /\ IsInjective(jobQueue')
    BY <1>2, <2>1, PopOnce, QueuedIsRange, QueuedIsRangeNext DEF OneHolder
  <2>3. j \in Job /\ j # None
    BY <2>1, PopType, SharedAssumption
  <2>4. /\ wjob[w] = None /\ wjob'[w] = j
        /\ \A v \in Worker : v # w => wjob'[v] = wjob[v]
    BY <1>5 DEF Takes, ModuleTypeOK
  <2>5. Held' = Held \cup {j}
    BY <2>3, <2>4 DEF Held
  <2>6. j \notin Held
    BY <1>2, <2>2 DEF OneHolder
  <2>7. \A u, v \in Worker : wjob'[u] = wjob'[v] /\ wjob'[v] # None => u = v
    BY <1>2, <2>4, <2>6 DEF OneHolder, Held
  <2>8. Reported' = Reported /\ DoneAt' = DoneAt /\ PairAt' = PairAt /\ mailbox' = mailbox
    BY <1>5 DEF Takes, Reported, DoneAt, PairAt
  <2>9. InFlight' = InFlight /\ j \in InFlight
    BY <1>1, <2>2, <2>5, <2>8 DEF InFlight
  <2>10. OneHolder'
    BY <1>1, <1>2, <2>2, <2>5, <2>6, <2>7, <2>8 DEF OneHolder
  <2>11. ReportsTrail'
    BY <1>2, <2>5, <2>8 DEF ReportsTrail
  <2> QED
    BY <1>3, <2>9, <2>10, <2>11, AccountKept
<1>6. ASSUME NEW m \in Message, Sends(w, m) PROVE Accounted'
  <2>1. /\ mailbox \in Seq(Message) /\ mailbox' = Append(mailbox, m)
        /\ m.type = "WORKER_PAIR_PUT"
    BY <1>6 DEF Sends, PairPutMessage, SharedTypeOK
  <2>2. wjob[w] \in Held /\ Held' = Held /\ Queued' = Queued
    BY <1>6, SharedAssumption DEF Sends, Held, Queued
  <2>3. /\ DoneAt' = DoneAt
        /\ \A i \in DoneAt : mailbox'[i] = mailbox[i]
    BY <2>1, MailIn DEF DoneAt
  <2>4. Reported' = Reported
    BY <2>3 DEF Reported
  <2>5. InFlight' = InFlight /\ wjob[w] \in InFlight
    BY <1>1, <2>2, <2>4 DEF InFlight
  <2>6. OneHolder'
    <3>1. \A i, k \in DoneAt' : mailbox'[i].job = mailbox'[k].job => i = k
      BY <1>2, <2>3 DEF OneHolder
    <3> QED
      BY <1>1, <1>2, <1>6, <2>2, <2>4, <3>1 DEF OneHolder, Sends
  <2>7. ReportsTrail'
    <3> SUFFICES ASSUME NEW i \in PairAt'
                 PROVE  \/ mailbox'[i].item.job \in Held'
                        \/ \E k \in DoneAt' : i < k /\ mailbox'[k].job = mailbox'[i].item.job
      BY DEF ReportsTrail
    <3>1. CASE i = Len(mailbox) + 1
      BY <1>6, <2>1, <2>2, <3>1, MailIn DEF Sends
    <3>2. CASE i # Len(mailbox) + 1
      <4>1. i \in PairAt /\ mailbox'[i] = mailbox[i]
        BY <2>1, <3>2, MailIn DEF PairAt
      <4> QED
        BY <1>2, <2>2, <2>3, <4>1 DEF ReportsTrail
    <3> QED
      BY <3>1, <3>2
  <2> QED
    BY <1>3, <2>5, <2>6, <2>7, AccountKept
<1>7. ASSUME NEW ok \in BOOLEAN, Reports(w, ok) PROVE Accounted'
  <2> DEFINE j == wjob[w]
             m == JobDone(j, ok)
             n == Len(mailbox) + 1
  <2>1. /\ j \in Job /\ m \in Message
        /\ m.type = "WORKER_JOB_DONE" /\ m.job = j
    BY <1>7 DEF Reports, JobDone, Message, JobDoneMessage
  <2>2. mailbox \in Seq(Message) /\ mailbox' = Append(mailbox, m)
    BY <1>7 DEF Reports, SharedTypeOK
  <2>3. /\ j \in Held /\ j \notin Reported
        /\ \A v \in Worker : v # w => wjob[v] # j
    BY <1>2, <2>1, SharedAssumption DEF Held, OneHolder
  <2>4. /\ wjob'[w] = None
        /\ \A v \in Worker : v # w => wjob'[v] = wjob[v]
    BY <1>7 DEF Reports, ModuleTypeOK
  <2>5. Held' = Held \ {j}
    BY <2>1, <2>3, <2>4 DEF Held
  <2> HIDE DEF m, j, n
  <2>6. /\ DOMAIN mailbox' = DOMAIN mailbox \cup {n}
        /\ mailbox'[n] = m
        /\ \A i \in DOMAIN mailbox : mailbox'[i] = mailbox[i] /\ i \in Nat /\ i < n
        /\ DoneAt' = DoneAt \cup {n} /\ PairAt' = PairAt
    BY <2>1, <2>2, MailIn DEF n
  <2>7. \A i \in DoneAt : mailbox'[i] = mailbox[i] /\ mailbox[i].job \in Reported /\ i # n
    BY <2>6 DEF DoneAt, Reported
  <2>8. Reported' = Reported \cup {j}
    BY <2>1, <2>6, <2>7 DEF Reported
  <2>9. Queued' = Queued /\ jobQueue' = jobQueue
    BY <1>7 DEF Reports, Queued
  <2>10. InFlight' = InFlight /\ j \in InFlight
    BY <1>1, <2>3, <2>5, <2>8, <2>9 DEF InFlight
  <2>11. \A i, k \in DoneAt' : mailbox'[i].job = mailbox'[k].job => i = k
    BY <1>2, <2>1, <2>3, <2>6, <2>7 DEF OneHolder
  <2>12. \A u, v \in Worker : wjob'[u] = wjob'[v] /\ wjob'[v] # None => u = v
    BY <1>2, <2>4 DEF OneHolder
  <2>13. OneHolder'
    BY <1>1, <1>2, <2>3, <2>5, <2>8, <2>9, <2>11, <2>12 DEF OneHolder
  <2>14. ReportsTrail'
    <3> SUFFICES ASSUME NEW i \in PairAt
                 PROVE  \/ mailbox'[i].item.job \in Held'
                        \/ \E k \in DoneAt' : i < k /\ mailbox'[k].job = mailbox'[i].item.job
      BY <2>6 DEF ReportsTrail
    <3>1. mailbox'[i] = mailbox[i] /\ i < n
      BY <2>6 DEF PairAt
    <3>2. CASE mailbox[i].item.job = j
      BY <2>1, <2>6, <3>1, <3>2
    <3>3. CASE mailbox[i].item.job # j
      BY <1>2, <2>5, <2>6, <2>7, <3>1, <3>3 DEF ReportsTrail
    <3> QED
      BY <3>2, <3>3
  <2> QED
    BY <1>3, <2>10, <2>13, <2>14, AccountKept
<1> QED
  BY <1>4, <1>5, <1>6, <1>7, StepOfWorker

-----------------------------------------------------------------------------
(* A sequence of nothing is empty.                                          *)
LEMMA EmptyRange ==
    ASSUME NEW S, NEW q \in Seq(S), Range(q) = {}
    PROVE  q = <<>>
<1>1. Len(q) \in Nat /\ \A i \in 1 .. Len(q) : FALSE
  BY LenProperties DEF Range
<1>2. Len(q) = 0
  BY <1>1
<1> QED
  BY <1>2, EmptySeq

(* With no job outstanding and no message, every queue is empty.            *)
LEMMA DryIsIdle ==
    ASSUME TypeOK
    PROVE  Dry <=> Idle
<1>1. ASSUME Dry PROVE Idle
  <2>1. Range(jobQueue) = {} /\ Held = {} /\ Range(toPush) = {}
    BY <1>1, QueuedIsRange DEF Dry, InFlight
  <2>2. jobQueue \in Seq(Job) /\ toPush \in Seq(File)
    BY DEF TypeOK, SharedTypeOK, ManagerTypeOK
  <2>3. jobQueue = <<>> /\ toPush = <<>>
    BY <2>1, <2>2, EmptyRange
  <2> QED
    BY <1>1, <2>1, <2>3 DEF Dry, Idle, Held
<1>2. ASSUME Idle PROVE Dry
  BY <1>2 DEF Idle, Dry, InFlight, ToPush, Queued, Held, Reported, DoneAt
<1> QED
  BY <1>1, <1>2

(* An idle daemon accounts for all its jobs: it has none.                   *)
LEMMA IdleHolds == Idle => OneHolder /\ ReportsTrail /\ Dry
<1> SUFFICES ASSUME Idle PROVE OneHolder /\ ReportsTrail /\ Dry
  OBVIOUS
<1>1. /\ ToPush = {} /\ Queued = {} /\ Held = {} /\ Reported = {}
      /\ DoneAt = {} /\ PairAt = {}
  BY DEF Idle, ToPush, Queued, Held, Reported, DoneAt, PairAt
<1> QED
  BY <1>1 DEF Idle, OneHolder, ReportsTrail, Dry, InFlight, IsInjective

(* What holds of a state holds of the next one.                             *)
LEMMA IdleHoldsNext == Idle' => OneHolder' /\ ReportsTrail' /\ Dry'
BY IdleHolds, PTL

(* In fresh buckets nothing waits.                                          *)
LEMMA NoBucketsWait == buckets = NoBuckets(Second) => Waiting = {}
BY DEF NoBuckets, Waiting, Range

(* The next state's, likewise.                                              *)
LEMMA NoBucketsWaitNext == buckets' = NoBuckets(Second) => Waiting' = {}
<1>1. Second' = Second
  OBVIOUS
<1> QED
  BY <1>1 DEF NoBuckets, Waiting, Range

(* A manager at rest starts from nothing and leaves nothing behind.         *)
LEMMA RestAccounts ==
    ASSUME Idle', Waiting' = {}, ~InCycle', mpc' # "sweep", ~mstop',
           pair' = <<>>, unpaired' = {}
    PROVE  Accounted'
BY IdleHoldsNext DEF Accounted, CycleAccount

(* The job pushed moves from the manager's list to the queue.               *)
LEMMA PushAccounts ==
    ASSUME TypeOK, TypeOK', Accounted, Undisturbed, PushNextJob, UNCHANGED moduleVars
    PROVE  Accounted'
<1> DEFINE f == Head(toPush)
           j == [req |-> current, file |-> f]
<1> USE DEF TypeOK
<1>1. /\ toPush \in Seq(File) /\ toPush # <<>> /\ toPush' = Tail(toPush)
      /\ current \in Request /\ current' = current /\ f \in File
  BY PopType DEF PushNextJob, ManagerTypeOK, Handling
<1>2. jobQueue \in Seq(Job) /\ j \in Job /\ jobQueue' = Append(jobQueue, j)
  BY <1>1 DEF PushNextJob, PushJob, Job, SharedTypeOK
<1>3. OneHolder /\ ReportsTrail /\ InCycle /\ InCycle'
  BY DEF Accounted, PushNextJob, InCycle
<1>4. /\ Range(toPush) = Range(toPush') \cup {f} /\ f \notin Range(toPush')
      /\ IsInjective(toPush')
  BY <1>1, <1>3, PopOnce DEF OneHolder
<1>5. /\ ToPush = {[req |-> current, file |-> g] : g \in Range(toPush)}
      /\ ToPush' = {[req |-> current, file |-> g] : g \in Range(toPush')}
  BY <1>1, QueuedIsRange, QueuedIsRangeNext
<1>6. ToPush = ToPush' \cup {j} /\ j \notin ToPush'
  <2>1. ASSUME NEW g \in Range(toPush'), [req |-> current, file |-> g] = j
        PROVE  g = f
    BY <2>1
  <2> QED
    BY <1>4, <1>5, <2>1
<1> HIDE DEF j, f
<1>7. Queued' = Queued \cup {j} /\ (j \notin Queued => IsInjective(jobQueue'))
  BY <1>2, <1>3, PushOnce, QueuedIsRange, QueuedIsRangeNext DEF OneHolder
<1>8. /\ Held' = Held /\ Reported' = Reported /\ DoneAt' = DoneAt
      /\ PairAt' = PairAt /\ mailbox' = mailbox /\ wjob' = wjob
  BY DEF PushNextJob, moduleVars, Held, Reported, DoneAt, PairAt
<1>9. InFlight' = InFlight
  BY <1>6, <1>7, <1>8 DEF InFlight
<1>10. OneHolder' /\ ReportsTrail'
  BY <1>3, <1>4, <1>6, <1>7, <1>8 DEF OneHolder, ReportsTrail
<1> QED
  BY <1>3, <1>9, <1>10
     DEF Accounted, CycleAccount, Counted, Undisturbed, PushNextJob, InCycle, cycleVars,
         control

(* A cycle starts with a job per file, each still to be pushed.             *)
LEMMA CollectAccounts ==
    ASSUME TypeOK, TypeOK', Accounted, Undisturbed, CollectFiles, UNCHANGED moduleVars
    PROVE  Accounted'
<1> USE DEF TypeOK
<1>1. current \in Request /\ current' = current
  BY DEF CollectFiles, ManagerTypeOK, Handling
<1>2. Idle
  BY DryIsIdle DEF Accounted, CollectFiles, InCycle
<1>3. /\ Queued' = {} /\ Held' = {} /\ Reported' = {} /\ DoneAt' = {} /\ PairAt' = {}
      /\ jobQueue' = <<>> /\ mailbox' = <<>> /\ \A w \in Worker : wjob'[w] = None
  BY <1>2 DEF CollectFiles, Idle, sharedVars, moduleVars, Queued, Held, Reported,
              DoneAt, PairAt
<1>4. toPush' = Folder[current] /\ ToPush' = JobsOf(current)
  BY <1>1 DEF CollectFiles, ToPush, JobsOf
<1>5. IsFiniteSet(JobsOf(current)) /\ Cardinality(JobsOf(current)) = Len(Folder[current])
  BY <1>1, JobsToPush DEF JobsOf
<1>6. InFlight' = JobsOf(current)
  BY <1>3, <1>4 DEF InFlight
<1>7. OneHolder' /\ ReportsTrail'
  <2>1. IsInjective(toPush')
    BY <1>1, <1>4, ManagerAssumption DEF IsInjective
  <2>2. IsInjective(jobQueue')
    BY <1>3 DEF IsInjective
  <2> QED
    BY <1>3, <2>1, <2>2 DEF OneHolder, ReportsTrail
<1>8. progress' = [remaining |-> Len(Folder[current]), success |-> 0, failure |-> 0]
  BY DEF CollectFiles, BeginCycle
<1>9. Len(Folder[current]) \in Nat
  BY <1>1, ManagerAssumption, LenProperties
<1>10. CycleAccount'
  BY <1>1, <1>5, <1>6, <1>8, <1>9 DEF CycleAccount, Counted
<1> QED
  BY <1>7, <1>10
     DEF Accounted, Undisturbed, CollectFiles, InCycle, cycleVars, control

(* The counters always add up to the jobs the cycle began with.             *)
LEMMA CountSum ==
    ASSUME NEW p \in Progress, p.remaining > 0, NEW ok \in BOOLEAN
    PROVE  LET q == MarkOneDone(p, ok)
           IN  /\ q.remaining = p.remaining - 1
               /\ q.remaining + q.success + q.failure
                    = p.remaining + p.success + p.failure
               /\ q.success = IF ok THEN p.success + 1 ELSE p.success
               /\ ~ok => q.failure > 0
               /\ q.failure >= p.failure
<1>1. p.remaining \in Nat /\ p.success \in Nat /\ p.failure \in Nat
  BY DEF Progress
<1>2. CASE ok
  BY <1>1, <1>2 DEF MarkOneDone, Progress
<1>3. CASE ~ok
  BY <1>1, <1>3 DEF MarkOneDone, Progress
<1> QED
  BY <1>2, <1>3

(* A report taken takes its job out of flight and moves nothing else.       *)
LEMMA ReportTaken ==
    ASSUME TypeOK, Accounted, Undisturbed, TakeJobDone, UNCHANGED moduleVars
    PROVE  LET m == Head(mailbox)
           IN  /\ m.success \in BOOLEAN /\ progress' = MarkOneDone(progress, m.success)
               /\ 1 \in DoneAt /\ mailbox[1] = m
               /\ \A i \in DoneAt' : /\ i + 1 \in DoneAt /\ i + 1 # 1 /\ i \in Nat
                                     /\ mailbox'[i] = mailbox[i + 1]
               /\ \A i \in DoneAt : i # 1 => /\ i - 1 \in DoneAt' /\ i \in Nat
                                            /\ mailbox'[i - 1] = mailbox[i]
               /\ \A i \in PairAt' : /\ i + 1 \in PairAt /\ i \in Nat
                                     /\ mailbox'[i] = mailbox[i + 1]
               /\ ToPush' = ToPush /\ Queued' = Queued /\ Held' = Held
               /\ Reported = Reported' \cup {m.job} /\ m.job \notin Reported'
               /\ InFlight' = InFlight \ {m.job} /\ m.job \in InFlight
<1> DEFINE m == Head(mailbox)
           j == m.job
<1>1. mailbox \in Seq(Message) /\ mailbox # <<>> /\ mailbox' = Tail(mailbox)
  BY DEF TakeJobDone, Receive, TypeOK, SharedTypeOK
<1>2. OneHolder /\ progress' = MarkOneDone(progress, m.success)
  BY DEF Accounted, TakeJobDone
<1>3. m.type = "WORKER_JOB_DONE" /\ m.success \in BOOLEAN
  BY <1>1, PopType DEF TakeJobDone, Message, JobDoneMessage, PairPutMessage
<1>4. /\ 1 \in DOMAIN mailbox /\ mailbox[1] = m
      /\ \A i \in DOMAIN mailbox : i \in Nat /\ i >= 1
      /\ \A i \in DOMAIN mailbox' : /\ i \in Nat /\ i >= 1
                                    /\ i + 1 \in DOMAIN mailbox
                                    /\ mailbox'[i] = mailbox[i + 1]
      /\ \A i \in DOMAIN mailbox : i # 1 => /\ i - 1 \in DOMAIN mailbox'
                                           /\ mailbox'[i - 1] = mailbox[i]
  BY <1>1, MailOut
<1> HIDE DEF m
<1>5. /\ 1 \in DoneAt
      /\ \A i \in DoneAt' : /\ i + 1 \in DoneAt /\ i + 1 # 1 /\ i \in Nat
                            /\ mailbox'[i] = mailbox[i + 1]
      /\ \A i \in DoneAt : i # 1 => /\ i - 1 \in DoneAt' /\ i \in Nat
                                   /\ mailbox'[i - 1] = mailbox[i]
      /\ \A i \in PairAt' : /\ i + 1 \in PairAt /\ i \in Nat
                            /\ mailbox'[i] = mailbox[i + 1]
  BY <1>3, <1>4 DEF DoneAt, PairAt
<1>6. j \in Reported /\ j \notin Reported' /\ Reported = Reported' \cup {j}
  <2>1. j \in Reported
    BY <1>4, <1>5 DEF Reported
  <2>2. j \notin Reported'
    BY <1>2, <1>4, <1>5 DEF OneHolder, Reported
  <2>3. Reported' \subseteq Reported
    BY <1>5 DEF Reported
  <2>4. Reported \subseteq Reported' \cup {j}
    BY <1>4, <1>5 DEF Reported
  <2> QED
    BY <2>1, <2>2, <2>3, <2>4
<1>7. ToPush' = ToPush /\ Queued' = Queued /\ Held' = Held
  BY DEF TakeJobDone, moduleVars, ToPush, Queued, Held
<1>8. InFlight' = InFlight \ {j} /\ j \in InFlight
  BY <1>2, <1>6, <1>7 DEF InFlight, OneHolder
<1> QED
  BY <1>2, <1>3, <1>4, <1>5, <1>6, <1>7, <1>8 DEF m

(* A report taken is one job less in flight and one more counted.           *)
LEMMA DoneAccounts ==
    ASSUME TypeOK, TypeOK', Accounted, Undisturbed, TakeJobDone, UNCHANGED moduleVars
    PROVE  Accounted'
<1> DEFINE m == Head(mailbox)
           j == m.job
<1> USE DEF TypeOK
<1>1. /\ m.success \in BOOLEAN /\ progress' = MarkOneDone(progress, m.success)
      /\ \A i \in PairAt' : /\ i + 1 \in PairAt /\ i \in Nat
                            /\ mailbox'[i] = mailbox[i + 1]
  BY ReportTaken
<1>2. OneHolder /\ ReportsTrail /\ CycleAccount /\ InCycle /\ InCycle'
  BY DEF Accounted, TakeJobDone, Draining, InCycle
<1>3. /\ \A i \in DoneAt' : /\ i + 1 \in DoneAt /\ i + 1 # 1 /\ i \in Nat
                            /\ mailbox'[i] = mailbox[i + 1]
      /\ \A i \in DoneAt : i # 1 => /\ i - 1 \in DoneAt' /\ i \in Nat
                                   /\ mailbox'[i - 1] = mailbox[i]
  BY ReportTaken
<1>4. j \notin Reported' /\ Reported = Reported' \cup {j}
  BY ReportTaken
<1>5. \A i, k \in DoneAt' : mailbox'[i].job = mailbox'[k].job => i = k
  BY <1>2, <1>3 DEF OneHolder
<1>6. /\ ToPush' = ToPush /\ Queued' = Queued /\ Held' = Held
      /\ toPush' = toPush /\ jobQueue' = jobQueue /\ wjob' = wjob
  BY ReportTaken DEF TakeJobDone, moduleVars
<1>7. InFlight' = InFlight \ {j} /\ j \in InFlight
  BY ReportTaken
<1> HIDE DEF m
<1>8. OneHolder'
  BY <1>2, <1>4, <1>5, <1>6 DEF OneHolder
<1>9. ReportsTrail'
  <2> SUFFICES ASSUME NEW i \in PairAt'
               PROVE  \/ mailbox'[i].item.job \in Held'
                      \/ \E k \in DoneAt' : i < k /\ mailbox'[k].job = mailbox'[i].item.job
    BY DEF ReportsTrail
  <2>1. i + 1 \in PairAt /\ i \in Nat /\ mailbox'[i] = mailbox[i + 1]
    BY <1>1
  <2>2. CASE mailbox[i + 1].item.job \in Held
    BY <1>6, <2>1, <2>2
  <2>3. CASE mailbox[i + 1].item.job \notin Held
    <3>1. PICK k \in DoneAt : i + 1 < k /\ mailbox[k].job = mailbox[i + 1].item.job
      BY <1>2, <2>1, <2>3 DEF ReportsTrail
    <3>2. k # 1 /\ k \in Nat
      BY <1>3, <2>1, <3>1
    <3>3. k - 1 \in DoneAt' /\ mailbox'[k - 1] = mailbox[k] /\ i < k - 1
      BY <1>3, <2>1, <3>1, <3>2
    <3> QED
      BY <2>1, <3>1, <3>3
  <2> QED
    BY <2>2, <2>3
<1>10. IsFiniteSet(InFlight) /\ Cardinality(InFlight) \in Nat
  BY InFlightFinite, FS_CardinalityType
<1>11. Cardinality(InFlight') = Cardinality(InFlight) - 1
  BY <1>7, <1>10, FS_RemoveElement
<1>12. progress \in Progress /\ progress.remaining > 0
  BY DEF TakeJobDone, Draining, IsDone, ManagerTypeOK, Progress
<1>13. /\ progress'.remaining = progress.remaining - 1
       /\ progress'.remaining + progress'.success + progress'.failure
            = progress.remaining + progress.success + progress.failure
  BY <1>1, <1>12, CountSum
<1>14. CycleAccount'
  <2>1. current' = current
    BY DEF TakeJobDone
  <2> QED
    BY <1>2, <1>7, <1>11, <1>13, <2>1 DEF CycleAccount, Counted
<1> QED
  BY <1>2, <1>8, <1>9, <1>14
     DEF Accounted, TakeJobDone, Draining, InCycle, Undisturbed, cycleVars, control

(* A piece taken is no job: the account is what it was.                     *)
LEMMA PieceAccounts ==
    ASSUME TypeOK, TypeOK', Accounted, Undisturbed, TakePairPut, UNCHANGED moduleVars
    PROVE  Accounted'
<1> DEFINE m == Head(mailbox)
<1> USE DEF TypeOK
<1>1. mailbox \in Seq(Message) /\ mailbox # <<>> /\ mailbox' = Tail(mailbox)
  BY DEF TakePairPut, Receive, SharedTypeOK
<1>2. OneHolder /\ ReportsTrail /\ CycleAccount /\ InCycle /\ InCycle'
  BY DEF Accounted, TakePairPut, Draining, InCycle
<1>3. m.type # "WORKER_JOB_DONE"
  BY DEF TakePairPut
<1>4. /\ mailbox[1] = m
      /\ \A i \in DOMAIN mailbox : i \in Nat /\ i >= 1
      /\ \A i \in DOMAIN mailbox' : /\ i \in Nat /\ i >= 1
                                    /\ i + 1 \in DOMAIN mailbox
                                    /\ mailbox'[i] = mailbox[i + 1]
      /\ \A i \in DOMAIN mailbox : i # 1 => /\ i - 1 \in DOMAIN mailbox'
                                           /\ mailbox'[i - 1] = mailbox[i]
  BY <1>1, MailOut
<1> HIDE DEF m
<1>5. /\ \A i \in DoneAt' : i + 1 \in DoneAt /\ i \in Nat /\ mailbox'[i] = mailbox[i + 1]
      /\ \A i \in DoneAt : /\ i # 1 /\ i \in Nat /\ i - 1 \in DoneAt'
                           /\ mailbox'[i - 1] = mailbox[i]
  BY <1>3, <1>4 DEF DoneAt
<1>6. Reported' = Reported
  BY <1>5 DEF Reported
<1>7. \A i, k \in DoneAt' : mailbox'[i].job = mailbox'[k].job => i = k
  BY <1>2, <1>5 DEF OneHolder
<1>8. /\ ToPush' = ToPush /\ Queued' = Queued /\ Held' = Held
      /\ toPush' = toPush /\ jobQueue' = jobQueue /\ wjob' = wjob
  BY DEF TakePairPut, moduleVars, ToPush, Queued, Held
<1>9. InFlight' = InFlight
  BY <1>6, <1>8 DEF InFlight
<1>10. OneHolder'
  BY <1>2, <1>6, <1>7, <1>8 DEF OneHolder
<1>11. ReportsTrail'
  <2> SUFFICES ASSUME NEW i \in PairAt', mailbox'[i].item.job \notin Held'
               PROVE  \E k \in DoneAt' : i < k /\ mailbox'[k].job = mailbox'[i].item.job
    BY DEF ReportsTrail
  <2>1. i + 1 \in PairAt /\ i \in Nat /\ mailbox'[i] = mailbox[i + 1]
    BY <1>4 DEF PairAt
  <2>2. PICK k \in DoneAt : i + 1 < k /\ mailbox[k].job = mailbox[i + 1].item.job
    BY <1>2, <1>8, <2>1 DEF ReportsTrail
  <2>3. k - 1 \in DoneAt' /\ mailbox'[k - 1] = mailbox[k] /\ i < k - 1
    BY <1>5, <2>1, <2>2
  <2> QED
    BY <2>1, <2>2, <2>3
<1>12. pair' = <<>> \/ mpc' = "merge"
  BY DEF TakePairPut
<1> QED
  BY <1>2, <1>9, <1>10, <1>11, <1>12
     DEF Accounted, CycleAccount, Counted, TakePairPut, Draining, InCycle,
         Undisturbed, control

(* The counter ends the drain when nothing is left, pieces included: each   *)
(* would trail a report still to come.                                      *)
LEMMA DrainedIsIdle ==
    ASSUME TypeOK, Accounted, Undisturbed, mpc = "drain", IsDone(progress)
    PROVE  Idle /\ progress.remaining = 0
<1>1. ReportsTrail /\ progress.remaining = Cardinality(InFlight)
  BY DEF Accounted, CycleAccount, InCycle
<1>2. progress.remaining = 0
  BY DEF IsDone, TypeOK, ManagerTypeOK, Progress
<1>3. InFlight = {}
  BY <1>1, <1>2, InFlightFinite, FS_EmptySet
<1>4. mailbox = <<>>
  <2> SUFFICES ASSUME mailbox # <<>> PROVE FALSE
    OBVIOUS
  <2>1. mailbox \in Seq(Message) /\ 1 \in DOMAIN mailbox
    BY EmptySeq, LenProperties DEF TypeOK, SharedTypeOK
  <2>2. mailbox[1] \in Message
    BY <2>1, ElementOfSeq, LenProperties
  <2>3. CASE 1 \in DoneAt
    BY <1>3, <2>3 DEF InFlight, Reported
  <2>4. CASE 1 \in PairAt
    <3>1. DoneAt = {} /\ Held = {}
      BY <1>3 DEF InFlight, Reported
    <3> QED
      BY <1>1, <2>4, <3>1 DEF ReportsTrail
  <2> QED
    BY <2>1, <2>2, <2>3, <2>4
       DEF DoneAt, PairAt, Message, JobDoneMessage, PairPutMessage
<1> QED
  BY <1>2, <1>3, <1>4, DryIsIdle DEF Dry

(* The sweep begins when the last report was received.                      *)
LEMMA LeaveAccounts ==
    ASSUME TypeOK, TypeOK', Accounted, Undisturbed, LeaveDrain, UNCHANGED moduleVars
    PROVE  Accounted'
<1>1. ~mstop /\ IsDone(progress) /\ mpc = "drain" /\ Counted /\ pair = <<>>
  BY DEF Accounted, CycleAccount, LeaveDrain, InCycle
<1>2. Idle /\ progress.remaining = 0
  BY <1>1, DrainedIsIdle
<1>3. Idle'
  BY <1>2 DEF Idle, LeaveDrain, sharedVars, moduleVars
<1>4. Waiting' = {}
  BY NoBucketsWaitNext DEF LeaveDrain
<1> QED
  BY <1>1, <1>2, <1>3, <1>4, IdleHoldsNext
     DEF Accounted, CycleAccount, Counted, LeaveDrain, InCycle, control

-----------------------------------------------------------------------------
(* The steps of the manager that leave a daemon undisturbed found it so.    *)
LEMMA CalmStep ==
    ASSUME ManagerNext, Undisturbed'
    PROVE  /\ Undisturbed
           /\ \/ PollTimesOut
              \/ \E r \in Request : Submit(r)
              \/ ManagerStep /\ ~MergeRaises /\ ~SweepRaises
<1>1. CASE PollTimesOut \/ \E r \in Request : Submit(r)
  BY <1>1 DEF PollTimesOut, Submit, managerVars, control, Undisturbed
<1>2. ~(StopManager \/ RedisFails \/ ManagerCrashes \/ MergeRaises \/ SweepRaises)
  BY DEF StopManager, RedisFails, ManagerCrashes, MergeRaises, SweepRaises,
         Abort, Undisturbed
<1>3. CASE ManagerStep
  <2>1. mpc # "crashed"
    BY <1>2, <1>3
       DEF ManagerStep, PollAccepts, PollLoses, ManagerExits, CollectFiles,
           CollectRaises, PushNextJob, TakeJobDone, TakePairPut, Draining,
           LeaveDrain, MergePair, PublishPair, SweepNext, Notify
  <2>2. disturbed => disturbed'
    BY <1>2, <1>3
       DEF ManagerStep, PollAccepts, PollLoses, ManagerExits, CollectFiles,
           CollectRaises, Abort, PushNextJob, TakeJobDone, TakePairPut,
           LeaveDrain, MergePair, PublishPair, SweepNext, Notify, control
  <2> QED
    BY <1>2, <1>3, <2>1, <2>2 DEF Undisturbed
<1> QED
  BY <1>1, <1>2, <1>3 DEF ManagerNext

(* A manager that finds nothing left over leaves nothing: it takes up a     *)
(* request, or gives one up before any job, or answers one.                 *)
LEMMA StaysAtRest ==
    ASSUME TypeOK, TypeOK', Accounted, Undisturbed, UNCHANGED moduleVars,
           PollAccepts \/ PollLoses \/ ManagerExits \/ CollectRaises \/ Notify
    PROVE  AtRest /\ AtRest'
<1>1. /\ mpc \in {"poll", "collect", "sweep"}
      /\ mpc = "sweep" => unpaired = {}
  BY DEF PollAccepts, PollLoses, ManagerExits, CollectRaises, Notify
<1>2. Idle /\ Waiting = {} /\ pair = <<>> /\ unpaired = {}
  BY <1>1, DryIsIdle DEF Accounted, InCycle
<1>3. /\ UNCHANGED <<jobQueue, mailbox, buckets, wjob>>
      /\ toPush' = <<>> /\ pair' = <<>> /\ unpaired' = {}
  BY <1>2 DEF PollAccepts, PollLoses, ManagerExits, CollectRaises, Notify, Abort,
              Unwind, sharedVars, moduleVars, cycleVars, Idle
<1>4. Idle' /\ Waiting' = {}
  BY <1>2, <1>3 DEF Idle, Waiting
<1> QED
  BY <1>2, <1>3, <1>4 DEF AtRest, TypeOK

(* No step of the manager puts the account wrong.                           *)
LEMMA ManagerAccounts ==
    ASSUME TypeOK, TypeOK', Accounted, ManagerNext, UNCHANGED moduleVars
    PROVE  Accounted'
<1> SUFFICES ASSUME Undisturbed' PROVE Accounted'
  BY DEF Accounted
<1>1. ASSUME UNCHANGED <<jobQueue, mailbox, mpc, current, toPush, buckets,
                         progress, pair, unpaired, mstop, disturbed>>
      PROVE  Accounted'
  <2>1. /\ ToPush' = ToPush /\ Queued' = Queued /\ Held' = Held
        /\ Reported' = Reported /\ DoneAt' = DoneAt /\ PairAt' = PairAt
        /\ Waiting' = Waiting
    BY <1>1 DEF ToPush, Queued, Held, Reported, DoneAt, PairAt, Waiting, moduleVars
  <2>2. InFlight' = InFlight /\ OneHolder' = OneHolder /\ ReportsTrail' = ReportsTrail
    BY <1>1, <2>1 DEF InFlight, OneHolder, ReportsTrail, moduleVars
  <2> QED
    BY <1>1, <2>1, <2>2
       DEF Accounted, Undisturbed, CycleAccount, Counted, InCycle, Dry
<1>2. CASE PollTimesOut \/ \E r \in Request : Submit(r)
  BY <1>1, <1>2 DEF PollTimesOut, Submit, managerVars, sharedVars, cycleVars, control
<1>3. Undisturbed
  BY CalmStep
<1>4. CASE PollAccepts \/ PollLoses \/ ManagerExits \/ CollectRaises \/ Notify
  <2>1. AtRest'
    BY <1>3, <1>4, StaysAtRest
  <2>2. mpc' \in {"poll", "collect", "stopped", "crashed"}
    BY <1>4 DEF PollAccepts, PollLoses, ManagerExits, CollectRaises, Notify, Abort,
                AnswerWith
  <2>3. ~mstop' \/ ManagerExits
    BY <1>3, <1>4 DEF PollAccepts, PollLoses, CollectRaises, Notify, Abort, AnswerWith,
                      Accounted, control
  <2>4. ~ManagerExits
    BY <1>3 DEF ManagerExits, Accounted
  <2> QED
    BY <2>1, <2>2, <2>3, <2>4, RestAccounts DEF InCycle, AtRest
<1>5. CASE MergePair \/ PublishPair \/ SweepNext
  <2>1. /\ UNCHANGED <<jobQueue, mailbox, current, toPush, buckets, progress,
                       mstop, disturbed, wjob>>
        /\ InCycle' = InCycle /\ (mpc' = "sweep" => mpc = "sweep")
    BY <1>5 DEF MergePair, PublishPair, SweepNext, sharedVars, moduleVars, control,
                InCycle
  <2>2. /\ ToPush' = ToPush /\ Queued' = Queued /\ Held' = Held
        /\ Reported' = Reported /\ DoneAt' = DoneAt /\ PairAt' = PairAt
        /\ Waiting' = Waiting
    BY <2>1 DEF ToPush, Queued, Held, Reported, DoneAt, PairAt, Waiting
  <2>3. InFlight' = InFlight /\ OneHolder' = OneHolder /\ ReportsTrail' = ReportsTrail
    BY <2>1, <2>2 DEF InFlight, OneHolder, ReportsTrail
  <2>4. /\ mpc' \notin {"merge", "publish"} => pair' = <<>>
        /\ mpc' # "sweep" => unpaired' = {}
    BY <1>3, <1>5 DEF Accounted, MergePair, PublishPair, SweepNext
  <2> QED
    BY <1>3, <2>1, <2>2, <2>3, <2>4
       DEF Accounted, CycleAccount, Counted, Dry
<1> QED
  BY <1>2, <1>3, <1>4, <1>5, CalmStep, CollectAccounts, PushAccounts, DoneAccounts,
     PieceAccounts, LeaveAccounts DEF ManagerStep

-----------------------------------------------------------------------------
(* The account of a cycle is right as long as nothing has cut a cycle short:*)
(* each job has one holder, the counter is the number of jobs in flight, and*)
(* between cycles there is neither job nor message.                         *)
THEOREM AccountCorrect == Spec => []Accounted
<1>1. Init => Accounted
  <2> SUFFICES ASSUME Init PROVE Accounted
    OBVIOUS
  <2>1. Idle /\ Waiting = {}
    BY NoBucketsWait DEF Init, SharedInit, ModuleInit, ManagerInit, Idle
  <2> QED
    BY <2>1, IdleHolds DEF Init, ManagerInit, Accounted, CycleAccount, InCycle
<1>2. TypeOK /\ TypeOK' /\ Accounted /\ [Next]_vars => Accounted'
  <2> SUFFICES ASSUME TypeOK, TypeOK', Accounted, [Next]_vars PROVE Accounted'
    OBVIOUS
  <2>1. CASE ManagerNext /\ UNCHANGED moduleVars
    BY <2>1, ManagerAccounts
  <2>2. CASE ModuleNext /\ UNCHANGED managerVars
    BY <2>2, WorkerAccounts DEF ModuleNext
  <2>3. CASE UNCHANGED vars
    <3>1. /\ ToPush' = ToPush /\ Queued' = Queued /\ Held' = Held
          /\ Reported' = Reported /\ DoneAt' = DoneAt /\ PairAt' = PairAt
          /\ Waiting' = Waiting
      BY <2>3 DEF vars, sharedVars, moduleVars, managerVars, ToPush, Queued, Held,
                  Reported, DoneAt, PairAt, Waiting
    <3> QED
      BY <2>3, <3>1 DEF vars, sharedVars, moduleVars, managerVars, Accounted,
                        Undisturbed, OneHolder, ReportsTrail, CycleAccount, Counted,
                        InCycle, Dry, InFlight
  <2>4. CASE Restart
    <3>1. Idle' /\ Waiting' = {}
      BY <2>4, NoBucketsWaitNext
         DEF Restart, ManagerStartsAgain, ModuleStartsAgain, LoseCurrent, Idle
    <3> QED
      BY <2>4, <3>1, RestAccounts
         DEF Restart, ManagerStartsAgain, LoseCurrent, InCycle
  <2> QED
    BY <2>1, <2>2, <2>3, <2>4 DEF Next
<1> QED
  BY <1>1, <1>2, TypeCorrect, PTL DEF Spec

(* When the counter ends the drain of a cycle nothing has cut short, no job *)
(* is queued or held and no PairPut trails its JobDone (manager.py,         *)
(* _drain_worker_messages).                                                 *)
THEOREM DrainEndsDry == Spec => CycleEndsDry
<1>1. TypeOK /\ TypeOK' /\ Accounted /\ [Next]_vars
      => [LeaveDrain /\ ~Interrupted =>
             jobQueue = <<>> /\ mailbox = <<>> /\ \A w \in Worker : wjob[w] = None]_vars
  <2> SUFFICES ASSUME TypeOK, Accounted, LeaveDrain, ~Interrupted
               PROVE  Idle
    BY DEF Idle
  <2>1. Undisturbed /\ mpc = "drain"
    BY DEF LeaveDrain, Undisturbed, Interrupted
  <2>2. ~mstop
    BY <2>1 DEF Accounted
  <2> QED
    BY <2>1, <2>2, DrainedIsIdle DEF LeaveDrain
<1> QED
  BY <1>1, TypeCorrect, AccountCorrect, PTL DEF Spec, CycleEndsDry

(* A request becomes a success, whole or partial, in one way.               *)
LEMMA AnswerIsNotified ==
    ASSUME TypeOK, [Next]_vars, NEW r \in Request, NEW a \in {"success", "partial"},
           Answers(r, a)
    PROVE  /\ Notify /\ UNCHANGED moduleVars
           /\ r = current /\ (a = "success" => progress.failure = 0)
<1> USE DEF Answers
<1>0. status \in [Request -> Status] /\ inbox \in Seq(Request)
  BY DEF TypeOK, ManagerTypeOK
<1>1. ASSUME NEW b \in {"unlisted", "aborted"}, AnswerWith(b) PROVE FALSE
  BY <1>0, <1>1 DEF AnswerWith
<1>2. CASE Notify /\ UNCHANGED moduleVars
  <2>1. status' = [status EXCEPT ![current] =
                      IF progress.failure > 0 THEN "partial" ELSE "success"]
    BY <1>2 DEF Notify, AnswerWith
  <2>2. r = current /\ (a = "success" => ~(progress.failure > 0))
    BY <1>0, <2>1
  <2> QED
    BY <1>2, <2>2 DEF TypeOK, ManagerTypeOK, Progress
<1>3. CASE CollectRaises \/ MergeRaises \/ SweepRaises
  BY <1>1, <1>3 DEF CollectRaises, MergeRaises, SweepRaises, Abort
<1>4. CASE LoseCurrent
  BY <1>0, <1>4 DEF LoseCurrent
<1>5. ASSUME NEW x \in Request, NEW b \in {"queued", "running", "dropped", "lost"},
             status' = [status EXCEPT ![x] = b]
      PROVE  FALSE
  BY <1>0, <1>5
<1>6. CASE PollAccepts \/ PollLoses \/ RedisFails \/ \E x \in Request : Submit(x)
  <2>1. inbox # <<>> => Head(inbox) \in Request
    BY <1>0, PopType
  <2> QED
    BY <1>5, <1>6, <2>1 DEF PollAccepts, PollLoses, RedisFails, Submit
<1>7. CASE UNCHANGED status
  BY <1>7
<1> QED
  BY <1>2, <1>3, <1>4, <1>6, <1>7
     DEF Next, ManagerNext, ManagerStep, Restart, ManagerStartsAgain,
         ManagerCrashes, PollTimesOut, ManagerExits, CollectFiles, PushNextJob,
         TakeJobDone, TakePairPut, LeaveDrain, MergePair, PublishPair, SweepNext,
         StopManager, managerVars, vars

(* Success is notified only when every job of the request was reported, and *)
(* reported a success (manager.py, _handle_request).                        *)
THEOREM SuccessIsWhole == Spec => SuccessMeansProcessed
<1>1. /\ TypeOK /\ Accounted /\ [Next]_vars
      => [\A r \in Request : Answers(r, "success") /\ ~Interrupted =>
             /\ JobsOf(r) \cap InFlight = {}
             /\ progress.success = Len(Folder[r])]_vars
  <2> SUFFICES ASSUME TypeOK, Accounted, [Next]_vars, NEW r \in Request,
                      Answers(r, "success"), ~Interrupted
               PROVE  /\ JobsOf(r) \cap InFlight = {}
                      /\ progress.success = Len(Folder[r])
    OBVIOUS
  <2>1. Notify /\ r = current /\ progress.failure = 0
    BY AnswerIsNotified
  <2>2. Undisturbed /\ mpc = "sweep"
    BY <2>1 DEF Notify, Undisturbed, Interrupted
  <2>3. InFlight = {} /\ progress.remaining = 0 /\ Counted
    BY <2>2 DEF Accounted, InCycle, Dry
  <2> QED
    BY <2>1, <2>3 DEF Counted, TypeOK, ManagerTypeOK, Progress
<1> QED
  BY <1>1, TypeCorrect, AccountCorrect, PTL DEF Spec, SuccessMeansProcessed

=============================================================================
