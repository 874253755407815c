----------------------------- MODULE PieceProofs -----------------------------
(***************************************************************************)
(* That the pieces of a second find each other: each is sent once, is in   *)
(* one place at a time, and meets only the other half of its second, for   *)
(* every set of files, requests and workers and every kind of fault.       *)
(***************************************************************************)
EXTENDS AccountingProofs

(* A step that brings no new piece, sends none twice and gives no worker a  *)
(* job whose pieces are out already keeps each piece in one place.  d is 1  *)
(* where the first message of the mailbox has been taken out.               *)
LEMMA NoNewPiece ==
    ASSUME PieceOnce, current' = current, Taken' \subseteq Taken,
           \A k \in Second : Range(buckets'[k]) \subseteq Range(buckets[k]),
           NEW d \in {0, 1},
           \A i \in PairAt' : /\ i \in Nat /\ i + d \in PairAt
                              /\ mailbox'[i] = mailbox[i + d],
           ToSplit' \subseteq ToSplit,
           \A v \in Sending' :
               \/ v \in Sending /\ wjob'[v] = wjob[v] /\ wpair'[v] \subseteq wpair[v]
               \/ wjob'[v] \in ToSplit
    PROVE  PieceOnce'
<1>1. OnTheWay' \subseteq OnTheWay
  BY DEF OnTheWay
<1>2. InPlay' \subseteq InPlay
  BY <1>1 DEF InPlay
<1>3. \A x \in InPlay' : WellMade(x)'
  BY <1>2 DEF PieceOnce, WellMade, JobsOf
<1>4. \A i \in PairAt' : mailbox'[i].key = mailbox'[i].item.out
  BY DEF PieceOnce
<1>5. \A k \in Second : \A x \in Range(buckets'[k]) : x.out = k
  BY DEF PieceOnce
<1>6. \A i, k \in PairAt' : mailbox'[i].item = mailbox'[k].item => i = k
  <2> SUFFICES ASSUME NEW i \in PairAt', NEW k \in PairAt',
                      mailbox'[i].item = mailbox'[k].item
               PROVE  i = k
    OBVIOUS
  <2>1. i + d = k + d /\ i \in Nat /\ k \in Nat
    BY DEF PieceOnce
  <2> QED
    BY <2>1
<1>7. OnTheWay' \cap Taken' = {}
  BY <1>1 DEF PieceOnce
<1>8. ASSUME NEW v \in Sending', NEW s \in wpair'[v]
      PROVE  Piece(wjob'[v], s) \notin InPlay'
  <2>1. CASE wjob'[v] \in ToSplit
    BY <1>2, <2>1 DEF PieceOnce, Piece
  <2>2. CASE v \in Sending /\ wjob'[v] = wjob[v] /\ wpair'[v] \subseteq wpair[v]
    BY <1>2, <1>8, <2>2 DEF PieceOnce
  <2> QED
    BY <2>1, <2>2
<1>9. \A x \in InPlay' : x.job \notin ToSplit'
  BY <1>2 DEF PieceOnce
<1> QED
  BY <1>3, <1>4, <1>5, <1>6, <1>7, <1>8, <1>9 DEF PieceOnce

(* No piece is on its way and no worker has any to send.                    *)
NoPiece == InPlay = {} /\ Sending = {}

(* With nothing in play and no worker at work there is nothing to violate.  *)
LEMMA NothingInPlay == AtRest /\ ModuleTypeOK => NoPiece /\ PieceOnce
<1> SUFFICES ASSUME AtRest, ModuleTypeOK PROVE NoPiece /\ PieceOnce
  OBVIOUS
<1> USE DEF AtRest
<1>1. InPlay = {} /\ PairAt = {}
  BY DEF InPlay, OnTheWay, PairAt, Taken, Paired, Unpaired, Idle, Range
<1>2. \A k \in Second : Range(buckets[k]) = {}
  <2> SUFFICES ASSUME NEW k \in Second, NEW x \in Range(buckets[k]) PROVE FALSE
    OBVIOUS
  <2>1. x \in Waiting
    BY DEF Waiting
  <2> QED
    BY <2>1
<1>3. Sending = {}
  BY SharedAssumption DEF Sending, Idle, ModuleTypeOK, AtWork
<1>4. OnTheWay = {}
  BY <1>1 DEF OnTheWay
<1> QED
  BY <1>1, <1>2, <1>3, <1>4 DEF PieceOnce, NoPiece

(* Of the next state the same.                                              *)
LEMMA NothingInPlayNext == AtRest' /\ ModuleTypeOK' => NoPiece' /\ PieceOnce'
BY NothingInPlay, PTL

(* The jobs in a worker's hands are of the cycle, and in nobody else's.     *)
LEMMA HeldJob ==
    ASSUME TypeOK, Accounted, Undisturbed, NEW w \in Worker, wjob[w] \in Job
    PROVE  /\ wjob[w] \in JobsOf(current) /\ InCycle
           /\ wjob[w] \notin ToPush \cup Queued
           /\ \A v \in Worker : wjob[v] = wjob[w] => v = w
<1>1. wjob[w] \in Held /\ wjob[w] # None
  BY SharedAssumption DEF Held
<1>2. wjob[w] \in InFlight
  BY <1>1 DEF InFlight
<1>3. InCycle
  BY <1>2 DEF Accounted, Dry
<1> QED
  BY <1>1, <1>2, <1>3 DEF Accounted, CycleAccount, OneHolder

(* A piece in play is an item, wherever it is.                              *)
LEMMA PieceIsItem ==
    ASSUME TypeOK, NEW x \in InPlay
    PROVE  x \in Item
<1> USE DEF TypeOK
<1>1. CASE x \in OnTheWay
  <2>1. PICK i \in PairAt : x = mailbox[i].item
    BY <1>1 DEF OnTheWay
  <2>2. mailbox[i] \in Message /\ mailbox[i].type = "WORKER_PAIR_PUT"
    BY ElementOfSeq, LenProperties DEF PairAt, SharedTypeOK
  <2> QED
    BY <2>1, <2>2 DEF Message, JobDoneMessage, PairPutMessage
<1>2. CASE x \in Waiting
  <2>1. PICK k \in Second : x \in Range(buckets[k])
    BY <1>2 DEF Waiting
  <2> QED
    BY <2>1, ElementOfSeq, LenProperties DEF Range, ManagerTypeOK
<1>3. CASE x \in Paired
  BY <1>3, ElementOfSeq, LenProperties DEF Paired, Range, ManagerTypeOK
<1>4. CASE x \in Unpaired
  <2>1. PICK b \in unpaired : x = b[1]
    BY <1>4 DEF Unpaired
  <2>2. b \in Seq(Item) /\ b # <<>>
    BY DEF ManagerTypeOK
  <2> QED
    BY <2>1, <2>2, HeadTailProperties, EmptySeq, ElementOfSeq
<1> QED
  BY <1>1, <1>2, <1>3, <1>4 DEF InPlay, Taken

-----------------------------------------------------------------------------
(* What a step of a worker does to the pieces.                              *)

(* A PairPut brings its piece into play.                                    *)
LEMMA PieceSent ==
    ASSUME TypeOK, NEW w \in Worker, SendPair(w), UNCHANGED managerVars
    PROVE  \E s \in wpair[w] :
               /\ InPlay' = InPlay \cup {Piece(wjob[w], s)}
               /\ wpc[w] = "deliver" /\ wpc' = wpc /\ s \in Span[wjob[w].file]
               /\ wpair' = [wpair EXCEPT ![w] = @ \ {s}]
               /\ UNCHANGED <<jobQueue, rawCopy, cache, object, wjob, wmid>>
<1> USE DEF TypeOK
<1>1. PICK s \in wpair[w] :
        /\ wpc[w] = "deliver" /\ wpc' = [wpc EXCEPT ![w] = "deliver"]
        /\ mailbox' = Append(mailbox, PairPut(s, Piece(wjob[w], s)))
        /\ wpair' = [wpair EXCEPT ![w] = @ \ {s}]
        /\ UNCHANGED <<jobQueue, rawCopy, cache, object, wjob, wmid>>
  BY DEF SendPair, Goto, Send, Piece
<1> DEFINE x == Piece(wjob[w], s)
           m == PairPut(s, x)
           n == Len(mailbox) + 1
<1>2. /\ wjob[w] \in Job /\ wjob[w].file \in File /\ s \in Span[wjob[w].file]
      /\ wpc' = wpc
  BY <1>1 DEF ModuleTypeOK, AtWork, Job, Unprocessed
<1>3. m \in Message /\ m.type = "WORKER_PAIR_PUT" /\ m.item = x
  BY <1>2, SegmentPlaces DEF Piece, PairPut, Message, PairPutMessage, Item
<1> HIDE DEF x, m
<1>4. /\ mailbox'[n] = m /\ PairAt' = PairAt \cup {n}
      /\ \A i \in PairAt : mailbox'[i] = mailbox[i]
  BY <1>1, <1>3, MailIn DEF PairAt, m, x, SharedTypeOK
<1>5. OnTheWay' = OnTheWay \cup {x}
  BY <1>3, <1>4 DEF OnTheWay
<1>6. Taken' = Taken
  BY DEF managerVars, Taken, Waiting, Paired, Unpaired
<1> QED
  BY <1>1, <1>2, <1>5, <1>6 DEF InPlay, x

(* No other message of a worker is a piece.                                 *)
LEMMA NothingSent ==
    ASSUME TypeOK, NEW w \in Worker, ~SendPair(w),
           WorkerStep(w) \/ WorkerCrashes(w) \/ StopWorker(w)
    PROVE  PairAt' = PairAt /\ \A i \in PairAt : mailbox'[i] = mailbox[i]
<1>1. ASSUME NEW ok \in BOOLEAN, Report(w, ok)
      PROVE  PairAt' = PairAt /\ \A i \in PairAt : mailbox'[i] = mailbox[i]
  <2>1. wjob[w] \in Job /\ mailbox' = Append(mailbox, JobDone(wjob[w], ok))
    BY <1>1 DEF Report, Goto, Send, TypeOK, ModuleTypeOK, AtWork
  <2>2. /\ JobDone(wjob[w], ok) \in Message
        /\ JobDone(wjob[w], ok).type = "WORKER_JOB_DONE"
    BY <2>1 DEF JobDone, Message, JobDoneMessage
  <2> QED
    BY <2>1, <2>2, MailIn DEF PairAt, TypeOK, SharedTypeOK
<1>2. Report(w, TRUE) \/ Report(w, FALSE) \/ UNCHANGED mailbox
  BY DEF WorkerStep, TakeJob, WorkerExits, Download, Split, UploadMid, DownloadRaises,
         SplitRaises, UploadRaises, WorkerCrashes, StopWorker, sharedVars
<1> QED
  BY <1>1, <1>2 DEF PairAt

(* No other step of a worker brings a piece into play.                      *)
LEMMA NoPieceSent ==
    ASSUME TypeOK, NEW w \in Worker, UNCHANGED managerVars, ~SendPair(w),
           WorkerStep(w) \/ WorkerCrashes(w) \/ StopWorker(w)
    PROVE  InPlay' = InPlay
<1>1. Taken' = Taken
  BY DEF managerVars, Taken, Waiting, Paired, Unpaired
<1>2. OnTheWay' = OnTheWay
  BY NothingSent DEF OnTheWay
<1> QED
  BY <1>1, <1>2 DEF InPlay

(* What is still to be split is split once, and what a worker has still to  *)
(* send is sent.                                                            *)
LEMMA WorkerMoves ==
    ASSUME TypeOK, NEW w \in Worker, UNCHANGED managerVars,
           WorkerStep(w) \/ WorkerCrashes(w) \/ StopWorker(w)
    PROVE  /\ ToSplit' \subseteq ToSplit
           /\ \A v \in Sending' :
                 \/ /\ v \in Sending /\ wjob'[v] = wjob[v]
                    /\ wmid'[v] \subseteq wmid[v] /\ wpair'[v] \subseteq wpair[v]
                 \/ v = w /\ Split(w) /\ wjob'[w] = wjob[w] /\ wjob[w] \in ToSplit
<1> USE DEF TypeOK
<1>1. ToPush' = ToPush
  BY DEF managerVars, ToPush
<1>2. CASE TakeJob(w)
  <2>1. jobQueue \in Seq(Job) /\ jobQueue # <<>> /\ jobQueue' = Tail(jobQueue)
    BY <1>2 DEF TakeJob, PopJob, SharedTypeOK
  <2>2. Queued = Queued' \cup {Head(jobQueue)}
    BY <2>1, PopOnce, QueuedIsRange, QueuedIsRangeNext
  <2>3. /\ wpc[w] = "idle" /\ wpc' = [wpc EXCEPT ![w] = "download"]
        /\ wjob' = [wjob EXCEPT ![w] = Head(jobQueue)]
        /\ wpair' = wpair /\ wmid' = wmid
    BY <1>2 DEF TakeJob, Goto
  <2>4. ToSplit' \subseteq ToSplit
    BY <1>1, <2>2, <2>3 DEF ToSplit, ModuleTypeOK
  <2> QED
    BY <2>3, <2>4 DEF Sending, ModuleTypeOK
<1>3. CASE Split(w)
  <2>1. /\ wpc[w] = "split" /\ wpc' = [wpc EXCEPT ![w] = "deliver"]
        /\ UNCHANGED <<jobQueue, wjob>>
        /\ \A v \in Worker : v # w => wmid'[v] = wmid[v] /\ wpair'[v] = wpair[v]
    BY <1>3 DEF Split, Goto, ModuleTypeOK
  <2>2. Queued' = Queued
    BY <2>1 DEF Queued
  <2>3. ToSplit' \subseteq ToSplit /\ wjob[w] \in ToSplit
    BY <1>1, <2>1, <2>2 DEF ToSplit, ModuleTypeOK
  <2>4. \A v \in Sending' : v # w => v \in Sending
    BY <2>1 DEF Sending, ModuleTypeOK
  <2> QED
    BY <1>3, <2>1, <2>3, <2>4 DEF Sending
<1>4. ASSUME NEW ok \in BOOLEAN, Report(w, ok)
      PROVE  /\ ToSplit' \subseteq ToSplit
             /\ \A v \in Sending' :
                   /\ v \in Sending /\ wjob'[v] = wjob[v]
                   /\ wmid'[v] = wmid[v] /\ wpair'[v] = wpair[v]
  <2>1. /\ wpc' = [wpc EXCEPT ![w] = "idle"] /\ wjob' = [wjob EXCEPT ![w] = None]
        /\ UNCHANGED <<jobQueue, wmid, wpair>>
    BY <1>4 DEF Report, Goto
  <2> QED
    BY <1>1, <2>1 DEF ToSplit, Queued, Sending, ModuleTypeOK
<1>5. CASE \/ WorkerExits(w) \/ Download(w) \/ UploadMid(w) \/ SendPair(w)
           \/ DownloadRaises(w) \/ SplitRaises(w) \/ UploadRaises(w)
           \/ WorkerCrashes(w) \/ StopWorker(w)
  <2>1. /\ UNCHANGED <<jobQueue, wjob>>
        /\ \E pc \in WorkerPc :
              /\ wpc' = [wpc EXCEPT ![w] = pc]
              /\ pc \in {"download", "split"} => wpc[w] \in {"download", "split"}
              /\ pc = "deliver" => wpc[w] = "deliver"
        /\ \E mid \in SUBSET wmid[w] : wmid' = [wmid EXCEPT ![w] = mid]
        /\ \E halves \in SUBSET wpair[w] : wpair' = [wpair EXCEPT ![w] = halves]
    <3>1. /\ wpc = [wpc EXCEPT ![w] = wpc[w]] /\ wpc[w] \in WorkerPc
          /\ wmid = [wmid EXCEPT ![w] = wmid[w]]
          /\ wpair = [wpair EXCEPT ![w] = wpair[w]]
      BY DEF ModuleTypeOK
    <3>2. CASE UploadMid(w)
      BY <3>1, <3>2 DEF UploadMid, Goto, sharedVars
    <3>3. CASE SendPair(w)
      BY <3>1, <3>3 DEF SendPair, Goto, sharedVars
    <3>4. CASE UploadRaises(w)
      BY <3>1, <3>4 DEF UploadRaises, Goto, sharedVars, WorkerPc
    <3>5. CASE WorkerExits(w) \/ Download(w) \/ DownloadRaises(w) \/ SplitRaises(w)
      BY <3>1, <3>5 DEF WorkerExits, Download, DownloadRaises, SplitRaises, Goto,
                        sharedVars, WorkerPc
    <3>6. CASE WorkerCrashes(w) \/ StopWorker(w)
      BY <3>1, <3>6 DEF WorkerCrashes, StopWorker, sharedVars, WorkerPc
    <3> QED
      BY <1>5, <3>2, <3>3, <3>4, <3>5, <3>6
  <2>2. Queued' = Queued
    BY <2>1 DEF Queued
  <2>3. ToSplit' \subseteq ToSplit
    BY <1>1, <2>1, <2>2 DEF ToSplit, ModuleTypeOK
  <2> QED
    BY <2>1, <2>3 DEF Sending, ModuleTypeOK
<1> QED
  BY <1>2, <1>3, <1>4, <1>5 DEF WorkerStep

(* No step of a worker sends a piece twice.                                 *)
LEMMA WorkerPieces ==
    ASSUME TypeOK, TypeOK', Accounted, Undisturbed, PieceOnce,
           NEW w \in Worker, UNCHANGED managerVars,
           WorkerStep(w) \/ WorkerCrashes(w) \/ StopWorker(w)
    PROVE  PieceOnce'
<1> USE DEF TypeOK
<1>1. /\ Taken' = Taken /\ current' = current /\ buckets' = buckets
      /\ ToPush' = ToPush
  BY DEF managerVars, Taken, Waiting, Paired, Unpaired, ToPush
<1>2. mailbox \in Seq(Message) /\ \A i \in DOMAIN mailbox : i \in Nat
  BY LenProperties DEF SharedTypeOK
<1>3. CASE ~SendPair(w)
  <2>1. PairAt' = PairAt /\ \A i \in PairAt : mailbox'[i] = mailbox[i]
    BY <1>3, NothingSent
  <2>2. \A i \in PairAt' : i \in Nat /\ i + 0 \in PairAt /\ mailbox'[i] = mailbox[i + 0]
    BY <1>2, <2>1 DEF PairAt
  <2>3. /\ ToSplit' \subseteq ToSplit
        /\ \A v \in Sending' :
              \/ v \in Sending /\ wjob'[v] = wjob[v] /\ wpair'[v] \subseteq wpair[v]
              \/ wjob'[v] \in ToSplit
    BY WorkerMoves
  <2> QED
    BY <1>1, <2>2, <2>3, NoNewPiece
<1>4. CASE SendPair(w)
  <2>1. PICK s \in wpair[w] :
          /\ wpc[w] = "deliver" /\ wpc' = [wpc EXCEPT ![w] = "deliver"]
          /\ mailbox' = Append(mailbox, PairPut(s, Piece(wjob[w], s)))
          /\ wpair' = [wpair EXCEPT ![w] = @ \ {s}]
          /\ UNCHANGED <<jobQueue, wjob>>
    BY <1>4 DEF SendPair, Goto, Send, Piece
  <2> DEFINE j == wjob[w]
             x == Piece(j, s)
             m == PairPut(s, x)
             n == Len(mailbox) + 1
  <2>2. /\ j \in Job /\ j.file \in File /\ s \in Unprocessed(j.file)
        /\ s \in Span[j.file]
    BY <2>1 DEF ModuleTypeOK, AtWork, Job, Unprocessed
  <2>3. /\ x.src = SavePath(j.file, s) /\ x.out = s /\ x.job = j
        /\ m.key = s /\ m.item = x /\ m.type = "WORKER_PAIR_PUT"
    BY DEF Piece, PairPut
  <2>4. m \in Message
    BY <2>2, SegmentPlaces DEF Piece, PairPut, Message, PairPutMessage, Item
  <2>5. /\ j \in JobsOf(current) /\ j \notin ToPush \cup Queued
        /\ \A v \in Worker : wjob[v] = j => v = w
    BY <2>2, HeldJob
  <2>6. x \notin InPlay
    BY <2>1 DEF PieceOnce, Sending
  <2>7. WellMade(x)
    BY <2>2, <2>3, <2>5 DEF WellMade
  <2> HIDE DEF x, m, j
  <2>8. /\ mailbox'[n] = m /\ n \notin PairAt
        /\ \A i \in PairAt : mailbox'[i] = mailbox[i]
        /\ PairAt' = PairAt \cup {n}
    BY <1>2, <2>1, <2>3, <2>4, MailIn DEF PairAt, m, x, j
  <2>9. OnTheWay' = OnTheWay \cup {x}
    BY <2>3, <2>8 DEF OnTheWay
  <2>10. InPlay' = InPlay \cup {x}
    BY <1>1, <2>9 DEF InPlay
  <2>11. \A y \in InPlay' : WellMade(y)'
    BY <1>1, <2>7, <2>10 DEF PieceOnce, WellMade, JobsOf
  <2>12. \A i \in PairAt' : mailbox'[i].key = mailbox'[i].item.out
    BY <2>3, <2>8 DEF PieceOnce
  <2>13. \A i, k \in PairAt' : mailbox'[i].item = mailbox'[k].item => i = k
    BY <2>3, <2>6, <2>8 DEF PieceOnce, InPlay, OnTheWay
  <2>14. OnTheWay' \cap Taken' = {}
    BY <1>1, <2>6, <2>9 DEF PieceOnce, InPlay
  <2>15. ASSUME NEW v \in Sending', NEW t \in wpair'[v]
         PROVE  Piece(wjob'[v], t) \notin InPlay'
    <3>1. v \in Sending /\ t \in wpair[v] /\ wjob'[v] = wjob[v] /\ v \in Worker
      BY <2>1, <2>15 DEF Sending, ModuleTypeOK
    <3>2. Piece(wjob[v], t) \notin InPlay
      BY <3>1 DEF PieceOnce
    <3>3. CASE v = w
      <4>1. t # s
        BY <2>1, <2>15, <3>3 DEF ModuleTypeOK
      <4> QED
        BY <2>3, <2>10, <3>1, <3>2, <4>1 DEF Piece
    <3>4. CASE v # w
      <4>1. wjob[v] # j
        BY <2>5, <3>1, <3>4
      <4> QED
        BY <2>3, <2>10, <3>1, <3>2, <4>1 DEF Piece
    <3> QED
      BY <3>3, <3>4
  <2>16. ToSplit' = ToSplit
    BY <1>1, <2>1 DEF ToSplit, Queued, ModuleTypeOK
  <2>17. j \notin ToSplit
    BY <2>1, <2>5 DEF ToSplit, j
  <2>18. \A y \in InPlay' : y.job \notin ToSplit'
    BY <2>3, <2>10, <2>16, <2>17 DEF PieceOnce
  <2> QED
    BY <1>1, <2>11, <2>12, <2>13, <2>14, <2>15, <2>18 DEF PieceOnce
<1> QED
  BY <1>3, <1>4

-----------------------------------------------------------------------------
(* A bucket that is not empty, and not full, holds one piece.               *)
LEMMA OneElement ==
    ASSUME NEW S, NEW q \in Seq(S), q # <<>>, Len(q) <= 1, NEW x \in S
    PROVE  /\ Len(q) = 1 /\ q[1] \in S /\ Range(q) = {q[1]}
           /\ Append(q, x) = <<q[1], x>> /\ Len(Append(q, x)) = 2
<1>1. Len(q) \in Nat /\ Len(q) # 0
  BY EmptySeq
<1>2. Len(q) = 1
  BY <1>1, \A n \in Nat : n # 0 /\ n <= 1 => n = 1
<1>3. q[1] \in S
  BY <1>2, ElementOfSeq
<1>4. DOMAIN q = {1}
  BY <1>2, LenProperties
<1>5. Append(q, x) \in Seq(S) /\ Len(Append(q, x)) = 2
  <2>1. Append(q, x) \in Seq(S) /\ Len(Append(q, x)) = Len(q) + 1
    BY AppendProperties
  <2> QED
    BY <1>2, <2>1
<1>6. Append(q, x)[1] = q[1] /\ Append(q, x)[2] = x
  <2>1. /\ \A i \in 1 .. Len(q) : Append(q, x)[i] = q[i]
        /\ Append(q, x)[Len(q) + 1] = x
    BY AppendProperties
  <2>2. 1 \in 1 .. Len(q) /\ Len(q) + 1 = 2
    BY <1>2
  <2> QED
    BY <2>1, <2>2
<1>7. Append(q, x) = <<q[1], x>>
  <2> DEFINE a == Append(q, x)
             b == <<q[1], x>>
  <2>1. b \in Seq(S) /\ Len(b) = 2 /\ b[1] = q[1] /\ b[2] = x
    BY <1>3
  <2>2. \A i \in 1 .. 2 : a[i] = b[i]
    BY <1>6, <2>1, \A i \in 1 .. 2 : i = 1 \/ i = 2
  <2> HIDE DEF a, b
  <2> QED
    BY <1>5, <2>1, <2>2, SeqEqual DEF a, b
<1> QED
  BY <1>2, <1>3, <1>4, <1>5, <1>7 DEF Range

(* The piece a manager puts in a bucket is alone there or makes the pair.   *)
LEMMA PutTakes ==
    ASSUME NEW b \in [Second -> Seq(Item)], NEW k \in Second, NEW x \in Item,
           Len(b[k]) <= 1
    PROVE  LET put == Put(b, k, x)
           IN  /\ \A n \in Second : n # k => put.buckets[n] = b[n]
               /\ \/ /\ put.paired = <<>> /\ b[k] = <<>>
                     /\ Range(put.buckets[k]) = {x}
                  \/ /\ put.buckets[k] = <<>> /\ Len(b[k]) = 1
                     /\ put.paired = <<b[k][1], x>> /\ b[k][1] \in Item
<1>1. b[k] \in Seq(Item) /\ Len(b[k]) \in Nat
  BY LenProperties
<1>2. CASE b[k] = <<>>
  <2>1. Append(b[k], x) = <<x>> /\ Len(<<x>>) = 1
    BY <1>2
  <2>2. Range(<<x>>) = {x}
    BY DEF Range
  <2> QED
    BY <1>2, <2>1, <2>2 DEF Put
<1>3. CASE b[k] # <<>>
  <2>1. /\ Len(b[k]) = 1 /\ b[k][1] \in Item
        /\ Append(b[k], x) = <<b[k][1], x>> /\ Len(Append(b[k], x)) = 2
    BY <1>1, <1>3, OneElement
  <2> QED
    BY <2>1 DEF Put
<1> QED
  BY <1>2, <1>3

(* A piece taken from the mailbox is in a bucket or in the pair, and meets  *)
(* only the other half of its second.                                       *)
LEMMA PutPieces ==
    ASSUME TypeOK, TypeOK', Accounted, Undisturbed, SweepLosesNothing,
           PieceOnce, TwoHalves, TakePairPut, UNCHANGED moduleVars
    PROVE  PieceOnce' /\ TwoHalves' /\ InPlay' = InPlay
<1> DEFINE m == Head(mailbox)
           x == m.item
           k == m.key
           put == Put(buckets, k, x)
<1> USE DEF TypeOK
<1>1. mailbox \in Seq(Message) /\ mailbox # <<>> /\ mailbox' = Tail(mailbox)
  BY DEF TakePairPut, Receive, SharedTypeOK
<1>2. m.type = "WORKER_PAIR_PUT" /\ m \in PairPutMessage
  BY <1>1, PopType DEF TakePairPut, Message, JobDoneMessage
<1>3. /\ mailbox[1] = m /\ 1 \in DOMAIN mailbox
      /\ \A i \in DOMAIN mailbox : i \in Nat /\ i >= 1
      /\ \A i \in DOMAIN mailbox' : /\ i \in Nat /\ i >= 1
                                    /\ i + 1 \in DOMAIN mailbox
                                    /\ mailbox'[i] = mailbox[i + 1]
      /\ \A i \in DOMAIN mailbox : i # 1 => /\ i - 1 \in DOMAIN mailbox'
                                           /\ mailbox'[i - 1] = mailbox[i]
  BY <1>1, MailOut
<1>4. k \in Second /\ x \in Item
  BY <1>2 DEF PairPutMessage
<1>5. /\ buckets' = put.buckets /\ pair' = put.paired
      /\ mpc' = (IF put.paired = <<>> THEN "drain" ELSE "merge")
      /\ mpc = "drain" /\ current' = current /\ unpaired' = unpaired
      /\ UNCHANGED <<jobQueue, toPush, wpc, wjob, wpair>>
  BY DEF TakePairPut, Draining, moduleVars
<1>6. pair = <<>> /\ unpaired = {}
  BY <1>5 DEF Accounted
<1>7. buckets \in [Second -> Seq(Item)] /\ Len(buckets[k]) <= 1
  BY <1>4 DEF ManagerTypeOK, SweepLosesNothing
<1> HIDE DEF m
<1>8. /\ 1 \in PairAt
      /\ \A i \in PairAt' : /\ i + 1 \in PairAt /\ i + 1 # 1 /\ i \in Nat
                            /\ mailbox'[i] = mailbox[i + 1]
      /\ \A i \in PairAt : i # 1 => /\ i - 1 \in PairAt'
                                   /\ mailbox'[i - 1] = mailbox[i]
  BY <1>2, <1>3 DEF PairAt
<1>9. x \in OnTheWay /\ x \notin OnTheWay' /\ OnTheWay = OnTheWay' \cup {x}
  <2>1. x \in OnTheWay
    BY <1>3, <1>8 DEF OnTheWay
  <2>2. x \notin OnTheWay'
    BY <1>3, <1>8 DEF OnTheWay, PieceOnce
  <2>3. OnTheWay' \subseteq OnTheWay
    BY <1>8 DEF OnTheWay
  <2>4. OnTheWay \subseteq OnTheWay' \cup {x}
    BY <1>3, <1>8 DEF OnTheWay
  <2> QED
    BY <2>1, <2>2, <2>3, <2>4
<1>10. k = x.out
  BY <1>3, <1>8 DEF PieceOnce
<1> HIDE DEF x, k, put
<1>11. /\ \A n \in Second : n # k => put.buckets[n] = buckets[n]
       /\ \/ /\ put.paired = <<>> /\ buckets[k] = <<>>
             /\ Range(put.buckets[k]) = {x}
          \/ /\ put.buckets[k] = <<>> /\ Len(buckets[k]) = 1
             /\ put.paired = <<buckets[k][1], x>> /\ buckets[k][1] \in Item
  BY <1>4, <1>7, PutTakes DEF put
<1>12. Taken' = Taken \cup {x} /\ TwoHalves'
       /\ \A n \in Second : \A y \in Range(buckets'[n]) : y.out = n
  <2>1. CASE put.paired = <<>> /\ buckets[k] = <<>> /\ Range(put.buckets[k]) = {x}
    <3>1. Waiting' = Waiting \cup {x}
      <4>1. ASSUME NEW y \in Waiting PROVE y \in Waiting'
        <5>1. PICK n \in Second : y \in Range(buckets[n])
          BY <4>1 DEF Waiting
        <5>2. n # k
          BY <2>1, <5>1 DEF Range
        <5> QED
          BY <1>5, <1>11, <5>1, <5>2 DEF Waiting
      <4>2. ASSUME NEW y \in Waiting' PROVE y \in Waiting \cup {x}
        <5>1. PICK n \in Second : y \in Range(buckets'[n])
          BY <4>2 DEF Waiting
        <5> QED
          BY <1>5, <1>11, <2>1, <5>1 DEF Waiting
      <4>3. x \in Waiting'
        BY <1>4, <1>5, <2>1 DEF Waiting
      <4> QED
        BY <4>1, <4>2, <4>3
    <3>2. Paired' = Paired /\ Unpaired' = Unpaired
      BY <1>5, <1>6, <2>1 DEF Paired, Unpaired
    <3>3. mpc' = "drain"
      BY <1>5, <2>1
    <3>4. TwoHalves'
      BY <1>5, <3>3 DEF TwoHalves
    <3>5. \A n \in Second : \A y \in Range(buckets'[n]) : y.out = n
      BY <1>5, <1>10, <1>11, <2>1 DEF PieceOnce
    <3> QED
      BY <3>1, <3>2, <3>4, <3>5 DEF Taken
  <2>2. CASE /\ put.buckets[k] = <<>> /\ Len(buckets[k]) = 1
             /\ put.paired = <<buckets[k][1], x>> /\ buckets[k][1] \in Item
    <3> DEFINE y == buckets[k][1]
    <3>1. Range(buckets[k]) = {y} /\ y \in Waiting
      <4>1. buckets[k] = <<y>>
        BY <1>4, <1>7, <2>2
      <4>2. Range(buckets[k]) = {y}
        BY <4>1 DEF Range
      <4> QED
        BY <1>4, <4>2 DEF Waiting
    <3> HIDE DEF y
    <3>2. pair' = <<y, x>> /\ mpc' = "merge"
      BY <1>5, <2>2 DEF y
    <3>3. Paired' = {x, y} /\ Paired = {} /\ Unpaired' = Unpaired
      BY <1>5, <1>6, <3>2 DEF Paired, Unpaired, Range
    <3>4. Waiting \subseteq Waiting' \cup {y} /\ Waiting' \subseteq Waiting
      <4>1. ASSUME NEW z \in Waiting PROVE z \in Waiting' \cup {y}
        <5>1. PICK n \in Second : z \in Range(buckets[n])
          BY <4>1 DEF Waiting
        <5> QED
          BY <1>5, <1>11, <3>1, <5>1 DEF Waiting
      <4>2. ASSUME NEW z \in Waiting' PROVE z \in Waiting
        <5>1. PICK n \in Second : z \in Range(buckets'[n])
          BY <4>2 DEF Waiting
        <5>2. n # k
          BY <1>5, <2>2, <5>1 DEF Range
        <5> QED
          BY <1>5, <1>11, <5>1, <5>2 DEF Waiting
      <4> QED
        BY <4>1, <4>2
    <3>5. Taken' = Taken \cup {x}
      BY <3>1, <3>3, <3>4 DEF Taken
    <3>6. y.out = k /\ y # x
      BY <1>4, <1>9, <3>1 DEF PieceOnce, Taken
    <3>7. y.job # x.job
      <4>1. y = Piece(y.job, y.out) /\ x = Piece(x.job, x.out)
        BY <1>9, <3>1 DEF PieceOnce, InPlay, Taken, WellMade
      <4> QED
        BY <1>10, <3>6, <4>1
    <3>8. TwoHalves'
      <4>1. buckets'[y.out] = <<>>
        BY <1>5, <2>2, <3>6
      <4>2. pair'[1] = y /\ pair'[2] = x /\ Len(pair') = 2
        BY <3>2
      <4> QED
        BY <1>5, <1>10, <3>2, <3>6, <3>7, <4>1, <4>2 DEF TwoHalves
    <3>9. \A n \in Second : \A z \in Range(buckets'[n]) : z.out = n
      <4>1. Range(buckets'[k]) = {}
        BY <1>5, <2>2 DEF Range
      <4> QED
        BY <1>5, <1>11, <4>1 DEF PieceOnce
    <3> QED
      BY <3>5, <3>8, <3>9
  <2> QED
    BY <1>11, <2>1, <2>2
<1>13. InPlay' = InPlay
  BY <1>9, <1>12 DEF InPlay
<1>14. PieceOnce'
  <2>1. ToSplit' = ToSplit /\ Sending' = Sending
    BY <1>5 DEF ToSplit, ToPush, Queued, Sending
  <2>2. \A y \in InPlay' : WellMade(y)'
    BY <1>5, <1>13 DEF PieceOnce, WellMade, JobsOf
  <2>3. \A i \in PairAt' : mailbox'[i].key = mailbox'[i].item.out
    BY <1>8 DEF PieceOnce
  <2>4. \A i, j \in PairAt' : mailbox'[i].item = mailbox'[j].item => i = j
    <3> SUFFICES ASSUME NEW i \in PairAt', NEW j \in PairAt',
                        mailbox'[i].item = mailbox'[j].item
                 PROVE  i = j
      OBVIOUS
    <3>1. i + 1 = j + 1 /\ i \in Nat /\ j \in Nat
      BY <1>8 DEF PieceOnce
    <3> QED
      BY <3>1
  <2>5. OnTheWay' \cap Taken' = {}
    BY <1>9, <1>12 DEF PieceOnce
  <2> QED
    BY <1>5, <1>12, <1>13, <2>1, <2>2, <2>3, <2>4, <2>5 DEF PieceOnce
<1> QED
  BY <1>12, <1>13, <1>14

-----------------------------------------------------------------------------
(* A manager that touches no message keeps the pieces where they are, or    *)
(* lets go of some; what it pushes was to be split before.                  *)
LEMMA ManagerKeeps ==
    ASSUME TypeOK, PieceOnce, current' = current, Taken' \subseteq Taken,
           \A k \in Second : Range(buckets'[k]) \subseteq Range(buckets[k]),
           UNCHANGED <<mailbox, wpc, wjob, wpair>>,
           ToPush' \cup Queued' \subseteq ToPush \cup Queued
    PROVE  PieceOnce'
<1>1. \A i \in PairAt' : i \in Nat /\ i + 0 \in PairAt /\ mailbox'[i] = mailbox[i + 0]
  <2>1. PairAt' = PairAt /\ \A i \in PairAt : i \in Nat
    BY LenProperties DEF PairAt, TypeOK, SharedTypeOK
  <2> QED
    BY <2>1
<1>2. ToSplit' \subseteq ToSplit
  BY DEF ToSplit
<1>3. Sending' = Sending
  BY DEF Sending
<1> QED
  BY <1>1, <1>2, <1>3, NoNewPiece

(* The job pushed was the manager's.                                        *)
LEMMA PushMoves ==
    ASSUME TypeOK, PushNextJob
    PROVE  ToPush' \cup Queued' \subseteq ToPush \cup Queued
<1> DEFINE j == [req |-> current, file |-> Head(toPush)]
<1>1. /\ toPush \in Seq(File) /\ toPush # <<>> /\ toPush' = Tail(toPush)
      /\ current \in Request /\ current' = current
      /\ jobQueue \in Seq(Job) /\ jobQueue' = Append(jobQueue, j)
  BY DEF PushNextJob, PushJob, TypeOK, SharedTypeOK, ManagerTypeOK, Handling
<1>2. j \in Job
  BY <1>1, PopType DEF Job
<1>3. Range(toPush) = Range(toPush') \cup {Head(toPush)}
  BY <1>1, PopOnce
<1>4. ToPush = ToPush' \cup {j}
  BY <1>1, <1>3, QueuedIsRange, QueuedIsRangeNext
<1> HIDE DEF j
<1>5. Queued' = Queued \cup {j}
  BY <1>1, <1>2, PushOnce, QueuedIsRange, QueuedIsRangeNext
<1> QED
  BY <1>4, <1>5

(* At the end of the drain the pieces left in the buckets are the sweep's,  *)
(* at most one of a second.                                                 *)
LEMMA LeavePieces ==
    ASSUME TypeOK, TypeOK', Accounted, Undisturbed, SweepLosesNothing,
           PieceOnce, LeaveDrain, UNCHANGED moduleVars
    PROVE  PieceOnce' /\ TwoHalves' /\ InPlay' = InPlay
<1>1. /\ unpaired' = Remaining(buckets) /\ buckets' = NoBuckets(Second)
      /\ mpc = "drain" /\ mpc' = "sweep" /\ pair' = pair /\ current' = current
      /\ UNCHANGED <<jobQueue, mailbox, toPush, wpc, wjob, wpair>>
  BY DEF LeaveDrain, sharedVars, moduleVars
<1>2. pair = <<>> /\ unpaired = {}
  BY <1>1 DEF Accounted
<1>3. \A k \in Second : Range(buckets'[k]) = {}
  BY <1>1 DEF NoBuckets, Range
<1>4. \A b \in unpaired' : \E k \in Second :
          b = buckets[k] /\ b # <<>> /\ Range(b) = {b[1]}
  <2> SUFFICES ASSUME NEW k \in Second, buckets[k] # <<>>
               PROVE  Range(buckets[k]) = {buckets[k][1]}
    BY <1>1 DEF Remaining, TypeOK, ManagerTypeOK
  <2>1. buckets[k] \in Seq(Item) /\ Len(buckets[k]) <= 1
    BY DEF TypeOK, ManagerTypeOK, SweepLosesNothing
  <2>2. buckets[k][1] \in Item
    BY <2>1, HeadTailProperties
  <2> QED
    BY <2>1, <2>2, OneElement
<1>5. Unpaired' = Waiting
  <2>1. ASSUME NEW x \in Unpaired' PROVE x \in Waiting
    <3>1. PICK b \in unpaired' : x = b[1]
      BY <2>1 DEF Unpaired
    <3> QED
      BY <1>4, <3>1 DEF Waiting
  <2>2. ASSUME NEW x \in Waiting PROVE x \in Unpaired'
    <3>1. PICK k \in Second : x \in Range(buckets[k])
      BY <2>2 DEF Waiting
    <3>2. buckets[k] # <<>>
      BY <3>1 DEF Range
    <3>3. buckets[k] \in unpaired'
      BY <1>1, <3>2 DEF Remaining, TypeOK, ManagerTypeOK
    <3>4. x = buckets[k][1]
      BY <1>4, <3>1, <3>3
    <3> QED
      BY <3>3, <3>4 DEF Unpaired
  <2> QED
    BY <2>1, <2>2
<1>6. Waiting' = {} /\ Paired' = Paired /\ Paired = {} /\ Unpaired = {}
  BY <1>1, <1>2, <1>3 DEF Waiting, Paired, Unpaired, Range
<1>7. Taken' = Taken
  BY <1>5, <1>6 DEF Taken
<1>8. PieceOnce'
  <2>1. ToPush' = ToPush /\ Queued' = Queued
    BY <1>1 DEF ToPush, Queued
  <2> QED
    BY <1>1, <1>3, <1>7, <2>1, ManagerKeeps
<1>9. TwoHalves'
  <2> SUFFICES ASSUME NEW a \in unpaired', NEW b \in unpaired', a[1].out = b[1].out
               PROVE  a = b
    BY <1>1 DEF TwoHalves
  <2>1. PICK k \in Second : a = buckets[k] /\ a[1] \in Range(buckets[k])
    BY <1>4
  <2>2. PICK n \in Second : b = buckets[n] /\ b[1] \in Range(buckets[n])
    BY <1>4
  <2>3. a[1].out = k /\ b[1].out = n
    BY <2>1, <2>2 DEF PieceOnce
  <2> QED
    BY <2>1, <2>2, <2>3
<1>10. InPlay' = InPlay
  BY <1>1, <1>7 DEF InPlay, OnTheWay, PairAt
<1> QED
  BY <1>8, <1>9, <1>10

(* No step of the manager brings a piece out of place.                      *)
LEMMA ManagerPieces ==
    ASSUME TypeOK, TypeOK', Accounted, SweepLosesNothing, Pieces,
           ManagerNext, UNCHANGED moduleVars
    PROVE  Pieces'
<1> SUFFICES ASSUME Undisturbed' PROVE PieceOnce' /\ TwoHalves'
  BY DEF Pieces
<1>1. Undisturbed
  BY CalmStep
<1>2. PieceOnce /\ TwoHalves
  BY <1>1 DEF Pieces
<1>3. UNCHANGED <<wpc, wjob, wpair>>
  BY DEF moduleVars
<1>4. CASE PollTimesOut \/ \E r \in Request : Submit(r)
  <2>1. UNCHANGED <<mailbox, current, toPush, jobQueue, buckets, pair, unpaired, mpc>>
    BY <1>4 DEF PollTimesOut, Submit, managerVars, sharedVars, cycleVars
  <2>2. Taken' = Taken /\ ToPush' = ToPush /\ Queued' = Queued
    BY <2>1 DEF Taken, Waiting, Paired, Unpaired, ToPush, Queued
  <2>3. PieceOnce'
    BY <1>2, <1>3, <2>1, <2>2, ManagerKeeps
  <2> QED
    BY <1>2, <2>1, <2>3 DEF TwoHalves
<1>5. CASE PollAccepts \/ PollLoses \/ ManagerExits \/ CollectRaises \/ Notify
  <2>1. AtRest'
    BY <1>1, <1>5, StaysAtRest
  <2>2. mpc' \notin {"merge", "publish"}
    BY <1>5 DEF PollAccepts, PollLoses, ManagerExits, CollectRaises, Notify, Abort,
                AnswerWith
  <2> QED
    BY <2>1, <2>2, NothingInPlayNext DEF AtRest, TwoHalves, TypeOK
<1>6. CASE CollectFiles
  <2>1. /\ mpc = "collect" /\ mpc' = "drain" /\ buckets' = NoBuckets(Second)
        /\ UNCHANGED <<jobQueue, mailbox, pair, unpaired, wjob>>
    BY <1>3, <1>6 DEF CollectFiles, sharedVars, cycleVars
  <2>2. Idle /\ pair = <<>> /\ unpaired = {}
    BY <1>1, <2>1, DryIsIdle DEF Accounted, InCycle
  <2>3. Waiting' = {}
    BY <2>1, NoBucketsWaitNext
  <2>4. InPlay' = {} /\ PairAt' = {}
    BY <2>1, <2>2, <2>3
       DEF InPlay, OnTheWay, PairAt, Taken, Paired, Unpaired, Idle, Range
  <2>5. Sending' = {}
    BY <1>3, <2>2, SharedAssumption DEF Sending, Idle, TypeOK, ModuleTypeOK, AtWork
  <2>6. \A k \in Second : Range(buckets'[k]) = {}
    BY <2>1 DEF NoBuckets, Range
  <2>7. OnTheWay' = {}
    BY <2>4 DEF OnTheWay
  <2> QED
    BY <2>1, <2>2, <2>4, <2>5, <2>6, <2>7 DEF PieceOnce, TwoHalves
<1>7. CASE PushNextJob
  <2>1. UNCHANGED <<mailbox, current, buckets, pair, unpaired, mpc>>
    BY <1>7 DEF PushNextJob, cycleVars
  <2>2. Taken' = Taken
    BY <2>1 DEF Taken, Waiting, Paired, Unpaired
  <2>3. PieceOnce'
    BY <1>2, <1>3, <1>7, <2>1, <2>2, PushMoves, ManagerKeeps
  <2> QED
    BY <1>2, <2>1, <2>3 DEF TwoHalves
<1>8. CASE TakeJobDone
  <2>1. /\ mailbox \in Seq(Message) /\ mailbox # <<>> /\ mailbox' = Tail(mailbox)
        /\ UNCHANGED <<current, toPush, jobQueue, buckets, pair, unpaired, mpc>>
    BY <1>8 DEF TakeJobDone, Receive, cycleVars, TypeOK, SharedTypeOK
  <2>2. /\ Taken' = Taken /\ ToSplit' = ToSplit /\ Sending' = Sending
    BY <1>3, <2>1 DEF Taken, Waiting, Paired, Unpaired, ToSplit, ToPush, Queued, Sending
  <2>3. \A i \in PairAt' : i \in Nat /\ i + 1 \in PairAt /\ mailbox'[i] = mailbox[i + 1]
    BY <2>1, MailOut DEF PairAt
  <2>4. PieceOnce'
    BY <1>2, <1>3, <2>1, <2>2, <2>3, NoNewPiece
  <2> QED
    BY <1>2, <2>1, <2>4 DEF TwoHalves
<1>9. CASE TakePairPut
  BY <1>1, <1>2, <1>9, PutPieces
<1>10. CASE LeaveDrain
  BY <1>1, <1>2, <1>10, LeavePieces
<1>11. CASE MergePair \/ PublishPair \/ SweepNext
  <2>1. /\ UNCHANGED <<mailbox, current, toPush, jobQueue, buckets>>
        /\ pair' = pair \/ (pair' = <<>> /\ mpc' = "drain")
        /\ unpaired' \subseteq unpaired
        /\ mpc' \in {"merge", "publish"} => mpc \in {"merge", "publish"}
    BY <1>11 DEF MergePair, PublishPair, SweepNext, sharedVars
  <2>2. Paired' \subseteq Paired /\ Unpaired' \subseteq Unpaired /\ Waiting' = Waiting
    BY <2>1 DEF Paired, Unpaired, Waiting, Range
  <2>3. ToPush' = ToPush /\ Queued' = Queued /\ Taken' \subseteq Taken
    BY <2>1, <2>2 DEF ToPush, Queued, Taken
  <2>4. PieceOnce'
    BY <1>2, <1>3, <2>1, <2>3, ManagerKeeps
  <2> QED
    BY <1>2, <2>1, <2>4 DEF TwoHalves
<1> QED
  BY <1>4, <1>5, <1>6, <1>7, <1>8, <1>9, <1>10, <1>11, CalmStep DEF ManagerStep

(* The manager lets go of a piece only when it has uploaded it.             *)
LEMMA PiecesStay ==
    ASSUME TypeOK, TypeOK', Accounted, SweepLosesNothing, Pieces,
           ManagerNext, UNCHANGED moduleVars, Undisturbed',
           ~PublishPair, ~SweepNext
    PROVE  InPlay' = InPlay
<1>1. Undisturbed /\ PieceOnce /\ TwoHalves
  BY CalmStep DEF Pieces
<1>2. CASE \/ PollTimesOut \/ PushNextJob \/ MergePair
           \/ \E r \in Request : Submit(r)
  BY <1>2 DEF PollTimesOut, PushNextJob, MergePair, Submit, managerVars, sharedVars,
              cycleVars, InPlay, OnTheWay, PairAt, Taken, Waiting, Paired, Unpaired
<1>3. CASE PollAccepts \/ PollLoses \/ ManagerExits \/ CollectRaises \/ Notify
  BY <1>1, <1>3, StaysAtRest, NothingInPlay, NothingInPlayNext DEF TypeOK, NoPiece
<1>4. CASE CollectFiles
  <2>1. Waiting = {} /\ Waiting' = {}
    BY <1>1, <1>4, NoBucketsWaitNext DEF CollectFiles, Accounted, InCycle
  <2> QED
    BY <1>4, <2>1 DEF CollectFiles, sharedVars, cycleVars, InPlay, OnTheWay, PairAt,
                      Taken, Paired, Unpaired
<1>5. CASE TakeJobDone
  <2>1. /\ mailbox \in Seq(Message) /\ mailbox # <<>> /\ mailbox' = Tail(mailbox)
        /\ Head(mailbox).type = "WORKER_JOB_DONE"
        /\ UNCHANGED <<buckets, pair, unpaired>>
    BY <1>5 DEF TakeJobDone, Receive, cycleVars, TypeOK, SharedTypeOK
  <2>2. /\ \A i \in PairAt : /\ i # 1 /\ i - 1 \in PairAt'
                             /\ mailbox'[i - 1] = mailbox[i]
        /\ \A i \in PairAt' : i + 1 \in PairAt /\ mailbox'[i] = mailbox[i + 1]
    BY <2>1, MailOut DEF PairAt
  <2>3. OnTheWay' = OnTheWay
    BY <2>2 DEF OnTheWay
  <2> QED
    BY <2>1, <2>3 DEF InPlay, Taken, Waiting, Paired, Unpaired
<1>6. CASE TakePairPut
  BY <1>1, <1>6, PutPieces
<1>7. CASE LeaveDrain
  BY <1>1, <1>7, LeavePieces
<1> QED
  BY <1>2, <1>3, <1>4, <1>5, <1>6, <1>7, CalmStep DEF ManagerStep

(* A pair that was uploaded leaves play, and its files the disk.            *)
LEMMA PairLeaves ==
    ASSUME TypeOK, Accounted, Undisturbed, PieceOnce, TwoHalves, PublishPair
    PROVE  /\ DOMAIN pair = {1, 2} /\ Paired = {pair[1], pair[2]}
           /\ Paired \subseteq InPlay /\ InPlay' = InPlay \ Paired
           /\ Remove({x.src : x \in Paired})
<1>1. /\ mpc = "publish" /\ Remove(Sources(pair)) /\ pair' = <<>>
      /\ UNCHANGED <<mailbox, buckets, unpaired>>
  BY DEF PublishPair
<1>2. unpaired = {} /\ pair[1].out = pair[2].out /\ buckets[pair[1].out] = <<>>
      /\ DOMAIN pair = {1, 2}
  <2>1. Len(pair) = 2
    BY <1>1 DEF TwoHalves
  <2> QED
    BY <1>1, <2>1, LenProperties DEF Accounted, TwoHalves, TypeOK, ManagerTypeOK
<1>3. \A x \in Paired : x \notin Waiting
  <2> SUFFICES ASSUME NEW x \in Paired, NEW k \in Second, x \in Range(buckets[k])
               PROVE  FALSE
    BY DEF Waiting
  <2>1. x.out = k /\ x.out = pair[1].out
    BY <1>2 DEF PieceOnce, Paired, Range
  <2> QED
    BY <1>2, <2>1 DEF Range
<1>4. \A x \in Paired : x \notin OnTheWay
  BY DEF PieceOnce, Taken
<1>5. /\ OnTheWay' = OnTheWay /\ Waiting' = Waiting /\ Paired' = {}
      /\ Unpaired = {} /\ Unpaired' = {}
  BY <1>1, <1>2 DEF OnTheWay, PairAt, Waiting, Paired, Unpaired, Range
<1>6. InPlay' = InPlay \ Paired /\ Paired \subseteq InPlay
  BY <1>3, <1>4, <1>5 DEF InPlay, Taken
<1>7. Paired = {pair[1], pair[2]}
  BY <1>2 DEF Paired, Range
<1>8. Sources(pair) = {x.src : x \in Paired}
  BY DEF Sources, Paired, Range
<1> QED
  BY <1>1, <1>2, <1>6, <1>7, <1>8

(* So does a piece the sweep uploaded; the sweep's pieces are all there are.*)
LEMMA SweptLeaves ==
    ASSUME TypeOK, Accounted, Undisturbed, TwoHalves, SweepNext
    PROVE  /\ InPlay = Unpaired
           /\ \E b \in unpaired :
                 /\ cache[b[1].src] # None
                 /\ Upload(PairName(b[1].out), <<cache[b[1].src]>>)
                 /\ InPlay' = InPlay \ {b[1]} /\ Remove({b[1].src})
<1>1. PICK b \in unpaired :
        /\ cache[b[1].src] # None /\ Remove({b[1].src}) /\ unpaired' = unpaired \ {b}
        /\ Upload(PairName(b[1].out), <<cache[b[1].src]>>)
  BY DEF SweepNext
<1>2. mpc = "sweep" /\ UNCHANGED <<mailbox, buckets, pair>>
  BY DEF SweepNext
<1>3. Waiting = {} /\ mailbox = <<>> /\ pair = <<>>
  BY <1>2 DEF Accounted, InCycle, Dry
<1>4. OnTheWay = {} /\ OnTheWay' = {} /\ Paired = {} /\ Paired' = {} /\ Waiting' = {}
  <2>1. PairAt = {} /\ PairAt' = {} /\ Paired = {} /\ Paired' = {}
    BY <1>2, <1>3 DEF PairAt, Paired, Range
  <2>2. Waiting' = Waiting
    BY <1>2 DEF Waiting
  <2> QED
    BY <1>3, <2>1, <2>2 DEF OnTheWay
<1>5. Unpaired' = Unpaired \ {b[1]}
  <2>1. \A c \in unpaired : c[1] = b[1] => c = b
    BY DEF TwoHalves
  <2> QED
    BY <1>1, <2>1 DEF Unpaired
<1> QED
  BY <1>1, <1>3, <1>4, <1>5 DEF InPlay, Taken

(* The pieces uploaded leave play, and their files the disk.                *)
LEMMA PiecesLeave ==
    ASSUME TypeOK, Accounted, Undisturbed, PieceOnce, TwoHalves,
           PublishPair \/ SweepNext
    PROVE  \E G \in SUBSET InPlay :
               InPlay' = InPlay \ G /\ Remove({x.src : x \in G})
<1>1. CASE PublishPair
  BY <1>1, PairLeaves
<1>2. CASE SweepNext
  <2>1. PICK b \in unpaired : InPlay' = InPlay \ {b[1]} /\ Remove({b[1].src})
    BY <1>2, SweptLeaves
  <2>2. b[1] \in InPlay /\ {b[1].src} = {x.src : x \in {b[1]}}
    BY <1>2, SweptLeaves DEF Unpaired
  <2> QED
    BY <2>1, <2>2
<1> QED
  BY <1>1, <1>2

-----------------------------------------------------------------------------
(* As long as nothing has cut a cycle short, each piece is sent once and in *)
(* one place, and a pair is made of two halves of one second.               *)
THEOREM PiecesCorrect == Spec => []Pieces
<1>1. Init => Pieces
  <2> SUFFICES ASSUME Init PROVE PieceOnce /\ TwoHalves
    BY DEF Pieces
  <2>1. Idle /\ Waiting = {} /\ pair = <<>> /\ unpaired = {} /\ mpc = "poll"
    BY NoBucketsWait DEF Init, SharedInit, ModuleInit, ManagerInit, Idle
  <2>2. ModuleTypeOK
    BY DEF Init, ModuleInit, ModuleTypeOK, WorkerPc, AtWork
  <2> QED
    BY <2>1, <2>2, NothingInPlay DEF AtRest, TwoHalves
<1>2. TypeOK /\ TypeOK' /\ Accounted /\ SweepLosesNothing /\ Pieces /\ [Next]_vars
      => Pieces'
  <2> SUFFICES ASSUME TypeOK, TypeOK', Accounted, SweepLosesNothing, Pieces,
                      [Next]_vars
               PROVE  Pieces'
    OBVIOUS
  <2>1. CASE ManagerNext /\ UNCHANGED moduleVars
    BY <2>1, ManagerPieces
  <2>2. CASE ModuleNext /\ UNCHANGED managerVars
    <3>1. Undisturbed' = Undisturbed /\ TwoHalves' = TwoHalves
      BY <2>2 DEF managerVars, Undisturbed, TwoHalves
    <3> QED
      BY <2>2, <3>1, WorkerPieces DEF ModuleNext, Pieces
  <2>3. CASE UNCHANGED vars
    <3>1. /\ PairAt' = PairAt /\ Taken' = Taken /\ ToSplit' = ToSplit
          /\ Sending' = Sending /\ OnTheWay' = OnTheWay
          /\ UNCHANGED <<mailbox, buckets, wjob, wpair, current, mpc, disturbed,
                         pair, unpaired>>
      BY <2>3 DEF vars, sharedVars, moduleVars, managerVars, PairAt, Taken, Waiting,
                  Paired, Unpaired, ToSplit, ToPush, Queued, Sending, OnTheWay
    <3>2. InPlay' = InPlay /\ (\A x \in InPlay : WellMade(x)' <=> WellMade(x))
      BY <3>1 DEF InPlay, WellMade, JobsOf
    <3>3. PieceOnce' <=> PieceOnce
      BY <3>1, <3>2 DEF PieceOnce
    <3> QED
      BY <3>1, <3>3 DEF Pieces, Undisturbed, TwoHalves
  <2>4. CASE Restart
    <3>1. Idle' /\ Waiting' = {} /\ pair' = <<>> /\ unpaired' = {} /\ mpc' = "poll"
      BY <2>4, NoBucketsWaitNext
         DEF Restart, ManagerStartsAgain, ModuleStartsAgain, LoseCurrent, Idle
    <3> QED
      BY <3>1, NothingInPlayNext DEF AtRest, TypeOK, TwoHalves, Pieces
  <2> QED
    BY <2>1, <2>2, <2>3, <2>4 DEF Next
<1> QED
  BY <1>1, <1>2, TypeCorrect, AccountCorrect, SweepComplete, PTL DEF Spec

(* Pieces of an earlier cycle never enter the buckets of a later one.       *)
(* After a cycle was cut short they may: its workers go on (manager.py,     *)
(* _handle_request, except clause), so this is claimed only before that.    *)
THEOREM FreshBuckets == Spec => [](~Interrupted => BucketsFresh)
<1>1. TypeOK /\ Pieces => (~Interrupted => BucketsFresh)
  <2> SUFFICES ASSUME TypeOK, Pieces, ~Interrupted,
                      mpc \in {"drain", "merge", "publish"},
                      NEW k \in Second, NEW i \in DOMAIN buckets[k]
               PROVE  buckets[k][i].job.req = current
    BY DEF BucketsFresh
  <2>1. PieceOnce
    BY DEF Pieces, Undisturbed, Interrupted
  <2>2. buckets[k][i] \in InPlay
    BY DEF InPlay, Taken, Waiting, Range
  <2> QED
    BY <2>1, <2>2 DEF PieceOnce, WellMade, JobsOf
<1> QED
  BY <1>1, TypeCorrect, PiecesCorrect, PTL

-----------------------------------------------------------------------------
(* Where each segment has a path of its own, at a path is its segment or    *)
(* nothing.                                                                 *)
PathsHold == \A p \in Segment : cache[SavePath(p[1], p[2])] \in {p, None}

(* A split writes each segment to its own path.                             *)
LEMMA WrittenRight ==
    ASSUME OwnPaths, PathsHold, NEW f \in File, NEW S \in SUBSET Span[f],
           cache' = Written(f, S)
    PROVE  PathsHold'
<1> SUFFICES ASSUME NEW p \in Segment
             PROVE  cache'[SavePath(p[1], p[2])] \in {p, None}
  BY DEF PathsHold
<1> DEFINE path == SavePath(p[1], p[2])
<1>1. path \in CachePath
  BY DEF CachePath
<1>2. CASE \E s \in S : path = SavePath(f, s)
  <2>1. PICK s \in S : path = SavePath(f, s)
    BY <1>2
  <2>2. <<f, s>> \in Segment
    BY <2>1, SegmentPlaces
  <2>3. p = <<f, s>>
    BY <2>1, <2>2 DEF OwnPaths
  <2>4. cache'[path] = <<f, path[2]>> /\ path[2] = s
    BY <1>1, <1>2, <2>1 DEF Written, SavePath
  <2> QED
    BY <2>3, <2>4
<1>3. CASE ~ \E s \in S : path = SavePath(f, s)
  BY <1>1, <1>3 DEF Written, PathsHold
<1> QED
  BY <1>2, <1>3

(* What is removed leaves nothing.                                          *)
LEMMA RemoveRight ==
    ASSUME PathsHold, NEW P, Remove(P)
    PROVE  PathsHold'
<1> SUFFICES ASSUME NEW p \in Segment
             PROVE  cache'[SavePath(p[1], p[2])] \in {p, None}
  BY DEF PathsHold
<1>1. SavePath(p[1], p[2]) \in CachePath
  BY DEF CachePath
<1> QED
  BY <1>1 DEF Remove, PathsHold

(* Every step is one of these, or leaves the cache alone.                   *)
LEMMA StepOfCache ==
    ASSUME TypeOK, [Next]_vars
    PROVE  \/ UNCHANGED cache
           \/ \E P : Remove(P)
           \/ \E j \in Job : /\ j \in Held
                             /\ \E S \in SUBSET Span[j.file] : cache' = Written(j.file, S)
<1>1. ASSUME NEW w \in Worker, Split(w) \/ SplitRaises(w)
      PROVE  \/ UNCHANGED cache
             \/ \E j \in Job : /\ j \in Held
                               /\ \E S \in SUBSET Span[j.file] : cache' = Written(j.file, S)
  <2>1. wjob[w] \in Job /\ wjob[w] \in Held
    BY <1>1, SharedAssumption
       DEF Split, SplitRaises, Goto, TypeOK, ModuleTypeOK, AtWork, Held
  <2> QED
    BY <1>1, <2>1 DEF Split, SplitRaises
<1>2. ASSUME NEW w \in Worker, UploadMid(w) PROVE \E P : Remove(P)
  BY <1>2 DEF UploadMid
<1>3. CASE PublishPair \/ SweepNext
  BY <1>3 DEF PublishPair, SweepNext
<1>4. CASE ModuleNext
  BY <1>1, <1>2, <1>4
     DEF ModuleNext, WorkerStep, TakeJob, WorkerExits, Download, SendPair,
         DownloadRaises, UploadRaises, Report, WorkerCrashes, StopWorker, sharedVars
<1>5. CASE ManagerNext
  BY <1>3, <1>5
     DEF ManagerNext, ManagerStep, Submit, PollAccepts, PollLoses, PollTimesOut,
         ManagerExits, CollectFiles, CollectRaises, PushNextJob, TakeJobDone,
         TakePairPut, LeaveDrain, MergePair, MergeRaises, SweepRaises, Notify,
         StopManager, RedisFails, ManagerCrashes, Abort, Unwind, sharedVars
<1> QED
  BY <1>4, <1>5 DEF Next, Restart, vars, sharedVars

(* Where each segment has a path of its own, what lies at it is the segment,*)
(* whatever failed before, and what is merged is what the pieces name       *)
(* (local_pcap_splitter.py, split_once; manager.py, _merge_pair).           *)
THEOREM PathsCorrect == ASSUME OwnPaths PROVE Spec => []PathsRight
<1>1. Init => PathsRight
  <2> SUFFICES ASSUME Init PROVE PathsHold
    BY DEF PathsRight, PathsHold, Init, ManagerInit
  <2>1. \A p \in Segment : SavePath(p[1], p[2]) \in CachePath
    BY DEF CachePath
  <2> QED
    BY <2>1 DEF PathsHold, Init, SharedInit
<1>2. TypeOK /\ Pieces /\ PathsRight /\ [Next]_vars => PathsRight'
  <2> SUFFICES ASSUME TypeOK, Pieces, PathsRight, [Next]_vars PROVE PathsRight'
    OBVIOUS
  <2>1. PathsHold'
    <3>1. PathsHold
      BY DEF PathsRight, PathsHold
    <3>2. CASE UNCHANGED cache
      BY <3>1, <3>2 DEF PathsHold
    <3> QED
      BY <3>1, <3>2, StepOfCache, WrittenRight, RemoveRight DEF Job
  <2>2. ASSUME mpc' = "publish", Undisturbed'
        PROVE  merged' = [i \in DOMAIN pair' |-> <<pair'[i].job.file, pair'[i].out>>]
    <3>1. CASE MergePair
      <4>1. mpc = "merge" /\ ~disturbed
        BY <2>2, <3>1 DEF MergePair, control, Undisturbed
      <4>2. PieceOnce
        BY <4>1 DEF Pieces, Undisturbed
      <4>3. ASSUME NEW i \in DOMAIN pair
            PROVE  cache[pair[i].src] = <<pair[i].job.file, pair[i].out>>
        <5> DEFINE x == pair[i]
                   q == <<x.job.file, x.out>>
        <5>1. x \in InPlay /\ x \in Item
          BY ElementOfSeq, LenProperties
             DEF InPlay, Taken, Paired, Range, TypeOK, ManagerTypeOK
        <5>2. x.src = SavePath(x.job.file, x.out) /\ x.out \in Span[x.job.file]
          BY <4>2, <5>1 DEF PieceOnce, WellMade, Piece, Unprocessed
        <5>3. q \in Segment
          BY <5>1, <5>2, SegmentPlaces DEF Item, Job
        <5>4. cache[x.src] # None
          BY <3>1 DEF MergePair, Sources
        <5> HIDE DEF x
        <5>5. cache[SavePath(q[1], q[2])] \in {q, None}
          BY <5>3 DEF PathsRight
        <5> QED
          BY <5>2, <5>4, <5>5 DEF x
      <4> QED
        BY <3>1, <4>3 DEF MergePair
    <3>2. CASE UNCHANGED <<mpc, merged, pair, disturbed>>
      BY <2>2, <3>2 DEF PathsRight, Undisturbed
    <3>3. CASE ManagerNext
      BY <2>2, <3>1, <3>2, <3>3
         DEF ManagerNext, ManagerStep, Submit, PollAccepts, PollLoses, PollTimesOut,
             ManagerExits, CollectFiles, CollectRaises, PushNextJob, TakeJobDone,
             TakePairPut, Draining, LeaveDrain, PublishPair, MergeRaises, SweepNext,
             SweepRaises, Notify, AnswerWith, Abort, StopManager, Undisturbed,
             RedisFails, ManagerCrashes, managerVars, cycleVars, control
    <3> QED
      BY <2>2, <3>2, <3>3 DEF Next, Restart, ManagerStartsAgain, managerVars, vars
  <2> QED
    BY <2>1, <2>2 DEF PathsRight, PathsHold
<1> QED
  BY <1>1, <1>2, TypeCorrect, PiecesCorrect, PTL DEF Spec

-----------------------------------------------------------------------------
(* Every step uploads one object, or none.                                  *)
LEMMA StepOfStore ==
    ASSUME TypeOK, [Next]_vars
    PROVE  \/ UNCHANGED object
           \/ PublishPair
           \/ \E s \in Second, p \in CachePath :
                 /\ cache[p] # None
                 /\ \/ Upload(MidName(s), <<cache[p]>>)
                    \/ Upload(PairName(s), <<cache[p]>>)
<1>1. ASSUME NEW w \in Worker, UploadMid(w)
      PROVE  \E s \in Second, p \in CachePath :
                cache[p] # None /\ Upload(MidName(s), <<cache[p]>>)
  <2>1. \A s \in wmid[w] : s \in Second /\ SavePath(wjob[w].file, s) \in CachePath
    BY <1>1, SegmentPlaces
       DEF UploadMid, Goto, TypeOK, ModuleTypeOK, AtWork, Job, Processed
  <2> QED
    BY <1>1, <2>1 DEF UploadMid
<1>2. ASSUME SweepNext
      PROVE  \E s \in Second, p \in CachePath :
                cache[p] # None /\ Upload(PairName(s), <<cache[p]>>)
  <2>1. \A b \in unpaired : b[1].out \in Second /\ b[1].src \in CachePath
    <3> SUFFICES ASSUME NEW b \in unpaired
                 PROVE  b[1].out \in Second /\ b[1].src \in CachePath
      OBVIOUS
    <3>1. b \in Seq(Item) /\ b # <<>>
      BY DEF TypeOK, ManagerTypeOK
    <3>2. b[1] \in Item
      BY <3>1, ElementOfSeq, EmptySeq
    <3> QED
      BY <3>2 DEF Item
  <2> QED
    BY <1>2, <2>1 DEF SweepNext
<1>3. CASE ModuleNext
  BY <1>1, <1>3
     DEF ModuleNext, WorkerStep, TakeJob, WorkerExits, Download, Split, SendPair,
         DownloadRaises, SplitRaises, UploadRaises, Report, WorkerCrashes,
         StopWorker, sharedVars
<1>4. CASE ManagerNext
  BY <1>2, <1>4
     DEF ManagerNext, ManagerStep, Submit, PollAccepts, PollLoses, PollTimesOut,
         ManagerExits, CollectFiles, CollectRaises, PushNextJob, TakeJobDone,
         TakePairPut, LeaveDrain, MergePair, MergeRaises, SweepRaises, Notify,
         StopManager, RedisFails, ManagerCrashes, Abort, Unwind, sharedVars
<1> QED
  BY <1>3, <1>4 DEF Next, Restart, vars, sharedVars

(* Where each segment has a path of its own and no cycle is cut short, a    *)
(* merged object is made of two halves of its second, from two files        *)
(* (manager.py, _merge_pair).                                               *)
THEOREM HalvesMeet ==
    ASSUME OwnPaths
    PROVE  Spec /\ []~Interrupted => []MergesBothHalves
<1>1. Init => MergesBothHalves
  BY DEF Init, SharedInit, MergesBothHalves, PairName, ObjectName
<1>2. TypeOK /\ Pieces /\ PathsRight /\ ~Interrupted /\ MergesBothHalves /\ [Next]_vars
      => MergesBothHalves'
  <2> SUFFICES ASSUME TypeOK, Pieces, PathsRight, ~Interrupted, MergesBothHalves,
                      [Next]_vars
               PROVE  MergesBothHalves'
    OBVIOUS
  <2> SUFFICES ASSUME NEW s \in Second, Len(object'[PairName(s)]) = 2
               PROVE  /\ object'[PairName(s)][1][1] # object'[PairName(s)][2][1]
                      /\ object'[PairName(s)][1][2] = s
                      /\ object'[PairName(s)][2][2] = s
    BY DEF MergesBothHalves
  <2>0. PairName(s) \in ObjectName /\ object \in [ObjectName -> Seq(Segment)]
    BY DEF PairName, ObjectName, TypeOK, SharedTypeOK
  <2>1. CASE object'[PairName(s)] = object[PairName(s)]
    BY <2>1 DEF MergesBothHalves
  <2>2. ASSUME NEW t \in Second, NEW c, Upload(MidName(t), c)
        PROVE  object'[PairName(s)] = object[PairName(s)]
    BY <2>0, <2>2 DEF Upload, MidName, PairName
  <2>3. ASSUME NEW t \in Second, NEW c, Upload(PairName(t), <<c>>)
        PROVE  object'[PairName(s)] = object[PairName(s)]
    <3>1. object'[PairName(s)] = (IF PairName(s) = PairName(t) THEN <<c>>
                                 ELSE object[PairName(s)])
      BY <2>0, <2>3 DEF Upload
    <3>2. Len(<<c>>) = 1
      OBVIOUS
    <3> QED
      BY <3>1, <3>2
  <2>4. CASE PublishPair
    <3>1. /\ mpc = "publish" /\ Undisturbed /\ Upload(PairName(pair[1].out), merged)
      BY <2>4 DEF PublishPair, Undisturbed, Interrupted
    <3>2. /\ PieceOnce /\ Len(pair) = 2
          /\ pair[1].job # pair[2].job /\ pair[1].out = pair[2].out
          /\ merged = [i \in DOMAIN pair |-> <<pair[i].job.file, pair[i].out>>]
      BY <3>1 DEF Pieces, TwoHalves, PathsRight
    <3>3. pair \in Seq(Item) /\ DOMAIN pair = {1, 2}
      BY <3>2, LenProperties DEF TypeOK, ManagerTypeOK
    <3>4. pair[1] \in InPlay /\ pair[2] \in InPlay
      BY <3>3 DEF InPlay, Taken, Paired, Range
    <3>5. pair[1].job \in JobsOf(current) /\ pair[2].job \in JobsOf(current)
      BY <3>2, <3>4 DEF PieceOnce, WellMade
    <3>6. pair[1].job.file # pair[2].job.file
      BY <3>2, <3>5 DEF JobsOf
    <3>7. CASE PairName(s) = PairName(pair[1].out)
      <4>1. s = pair[1].out /\ object'[PairName(s)] = merged
        BY <2>0, <3>1, <3>7 DEF Upload, PairName
      <4>2. merged[1] = <<pair[1].job.file, s>> /\ merged[2] = <<pair[2].job.file, s>>
        BY <3>2, <3>3, <4>1
      <4> QED
        BY <3>6, <4>1, <4>2
    <3>8. CASE PairName(s) # PairName(pair[1].out)
      BY <2>0, <2>1, <3>1, <3>8 DEF Upload
    <3> QED
      BY <3>7, <3>8
  <2>5. CASE UNCHANGED object
    BY <2>1, <2>5
  <2> QED
    BY <2>1, <2>2, <2>3, <2>4, <2>5, StepOfStore
<1> QED
  BY <1>1, <1>2, TypeCorrect, PiecesCorrect, PathsCorrect, PTL DEF Spec

=============================================================================
