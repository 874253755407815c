------------------------ MODULE NormalizerInvariants ------------------------
(***************************************************************************)
(* The inductive invariants behind the safety properties of Normalizer:    *)
(* where each job and each piece of a cycle is while nothing has cut a     *)
(* cycle short, who owns a file on the disk, and what an answer may count  *)
(* on.  A request a killed manager had is lost, so nothing is said of a    *)
(* crashed one.                                                            *)
(***************************************************************************)
EXTENDS Normalizer, Functions

Undisturbed == ~disturbed /\ mpc # "crashed"

(* Pieces: of the job j in second s, on their way to the manager, in its    *)
(* hands, and both.                                                         *)
Piece(j, s) == [src |-> SavePath(j.file, s), out |-> s, job |-> j]

PairAt   == {i \in DOMAIN mailbox : mailbox[i].type = "WORKER_PAIR_PUT"}
OnTheWay == {mailbox[i].item : i \in PairAt}
Waiting  == UNION {Range(buckets[k]) : k \in Second}
Paired   == Range(pair)
Unpaired == {b[1] : b \in unpaired}
Taken    == Waiting \cup Paired \cup Unpaired
InPlay   == OnTheWay \cup Taken

(* Between cycles there is neither job nor message, and no piece either.    *)
Idle ==
    /\ toPush = <<>> /\ jobQueue = <<>> /\ mailbox = <<>>
    /\ \A w \in Worker : wjob[w] = None

AtRest == Idle /\ Waiting = {} /\ pair = <<>> /\ unpaired = {}

-----------------------------------------------------------------------------
(* Every job of the cycle has one holder, and those that have none were     *)
(* counted.                                                                 *)
OneHolder ==
    /\ IsInjective(toPush) /\ IsInjective(jobQueue)
    /\ \A v, w \in Worker : wjob[v] = wjob[w] /\ wjob[v] # None => v = w
    /\ \A i, k \in DoneAt : mailbox[i].job = mailbox[k].job => i = k
    /\ ToPush \cap (Queued \cup Held \cup Reported) = {}
    /\ Queued \cap (Held \cup Reported) = {}
    /\ Held \cap Reported = {}

(* A worker's PairPuts are before its JobDone.                              *)
ReportsTrail ==
    \A i \in PairAt :
        \/ mailbox[i].item.job \in Held
        \/ \E k \in DoneAt : i < k /\ mailbox[k].job = mailbox[i].item.job

Dry == InFlight = {} /\ mailbox = <<>>

Counted == progress.remaining + progress.success + progress.failure
               = Len(Folder[current])

CycleAccount ==
    InCycle => /\ InFlight \subseteq JobsOf(current)
               /\ progress.remaining = Cardinality(InFlight)
               /\ Counted

Accounted ==
    Undisturbed =>
        /\ ~mstop
        /\ OneHolder /\ ReportsTrail /\ CycleAccount
        /\ ~InCycle => Dry /\ Waiting = {}
        /\ mpc = "sweep" => progress.remaining = 0 /\ Counted
        /\ mpc \notin {"merge", "publish"} => pair = <<>>
        /\ mpc # "sweep" => unpaired = {}

-----------------------------------------------------------------------------
(* Each piece is sent once in a cycle, by the worker that has the job, and  *)
(* is in one place from then on.                                            *)
ToSplit == ToPush \cup Queued
           \cup {wjob[w] : w \in {v \in Worker : wpc[v] \in {"download", "split"}}}
Sending == {w \in Worker : wpc[w] = "deliver"}

(* A piece of a job of this cycle, at an edge of its file.                  *)
WellMade(x) ==
    /\ x = Piece(x.job, x.out) /\ x.out \in Unprocessed(x.job.file)
    /\ x.job \in JobsOf(current)

PieceOnce ==
    /\ \A x \in InPlay : WellMade(x)
    /\ \A i \in PairAt : mailbox[i].key = mailbox[i].item.out
    /\ \A k \in Second : \A x \in Range(buckets[k]) : x.out = k
    /\ \A i, k \in PairAt : mailbox[i].item = mailbox[k].item => i = k
    /\ OnTheWay \cap Taken = {}
    /\ \A w \in Sending : \A s \in wpair[w] : Piece(wjob[w], s) \notin InPlay
    /\ \A x \in InPlay : x.job \notin ToSplit

(* A pair is made of two halves of one second and leaves its bucket empty,  *)
(* and the sweep has one piece of a second at most.                         *)
TwoHalves ==
    /\ mpc \in {"merge", "publish"} =>
          /\ Len(pair) = 2
          /\ pair[1].job # pair[2].job /\ pair[1].out = pair[2].out
          /\ buckets[pair[1].out] = <<>>
    /\ \A a, b \in unpaired : a[1].out = b[1].out => a = b

Pieces == Undisturbed => PieceOnce /\ TwoHalves

-----------------------------------------------------------------------------
(* A file on the disk belongs to whoever will remove it, unless a failure   *)
(* is on its way to the client.                                             *)
FailureNoted ==
    \/ \E r \in Request : status[r] \in {"partial", "aborted", "lost"}
    \/ mpc \in {"drain", "merge", "publish", "sweep"} /\ progress.failure > 0
    \/ \E i \in DoneAt : ~mailbox[i].success
    \/ \E w \in Worker : wpc[w] \in {"failed", "crashed"} /\ wjob[w] # None

RawOwned == \A f \in rawCopy : \E w \in Worker : wpc[w] = "split" /\ wjob[w].file = f

PathOwned(p) ==
    \/ \E w \in Sending : \E s \in wmid[w] \cup wpair[w] :
          p = SavePath(wjob[w].file, s)
    \/ \E x \in InPlay : x.src = p

DiskOwned ==
    \/ FailureNoted
    \/ RawOwned /\ \A p \in CachePath : cache[p] # None => PathOwned(p)

(* A merge file is on its way to storage, or its cycle ended in a failure.  *)
MergeFilesOwned ==
    mergeFiles # {} =>
        \/ mpc = "publish" /\ mergeFiles = {pair[1].out}
        \/ \E r \in Request : status[r] \in {"aborted", "lost"}

(* A manager that died at work lost a request; otherwise it left no piece.  *)
DiskAccounted ==
    ~disturbed =>
        /\ DiskOwned
        /\ MergeFilesOwned
        /\ mpc = "crashed" => AtRest \/ \E r \in Request : status[r] = "lost"

(* What is still to be uploaded or sent, or to be merged or swept, is on    *)
(* the disk.                                                                *)
Kept ==
    Undisturbed =>
        /\ \A w \in Sending : \A s \in wmid[w] \cup wpair[w] :
              cache[SavePath(wjob[w].file, s)] # None
        /\ \A x \in InPlay : cache[x.src] # None

-----------------------------------------------------------------------------
(* With a path of its own a segment is there or nothing is, and what is     *)
(* merged is what the pieces name.                                          *)
PathsRight ==
    /\ \A p \in Segment : cache[SavePath(p[1], p[2])] \in {p, None}
    /\ mpc = "publish" /\ Undisturbed => merged = [i \in DOMAIN pair |-> <<pair[i].job.file, pair[i].out>>]

-----------------------------------------------------------------------------
(* Jobs, and what is on the disk, being merged or in storage, are of files  *)
(* that a request taken up asked for.                                       *)
AskedFor == {r \in Request : status[r] \notin {"unsent", "queued", "dropped"}}
JobsAsked == UNION {JobsOf(r) : r \in AskedFor}
SegmentsAsked == UNION {SegmentsOf(r) : r \in AskedFor}

OnlyAsked ==
    /\ ToPush \cup Queued \cup Held \subseteq JobsAsked
    /\ toPush # <<>> => mpc = "drain"
    /\ \A p \in CachePath : cache[p] \in SegmentsAsked \cup {None}
    /\ \A n \in ObjectName : Range(object[n]) \subseteq SegmentsAsked
    /\ Range(merged) \subseteq SegmentsAsked

-----------------------------------------------------------------------------
(* Nothing of this second is to come in this cycle any more.                *)
Settled(s) ==
    /\ \A x \in InPlay : x.out # s
    /\ \A w \in Sending : s \notin wpair[w]
    /\ \A j \in ToSplit : s \notin Unprocessed(j.file)

(* What the job j found in second s will be in storage when the cycle ends, *)
(* or is there and stays.                                                   *)
SecureAt(j, s) ==
    \/ Stored(j.file, s) /\ (s \in Processed(j.file) \/ Settled(s))
    \/ s \in Unprocessed(j.file) /\ Piece(j, s) \in InPlay

Secure(j) == \A s \in Span[j.file] : SecureAt(j, s)

WorkerSecures ==
    \A w \in Sending : \A s \in Span[wjob[w].file] \ (wmid[w] \cup wpair[w]) :
        SecureAt(wjob[w], s)

ReportSecure == \A i \in DoneAt : mailbox[i].success => Secure(mailbox[i].job)

CountSecure ==
    mpc \in {"drain", "merge", "publish", "sweep"} =>
        \E G \in SUBSET (JobsOf(current) \ InFlight) :
            Cardinality(G) = progress.success /\ \A j \in G : Secure(j)

Secured == Undisturbed => WorkerSecures /\ ReportSecure /\ CountSecure

-----------------------------------------------------------------------------
(* Requests share no second at the edge of their files, those that the      *)
(* listener accepts: no object is meant for two of them.                    *)
EdgesApart ==
    \A q, r \in Request : Accepts(Envelope[q]) /\ Accepts(Envelope[r]) =>
        \A i \in JobsOf(q), j \in JobsOf(r) :
            Unprocessed(i.file) \cap Unprocessed(j.file) # {} => q = r

Unwritten(s) == object[PairName(s)] = <<>>

(* An accepted request whose files the manager has not listed yet.          *)
Awaits(r) ==
    /\ Accepts(Envelope[r])
    /\ status[r] \in {"unsent", "queued"} \/ (r = current /\ mpc = "collect")

(* A second of which something is to come has no object yet.                *)
WrittenOnce ==
    /\ current # None => Accepts(Envelope[current])
    /\ \A r \in Request : Awaits(r) =>
          \A j \in JobsOf(r) : \A s \in Unprocessed(j.file) : Unwritten(s)
    /\ Undisturbed => \A s \in Second : Settled(s) \/ Unwritten(s)

=============================================================================
