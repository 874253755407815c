# A TLA+ model of the sensor-data normalization daemon

The daemon takes requests from a Redis list, fetches a day's raw PCAP recordings
from S3, cuts each into pieces of one second, joins the halves of a second that
two recordings share, stores everything in S3 and notifies the client.  It is a
small program whose difficulty lies in what happens side by side: one manager
process and `WORKER_COUNT` worker processes over two queues, a local disk and an
object store, any of which may fail in the middle of a request.

Paths are relative to the repository; `manager.py` is
`src/app/normalizer/process/manager/manager.py`, `module.py` is
`src/app/normalizer/process/module/module.py`, `splitter` is
`src/pcap/local_pcap_splitter.py`.

## 1. Inventory

| Component | State | Operations | Interacts with |
| --- | --- | --- | --- |
| `NormalizerManager` (manager.py) | the request at hand, `_pair_buckets`, `_progress` | poll, collect, filter, push jobs, drain messages, merge, sweep, notify | listener, both queues, cache disk, S3 |
| `NormalizerModule` x N (module.py) | none between jobs | pop a job, download, split, upload MIDs, send PairPuts, send JobDone | both queues, cache disk, S3 |
| `PairBuckets` | pieces waiting for their other half, per second | `put`, `pop_all_remaining` | manager only |
| `JobProgressTracker` | remaining, success, failure | `begin_cycle`, `mark_one_done`, `is_done` | manager only |
| `LocalPcapSplitter` | none | `split_once`, `merge_pcap_files` | workers split, the manager merges |
| `NormalizationRequestListener` | Redis connection | `poll` | clients, by a Redis list |
| Messages (`protocol/`) | registry of decoders | encode, decode, dispatch | listener, workers, manager |
| Filter (`_collect_file_list`, `_filter_by_device`, `SensorRegistry`, `PcapFilenameParser`) | registry of module names | select the files of a request | manager |
| `PcapReader`, `MultiPcapReader`, `TimeCalculator` | reference time, packet pools | `read`, `reset` | no part of the daemon; reads the same files as the splitter |
| `PcapPool` | deque under a lock | `append`, `get`, `size`; `pop_front`, `clear` and others without a caller | filled by a reader |
| Packet bodies (`pcap/body/`) | none | dispatch on link type and protocol, `parse`, `payload` | the readers |
| Notifiers | none | `notify_success`, `notify_failure` | manager |
| Configuration, scripts | none worth a model | | |

What is hard about it:

* **Interleaving.**  Workers share the job queue, the cache directory and the
  object names; the manager reads a mailbox to which all of them write.
* **Ordering.**  That the last JobDone ends the drain is sound only because each
  worker sends a file's PairPuts before its JobDone and the queue keeps a
  sender's order.
* **Partial failure.**  An exception in a worker fails one job; one in the
  manager abandons the cycle, with jobs queued, workers running and messages on
  their way, and the manager goes on to the next request.
* **Stale messages.**  JobDone and PairPut name neither a cycle nor a request.
* **Restart.**  The daemon keeps everything but the Redis list, the local disk and S3
  in memory.  Killed in a cycle it leaves objects half written and files lying about,
  and the next request for the same recordings has to come out right all the same.
* **Waiting.**  The drain has no timeout: it ends by the counter or by `is_stop`.
* **Names.**  Cache paths come from the raw file's name (to the minute) and the
  packets' second; merged objects, and halves uploaded alone, from the second
  only.  Two things with one name replace each other.

What makes it correct, component by component: the manager must answer each
request, wait for reports that will come and only those, and call success only
what is in storage; the workers must report each job exactly once and leave the
disk clean; the buckets must not lose a piece; splitting and merging must give
the stream back; the filter must select what was asked for, once, and refuse only for a reason; a reader must find
the packets the splitter finds, take their fields from the right bytes and time them all by one clock.

## 2. Modules

Read them in this order; each extends the ones it needs.

| Module | Models | Lines of code |
| --- | --- | --- |
| `Recording` | raw files as sets of seconds; positions HEAD, MID, TAIL; the cache paths and object names built from them | splitter:27-80, 142-149; module.py:205-244 |
| `PairBuckets`, `JobProgress`, `RequestListener` | the three helpers of the manager, as operators | the files of those names |
| `SharedState` | the two queues, the cache disk, S3, the message types | `protocol/`, python_library as it is used |
| `NormalizerModule` | the worker processes | module.py:46-189 |
| `NormalizerManager` | the manager process and its clients | manager.py:69-214, 264-272 |
| `NormalizationService` | abstract: what a client may rely on, with no process in it | implemented by `Normalizer` |
| `Normalizer` | `main()`: the two side by side, and their restart; all properties of the daemon | main.py |
| `PcapSplit` | `split_once` and `merge_pcap_files` on packets | splitter |
| `CutRecording` | one undisturbed cycle seen at the level of packets | splitter, module.py:101-153, manager.py:168-214 |
| `DeviceFilter` | from a listing to the jobs of a cycle | manager.py:218-260, `sensor_category/`, `pcap_filename_parser.py` |
| `PacketBody` | the fields of a frame by link type and protocol | `pcap/body/`, `constants.py` |
| `PcapReading` | captures read packet by packet into a pool, as far as the reader comes | `pcap/reader/`, `packet_header.py`, `time_info.py` |
| `NormalizerInvariants` | the inductive invariants of the daemon | |
| `MCNormalizer`, `MCDeviceFilter`, `MCPcapReading` | instances for TLC | |
| `NormalizerProofs` | theorems: types, the sweep, reports owed, the Redis list and the abstract service without its store; the lemmas on queues and jobs the next ones use | |
| `AccountingProofs`, `PieceProofs`, `DiskProofs`, `StorageProofs` | theorems: where jobs, pieces, files and stored segments are; each uses the ones before | |
| `CutRecordingProofs` | theorems: splitting, merging and sweeping give the stream back | |
| `DeviceFilterProofs`, `PcapReadingProofs` | theorems on the filter and on the readers | |

Operators named `X_Something`, each before the `X` it varies, are faulty variants
of `X`: a plausible mistake in that code under which one of the properties must
fail.  They are not used by any specification.

### How the state corresponds

* `mpc` is where the manager stands in `_handle_request`; `current`, `toPush`,
  `pair`, `merged` and `unpaired` are locals of the functions on its stack, so an
  exception (`Abort`) forgets them; `buckets` and `progress` are attributes of
  `self`, so it does not.  `mstop` is what `is_stop()` returns.
* `wpc`, `wjob`, `wmid`, `wpair`, `wstop` are the same for each worker; `wmid` and
  `wpair` are what is left of `outcome.processed` and `outcome.unprocessed`.
* `jobQueue` and `mailbox` are FIFO sequences.  `pop_*` returns None on an empty
  queue and the callers sleep and retry, which is a disabled action.
* `cache[p]` is the segment the file at path `p` holds, `object[n]` the segments
  the S3 object `n` holds.  A segment is "what file `f` has in second `s`".  A
  save path that a second file overwrites really holds the other segment then.
* `status[r]` is what the client of `r` knows.  A job carries the request that
  pushed it for the properties only; no action's guard or effect reads it,
  because neither process can.

`mergeFiles` is the third part of the local disk: the seconds whose merge file is there.  It has a
directory of its own (`get_unpaired_merge_full_path`), is written by the merge, removed after its
upload, and left behind by an exception in between or a kill.

`disturbed`, `clocks` and `file` are observers too.  `disturbed` is set when
a cycle is abandoned after its jobs were pushed or a stop flag is set, and cleared by a
restart, which makes new queues.

A step of the model is as much as a process does before another can observe it:
one queue operation, one S3 call, one split, one merge.  `Split` is one step; an
interrupted one (`SplitRaises`) leaves any prefix of the pieces written, all of them when it is the
removal of the raw copy that fails.

`CutRecording` and `Recording` describe the same splitter at two levels.
`Normalizer` uses the segment level with all failures and interleavings; in
`CutRecording` nothing fails, but segments have packets in them.  `SplitAsRecorded`
ties the two: the splitter, applied to packets, yields the segments and positions
that `Recording` computes from the file as a whole.

In `PcapReading` a record is what its header tells, the bytes captured (`caplen`) and the bytes sent
(`packlen`) among it.  `PcapBodyFactory.parse` is given the latter, so the data of a body are the
captured bytes (`own`) and, up to `length`, whatever follows in the file: the next record's header
and body, or nothing where the file ends.  A byte in `PacketBody` is known by its place, such as
<<"ip", 12>>, the first byte of the source address, or <<"next", _>> for one that is not the frame's.
The wire's layout (`ByteOf`) and the numbers the six classes are written with (`UdpEthernet`, ...) are
given apart, so that a number is checked and not repeated.  A decoded number is the byte of each
weight (`Little`), a flag the bit of its byte (`Bit`); a slice past the end of the data is short or
empty, as in Python.  The class byte is read the same way: where it was not captured it is a byte of
the next record, and may say anything (`DetectProtocol`).

One iteration of `read` is one step: a record that yields a body (`ReadPacket`), one that has
none and ends the loop (`ReturnAtBody`), the end of the file (`ReturnAtEnd`).  After a body that ran past
what was captured the next header is read from the wrong place, and from then on the model reads
anything (`ReadStray`).

### Faults

`Fault` is the set of things that may go wrong in a run: `listing`, `job`, `merge`,
`sweep` (an exception in that part, from S3 or the disk), `stop` (the stop flag of
the manager or of a worker is set, at any time), `crash` (the manager or a worker is
killed, alone and for good), `redis` (the connection fails, with or without the message BRPOP
had taken, and poll raises), `restart` (the daemon is killed as a whole at any moment and
started again).  There is no handler for the last three: the model says what is left.
Failures that follow from the state are not faults: a raw copy or a cache
file that another process removed makes the step that needs it raise in every run.

## 3. What the runs check

All passing runs explore their state space to the end.

| Run | Bounds | Shows |
| --- | --- | --- |
| `normalizer_safety` | 4 files, 3 requests, 2 workers; `job` and `listing` may fail | what a cycle that runs to its end guarantees |
| `normalizer_answers` | 2 files, 2 requests for the same files, 2 workers; every storage call and Redis may fail, any number of restarts | what survives failures, that each request is answered, and the refinement |
| `normalizer_stop` | 2 files, 1 request, 2 workers; stop and kill of the manager or a worker at any moment, merges fail | every process that is told to stop does |
| `cut_recording` | 5 packets, 3 clock values, carry 0 or 1, 2 files | the stream is restored |
| `device_filter` | 3 registered modules, 1 unknown, names with and without an extension, 2 vehicles, listings of up to 2 files | selection and refusal |
| `reading_filtered` | captures of up to 2 records, any number of them, frames and captured parts of 0, 24 or 90 bytes, 4 link types, 2 clock values, with and without a filter | times, fields, and agreement with the splitter |

`normalizer_safety` has 570 000 distinct states, `normalizer_answers` 426 000,
`device_filter` 340 000, `reading_filtered` 253 000 and `normalizer_stop` 140 000; `cut_recording` is smaller.

**normalizer_safety.**  f1, f2 and f3 are consecutive recordings: the last second
of f1 is the first of f2, the last of f2 the only one of f3, so this second has a
TAIL and a HEAD while f1 has a MID between its edges.  f4 belongs to another
recording and to the second request, so the effect of one cycle on the next is
seen.  A third request is addressed to another receiver.

* `CycleEndsDry`: when the counter ends the drain, no job is queued or held and no
  message waits.  This is the argument for a sweep without a second look.
* `SuccessMeansProcessed`: success is notified only with no job outstanding and as
  many successes counted as files.
* `CountedMeansStored`: when a cycle is answered, at least as many files are wholly
  in storage as successes were counted, whoever uploaded their pieces and
  whichever other jobs failed.
* `MergesBothHalves`, `StoredStays`: a merged object is made of two different
  files' halves of its second; no upload replaces an object by one that lacks
  something it held.  `WrittenOnce` is the reason: while something is still to come of a second,
  its object is not written.
* `SweepLosesNothing`: no bucket holds more than the one piece the sweep reads.
* `DiskCleanAtRest`, `BucketsFresh`: between cycles nothing of a successful one is on
  disk, raw copies, pieces and merge files alike; no piece of another request is in the buckets of a cycle.

`Adjoining`, the assumption in `CountedMeansStored`, says that cache paths are
distinct and that a second is shared by two files at most, each at an edge; it
holds of this instance.  The runs `same_minute` and `short_recording` show what
happens where it does not.  `Interrupted` excludes cycles that come after an aborted
one or after a stop; the runs below show why it has to.

**normalizer_answers.**  The second request names the same files as the first, so jobs
an aborted cycle left in the queue meet the new ones on the same cache
paths and the same raw copies.

* `TypeOK`, in which `remaining \in Nat`: stale reports never drive the counter
  below zero.
* `ReportsOwed`: while the manager drains, it waits for no more reports than there
  are jobs still to report.  This is the safety half of "the drain ends".
* `InLine`: the Redis list holds each queued request once and nothing else, and the request
  that runs is the one in the manager's hands.
* `RequestAnswered`: every queued request is answered or dropped, or lost with the
  process or connection that had it.  A manager that Redis took down and that nobody starts
  again leaves its list waiting; that is the only way out.
* `ServiceProvided`: `Normalizer` implements `NormalizationService`, with the Redis list as
  its line, the client's knowledge as its outcomes and the segments in S3 as its store.  The
  abstract service knows no process: requests are taken in order, one at a time and once;
  what was lost in the hands of a killed daemon is never answered later; nothing is stored that no
  taken request asked for; and a success means that every segment of the request is in storage,
  also after any number of restarts that left half a cycle on the disk and in S3.  Only a
  cycle abandoned by an exception or a stop *in the same run of the daemon* suspends the last
  claim (`disturbed`), because its jobs and messages live on in the queues; a restart
  reinstates it.

**normalizer_stop.**  The inductive invariants of section 4, `Accounted`, `Pieces`, `DiskAccounted`
and `Secured`, are checked here, where a cycle may be cut short in every way: they must hold up to
that moment and must not claim anything after it.  `StopHonoured`: a manager told to stop leaves a drain whose workers
are dead or stopped; a worker finishes its job and leaves.  In this run a process
may stop for good, so deadlock is not checked; the same holds of the pure
algorithms (`cut_recording`, `device_filter`), which end.

**cut_recording.**  `StreamRestored`: each complete packet is in exactly one object,
under its second, once, and each second has one object.  `FileOrderKept`: no object shuffles
the packets of a file.  Carry 1 is a `caputime` of a full second or more; the last record may
be cut off.  The stream is in clock order, as a recorder writes it.

**device_filter.**  `KindSelects`: ALL or a kind selects exactly the finished files of that
kind and vehicle.  `NoFileTwice`: no file becomes two jobs, although a
file may match by type and by name.  `RefusedForNames`: a request for anything but ALL is refused
exactly if the vehicle asked for has a finished file whose name the parser cannot take apart
(`IndexError`, no ".") or whose module is not registered (`KeyError`), wherever in the listing it is.

**reading_filtered.**  A reader per file, alone or by `MultiPcapReader`, with resets in between.

* `ReadersAgree`: of the records it comes to, the reader finds those the splitter finds (`Readable`
  of `PcapSplit`), less those the filter drops, in order and once; and perhaps one more, the
  short packet the file ends in.  The reader comes to the records before an empty body, at which it
  stops, and up to the first snapped one, after which it is astray; the splitter goes on in both
  cases.  A snapped record whose class byte was not captured may be kept or dropped, as its
  neighbour's bytes have it.
* `LaterFilesAgree`: once the reference is set every file is timed by it; `ClocksRunAlike`:
  within a file the clocks differ by constants, whatever was dropped.
* `BodiesAligned`: five of the six classes read protocol and addresses, all six the checksum and those
  of UDP length and payload, where the headers put them, as far as the bytes were captured; and those of TCP
  take ack and psh from the two bits they are in.  `TcpLinuxSllV2` keeps the IP header of an older
  layout on purpose (linux_sll_v2.py:11).  The payload of TCP is taken to start 32 bytes after the IP
  header, which is right for a TCP header with timestamps and nothing else; nothing is claimed of it.
  Nor is it claimed that a number has its bytes in the right order or that ack is ack: see the findings.

### Why the bounds are enough

Two workers suffice for every pair of conflicting steps; a third adds no new pair,
since all workers run the same code and the manager takes one message at a time.
Pairing needs two halves, its failure three.  An aborted
cycle can disturb later ones only through the queues and the disk, which two requests
for the same files exercise; a restart can do so only by the disk and S3, which the same two
requests exercise, and restarts are not bounded.  Two files give a job in progress beside one in the queue.
Frames of 90 bytes have room for every header, 24 captured bytes end behind the class byte of an
Ethernet frame and before that of the other two link types, 0 is an empty body: a record may be
whole, snapped on either side of the class byte, or empty, and a file may end in any of them.
Two records give a packet and its successor, and any number of files follow each other.
Workers are symmetric in `normalizer_safety`; symmetry is not used where a
temporal property is checked under fairness.

### Fairness

`FairSpec` assumes weak fairness of each process's loop: of the manager's steps and of
each worker's steps.  The code justifies it: these are operating system processes that
run `while not is_stop(): action()` and sleep only for bounded times.  Nothing is
assumed about clients, stop flags, crashes or the result of a call; an S3 call is
taken to return or raise in the end.

### Findings

Runs that are expected to fail, each against what the repository says of itself:

| Run | Property | What happens |
| --- | --- | --- |
| `stale_job_done` | `SuccessMeansComplete` | a merge fails while jobs are running; the cycle is aborted; their JobDones are counted in the next cycle, which ends early and is notified as a success |
| `same_minute` | `MergesBothHalves` | two raw files of a module within one minute use the same cache paths: the HEAD of one overwrites the TAIL of the other before they are merged |
| `midnight` | `StoredStays` | the last second of one request's files is the first of the next one's: each half is swept alone, under one name, and the second replaces the first |
| `short_recording` | `StreamRestored` | a file within one second gives this second three halves: two are merged and the third, swept alone, replaces the result |
| `snapped_capture` | `OnlyRecords` | the splitter's description of a capture gives a record `caplen` bytes; the reader reads `packlen`, so a snapped packet gets bytes of the next record and the next header is read from the middle of one |
| `date_not_text` | `ManagerSurvives` | a date that is a JSON number makes `fullmatch` raise outside the `try`, which ends the manager |

Seen while modelling, without a run of their own:

* PairPuts of an aborted cycle enter the buckets the next one has just reset (`BucketsFresh` with the
  fault `merge`); a manager stopped in a drain sweeps and notifies success (`SuccessMeansComplete` with
  the fault `stop`).
* application.conf:48 offers a single device name as a selection; the name is lowered and looked for in
  file names that are in upper case (manager.py:258), so nothing is selected and the empty cycle is a
  success (`OccursInName`).  "all" in lower case is not ALL and selects nothing either
  (`KindSelects` speaks of the enum's spelling).
* time_info.py:13 counts the time of several files from the first packet of the first; when a filter
  drops that packet, the first file is timed by it and the next ones by the first packet kept
  (`Reference`, multi.py:28).
* ip_header.py:59-60 takes ack from bit 3 of the flags and psh from bit 4, in TCP it is the reverse
  (`TcpFlags`).  ip_header.py:42-43 reads length and checksum of UDP as little-endian numbers, while UDP sends
  them big-endian, and from +4 and +6, not from +6 and +8 as its docstring has it (`UdpHeader`).

## 4. What is proved

`tlapm` checks, for every set of files, requests and workers, every `Span`, `MinuteDir`, `Envelope`
and `Folder`, and every set of faults; for listings, captures and streams of any length, and
streams cut into any number of files.  Every invariant of a passing run is among them:

| Theorem | States | Hypotheses |
| --- | --- | --- |
| `TypeCorrect`, `SweepComplete`, `OwedCorrect` | `TypeOK`, `SweepLosesNothing`, `ReportsOwed` | |
| `RequestsInLine`, `LineServed` | `InLine`, the service without its store | |
| `AccountCorrect`, `DrainEndsDry`, `SuccessIsWhole` | `Accounted`, `CycleEndsDry`, `SuccessMeansProcessed` | |
| `PiecesCorrect`, `FreshBuckets` | `Pieces`, `BucketsFresh` unless interrupted | |
| `PathsCorrect`, `HalvesMeet` | `PathsRight`, `MergesBothHalves` | `OwnPaths`; uninterrupted for the second |
| `DiskCorrect`, `DiskClean` | `DiskAccounted`, `DiskCleanAtRest` | uninterrupted |
| `NoneCutShort`, `CalmDaemon` | never `Interrupted`; the three above unreserved | `OwnPaths`, `NothingCuts` |
| `SecureCorrect`, `CountStored` | `Secured`, `CountedMeansStored` | `Adjoining` (part of the second property) |
| `OnlyAskedStored` | `OnlyAsked` | |
| `OnceWritten`, `NothingReplaced`, `CalmStorage` | `WrittenOnce`, `StoredStays`; the second unreserved | `Adjoining`, `EdgesApart`; uninterrupted or, for the third, `NothingCuts` |
| `ServiceImplemented` | `ServiceProvided` | `Adjoining` |
| `NothingTwice`, `KindIsSelected`, `RefusedExactly` | `NoFileTwice`, `KindSelects`, `RefusedForNames` | |
| `SplitRecorded`, `OrderOfFiles` | `SplitAsRecorded`, `FileOrderKept` | |
| `StreamAgain`, `StreamOfTwo` | `StreamRestored` | `NoThird`; `Files <= 2` |
| `OneReference`, `ClocksDifferByConstants` | `LaterFilesAgree`, `ClocksRunAlike` | |
| `SamePackets` | `ReadersAgree`: the records the reader comes to, with the reservations section 3 makes | |
| `FieldsInPlace` | `BodiesAligned`: the bytes of the fields, as far as they were captured | |

The hypotheses are about how raw files lie, and each is needed: `OwnPaths`, `Adjoining` and
`EdgesApart` are what `same_minute`, `short_recording` and `midnight` violate.  One recording per module
cut into files longer than a minute satisfies the first two, and the third if requests ask for
whole recordings, each once.  *Uninterrupted*, `[]~Interrupted`, is the reservation the runs make too;
`NothingCuts`, no exception in a merge or the sweep and no stop, makes it a theorem
(`NoneCutShort`): whatever jobs and listings fail, and however often the daemon is killed or
restarted, no step of a cycle finds a file missing that it needs.  `normalizer_safety` is an
instance that satisfies all of them.  `LineServed`, `OnlyAskedStored` and the first rows need none.
`NoThird`, no second with packets in three raw files, is what is left of `Adjoining` at the level
of packets: `short_recording`, three files of which one lies within a second, violates
it, and with it `StreamRestored`; `cut_recording`, with two files, is an instance of `StreamOfTwo`.

### The daemon

* `TypeOK` is inductive as it stands.  Beside types it says that the manager has a request exactly
  while it is in a cycle, that a worker at work has a job, that what it has still to deliver are
  segments of that job's file, and that the counter is never negative.  The last needs the guard of
  the drain loop: a message is taken only while `remaining > 0`.  Kills and restarts are steps like
  any other.  `SweepLosesNothing` follows with `put` emptying a bucket at its second piece.
* `ReportsOwed` is inductive with `TypeOK`.  `InFlight`, the set of jobs to be pushed, queued, held
  or reported, is finite; a worker's step never removes a job from it (`WorkerKeepsJobs`), since a
  job leaves a worker's hands with its report; a step of the manager removes one job at most, with
  the JobDone that lowers the counter (`ManagerKeepsOwed`).  A killed worker keeps its job, so its
  report is owed for ever; that is why only liveness, which assumes no kill, can conclude that the
  drain ends.
* `Accounted` turns this inequality into an equation while nothing was cut short.  The counter is the
  number of jobs in flight only if no job is counted twice, so each job has one holder
  (`OneHolder`); and a drained mailbox follows from the counter only if every PairPut is
  followed by a JobDone of its job (`ReportsTrail`).  Between cycles nothing is left (`Dry`).
  `CycleEndsDry` and `SuccessMeansProcessed` are read off it.
* `Pieces` follows the halves of a second from the mailbox through the buckets to a merge or the sweep.
  Each is in one place at most (`PieceOnce`) and is one its worker no longer has to send; a pair
  has two jobs and leaves its bucket empty (`TwoHalves`).  With `OwnPaths` a cache path holds
  its segment or nothing (`PathsRight`), so what is merged are the two segments the pieces name,
  which is `MergesBothHalves`.
* `DiskAccounted` gives every file on the disk an owner: a worker for the raw copy and the pieces it has
  still to upload or send, a piece in play for the rest; and a merge file its upload (`MergeFilesOwned`).  A failed job leaves files
  behind, so the claim is made unless a failure is on its way to the client (`FailureNoted`).  Its
  converse, `Kept`, says that what is still needed is there, whence `NoneCutShort`.
* `Secured` is about storage.  A segment is secure when it is stored and no later piece of the cycle
  can replace its object (`Settled`), or when its piece is in play.  Every segment a worker has
  delivered is secure, so is every job that reported a success, and there are as many secure jobs as
  successes counted.  `Adjoining` keeps a third segment from the object of a pair.  At the end nothing is in play, so
  secure means stored.
* `WrittenOnce` is `Settled` from the other side: a second of which a piece is still to come has no object yet.
  So an upload under the name of a pair replaces nothing, which is `StoredStays`; a worker's MIDs are
  written again only by their own segment.  Within a cycle it follows from `Settled`, as an upload
  takes all there is of a second.  Across cycles it needs `EdgesApart`, that accepted requests
  share no second at the edge of a file: then the files of a request not yet listed
  (`Awaits`) have no such object, and they are what the next cycle begins with
  (`CollectSettles`).
* `InLine` is inductive with `TypeOK`.  `StepOfLine` sorts the daemon's steps into six kinds, most of
  them quiet; each kind is a step of the service without its store or a stutter (`LineSteps`).
  `ServiceImplemented` adds the store: what it gains was asked for by a request taken up
  (`OnlyAsked`, which also covers the jobs and files a killed cycle left), and a success has
  all of it (`Secured`, with as many successes as files).

### The splitter

* The loops of `split_once` are recursive functions over the records and over the pieces.  What they
  compute is proved from `LeastNumber`, that a set of numbers has a least one, and `UpTo`: the
  library's induction rules take an operator as a parameter, which the provers cannot instantiate,
  but that finite sets are well founded under inclusion is stated without one, and the intervals below
  the members of a set of numbers are such sets.  `Loop` gives a recursive function its value at each index.
* `SplitRight` says what a split is, without a loop: one piece per second with packets, by ascending
  second, holding exactly the packets of that second in their order (`GroupsRight`, `SortedRight`),
  the first and the last piece unprocessed and the rest processed (`ListedRight`).
  `SplitRecorded` compares this with what `Recording` computes from the file as a whole, so
  the daemon's proofs, which are about segments, are about what the splitter makes.
* `IInv` is inductive.  `RawOK`: each raw file has numbered packets by ascending second, and the files
  follow each other.  `QueuesOK`: what a worker has still to upload are MIDs of its file, what it has still
  to send are edges, each with its packets and by ascending second.  `Made`: whatever waits in a bucket is one piece of one file, and an object is
  nothing, such a piece, or two of different files one after the other; `FileOrderKept` follows, in either order of
  arrival, since each piece keeps its file's order.
* `AllPlaced` adds that nothing is lost, and needs `NoThird`: of a second of which no piece was delivered
  there is nothing, of one with a single delivery the piece waits in its bucket, or
  is stored once the sweep is over, of one with two deliveries the pair is stored and the bucket empty.  At the end
  every piece was delivered.  A MID shares its second with no other file (`MidAlone`), because the stream
  is in clock order, so a second never has an object of both kinds.

### The filter and the readers

* `InOrder`, for `NothingTwice`, says that the selected positions ascend and were looked at.
  `NothingTwice` discharges what `ManagerAssumption` takes for granted of `Folder`.  `Filtered`, for the other two, says that what was
  kept so far are the files that fit among those looked at, and that those passed without an
  exception have known names.  `KindIsSelected` needs to know that a device named like
  a kind is of that kind, as GNSS is (`FilterAssumption`).
* `Reading` ties the locals of `read` to the packets kept so far: each was timed by
  the first packet read and the reference this reader was given, and a reader at work was given the reference
  that is current, if there was one (`OneClock`).
* `Finding`, for `SamePackets`, says of the records read so far what was kept of them: nothing the filter
  drops (`FoundRight`), everything it lets pass (`FoundAll`), each once and in order, and strays only
  after a packet not captured whole (`InTurn`).  It needs to know which byte the class was read from
  (`ProtocolSeen`).  At the return this is compared with what the
  splitter reads of the same file (`Readable`).
* `FieldsInPlace` rests on `IpSlice`, `TransportSlice` and `PayloadSlice`: bytes counted from where a header
  starts are the bytes of that header, for every link type, as far as they were captured; a slice that
  runs out of data is short.  Each class is then a matter of its own offsets (`TableOffsets`).

The assumptions are `RecordingAssumption`, `SharedAssumption`, `ManagerAssumption`,
`WorkerAssumption` (finitely many workers), `CutAssumption`, `FilterAssumption` and `ReadingAssumption`; TLC
evaluates each of them.

### Only model-checked

* The liveness properties, `RequestAnswered` and `StopHonoured`: no prover here handles fairness.
* The runs that end in a violation: what they show is a behaviour, not a law.

## 5. What is not modelled

* The values of bytes: which bytes and bits a field is made of, and in which order, is modelled, not
  what number comes out.  JSON keeps strings and flags as they are and is not spelled out.  The
  splitter copies records unchanged.
* What the reader finds once it has lost its place in a file: any packets at all.
* Half-written files: a failed split leaves whole pieces or none of each; a download that
  fails leaves nothing.  A later attempt overwrites what there is.
* `os.remove` failing after a successful upload: the step is taken to fail as a whole, which leaves the
  same files but not the object.  After a split it is modelled (`SplitRaises`).
* The sender of packets: `pop_front`, `peek_front`, `clear` and `is_full` of the pool have no caller in the
  repository, and no caller gives a pool a bound.  `register()` of the body factory and `close()` of
  the listener have none either.
* A second instance of the daemon, or a restart of one process beside the others: nothing in the
  repository does either.
* Names under daylight saving: pieces are named by local time, which repeats an hour; a second is
  identified with its name.
* `Folder` is fixed per request: files that arrive in S3 during a cycle are not seen by it,
  because the listing is read once.
* Transport of notifications, logging, configuration, the two scripts, start-up of the processes
  (a worker that fails to connect is one that was killed).

## 6. Plan

Done in this order, the most important behaviour first: the shared state and the two
processes; the daemon's safety, its answers and stops; the first theorems; the splitter on packets;
the filter; kills, restarts and failing Redis; the abstract service and its refinement; the
readers and the packet bodies; then the proofs of section 4, from the accounting of jobs to
the store of the service and to what stays in it, and those of the filter and the readers.  Of the
properties the passing runs check, the two under *Only model-checked* have no theorem.
