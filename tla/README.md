# FleetSentinel in TLA+

FleetSentinel carries sensor readings from vehicles to dashboards. A vehicle
writes every reading to a write-ahead log (WAL), ships it over gRPC to a gateway,
the gateway writes it to Kafka, a Flink job removes duplicates, raises alerts and
feeds ClickHouse, and an API serves live alerts and recorded sessions to a browser.

These modules describe the part of it whose correctness depends on order, failure and
concurrency. Paths below are relative to `src/`.

## The system

| Component | State it keeps | Operations | Talks to |
|---|---|---|---|
| **Write-ahead log** `exploration/fleetsentinel_ingest/wal.py` | segment files, `COMMIT`, `DROPPED`, `boot_id`, the next seq, a write buffer | `append`, `flush`, `commit`, `WalCursor.read`, recovery, the disk cap | the shipper reads it and commits to it from another thread |
| **Shipper and transport** `shipping.py`, `grpc_transport.py`, `scripts/ship_to_gateway.py` | `_next` (first unshipped seq), the pending queue, one RPC at a time | `pump`, `on_ack`, `send`, resend after a break, `close` | gateway over a bidirectional gRPC stream; acks come back on it |
| **Gateway ingest stream** `gateway/.../grpc/IngestService.java`, `ack/AckTracker.java`, `kafka/RecordPublisher.java` | per stream: in-flight count, ack tracker, `closed`, `clientDone` | `onNext`, the Kafka callback, the flush timer, `onCompleted`, cancel | Kafka, the vehicle |
| **De-duplication** `flink-pipeline/.../dedup/` | per vehicle: a 4096-bit sliding bitmap, `lastSeen`, `contiguous`, `lost`, `bootId` | `processElement` | reads the telemetry topic, feeds every other function of the job |
| **Segment upload** `segment_upload.py`, `scripts/ship_segments.py`, `gateway/.../grpc/SegmentUploadService.java` | upload state on disk, multipart uploads and objects in the store, references in the log | `upload`, `resume`, `begin`, `complete`, `refresh`, `abort` | object store, gateway over unary gRPC |
| **Peer identity** `gateway/.../identity/` | none | per-call check | gateway services |
| **Decode and validation** `flink-pipeline/.../transform/` | none | map, filter, side output | Kafka sources |
| **Alert functions** `flink-pipeline/.../alert/` | per vehicle: open excursion, last seen, timers | `processElement`, `onTimer` | the alert topic |
| **Storage sink** `flink-pipeline/.../sink/` | a batch in memory | `invoke`, `flush`, `snapshotState`, `close` | ClickHouse |
| **Alert hub** `api/.../alert/` | subscribers, a bounded history | `publish`, `subscribe`, `heartbeat` | Kafka consumer, browsers by SSE |
| **Replay stream and queries** `api/.../web/StreamController.java`, `query/` | per browser: a replay cursor | `push`, `broadcastEpoch` | ClickHouse, browsers by SSE |
| **Browser store and SSE client** `frontend/src/` | signals, events (300), alert ids, epoch | `ingestAlert`, `pushEvent`, `connect`, `scheduleRetry` | the API |
| **Vehicle driver and Kafka verifier** `scripts/ship_to_gateway.py`, `scripts/verify_kafka.py` | what is left to send, a stall clock | `main` appends a dataset, ships it and judges itself; the verifier reads the topics | log, transport, Kafka |
| **Loopback harness** `shipping.py` (`LoopbackGateway`) | a log file, an ack tracker | `send`, `flush_ack`, `read_gateway_log` | the shipper, in one process |
| **Dataset readers and file writers** `nuscenes_source.py`, `mcap_writer.py`, `batching.py`, `scripts/convert_scenes.py`, `scripts/verify_mcap.py` | clips, a manifest | extraction, conversion, check of the clips | files |
| **Validation campaign** `scripts/flink_validation/run_campaign.py` | the load's counts, a fault thread, results of the runs | preflight, load, fault, drain, judgement | docker, Kafka, ClickHouse, Prometheus |
| **Browser components, deployment** `frontend/src/`, `infra/`, statistics scripts | – | – | – |

A record's identity is `(bootId, seq)`: one boot id per life of a WAL directory, and
a seq that never repeats inside it. Everything downstream rests on it.

### What is hard

* Four processes fail separately; the vehicle may lose its process or its power at any
  file operation, and streams break at any message.
* The gateway answers Kafka callbacks, timer ticks and transport calls on three threads.
* A stream that the vehicle has given up may still be served next to its successor: the
  design has no fencing (limit A-L1 of `docs/ack-dedup-design.md`).
* Acks are cumulative and Kafka completes writes out of order.
* The bitmap's slots are used again every W seqs, and nothing but the vehicle's
  in-flight window (1024) keeps what is still due inside it (W = 4096).

The full list, each entry at its line with the properties that would catch it going
wrong, is in `PROJECT.json` under `hazards`.

### What makes each component correct

* **WAL**: a seq names one reading for ever; an unacknowledged record is held or
  journalled as dropped; a reader misses nothing; the disk stays bounded.
* **Transport**: what is not committed is resent; the commit point covers only what
  went downstream.
* **Ingest stream**: an ack covers written records only and never moves back; the
  in-flight count never leaks; a half-closed stream ends; a quiet vehicle gets its ack.
* **De-duplication**: nothing passes twice, nothing new is taken for a duplicate, and
  the loss count is exact and final.
* **Segment upload**: a reference names an object that is whole; no whole object is
  forgotten; every upload that was begun ends as a durable reference, which is not repeated.
* **Alerts**: one raise per confirmed excursion, one clear for each raise; a silent
  vehicle is reported.
* **Sink**: a checkpoint covers only inserted rows, and a row is inserted again only as often
  as something failed.
* **Alert hub, browser**: a connected browser misses no alert the hub keeps, the board shows
  what the latest alert says, a tab has one connection at most.
* **Replay**: between two epochs every signal is sent, or its loss has a cause; the replay
  comes round and says so.
* **Driver, harness**: a driver that returns 0 left everything in Kafka, and it returns;
  the harness repeats exactly what was written and not committed.
* **Campaign**: "passed" is true, the campaign ends and leaves nothing paused.
* **Clips and series**: the verifier passes whole clips only; windows and joins are exact.

## Modules

| Module | Models | Of |
|---|---|---|
| `SeqWindow` | the bitmap and the verdict of one vehicle's de-duplicator | `SeqWindow.java`, `DedupFunction.processElement` |
| `SeqWindowLoops` | the same two loops turn by turn, for comparison | `SeqWindow.advance`, `pullContiguous` |
| `SeqWindowProofs`, `WalProofs`, `DeliveryProofs`, `SegmentUploadProofs` | theorems about the module each is named after, and proofs | |
| `ServingProofs` | the same for the gateway stream, the sink, the replay and live alerts, alone and as `MCServing` runs them | |
| `AlertsProofs`, `ToolsProofs` | the same for the alert functions, and for driver, harness, campaign and clips | |
| `IntervalTheorems` | what Min, Max and a run of integers are: lemmas those proofs share | |
| `Wal` | segments, buffer, page cache, disk, recovery, disk cap, one cursor | `wal.py` |
| `AckTracker` | the cumulative ack, pure operators on a record | `AckTracker.java` |
| `IngestStream` | one stream in the gateway | `IngestService.java` (`StreamHandler`) |
| `ExactlyOnce` | abstract: each seq goes downstream at most once, and the commit point covers only those that did or that the disk cap dropped | `docs/ack-dedup-design.md` |
| `Delivery` | shipper, transport, streams, gateway, Kafka and de-duplicator, composed | `shipping.py`, `grpc_transport.py`, `IngestService.java` |
| `SegmentUpload` | runs of the uploader, the gateway's `complete()`, the object store, the references in the log | `segment_upload.py`, `ship_segments.py`, `SegmentUploadService.java` |
| `OddBoundary` | excursions from the operational design domain and their timer | `OddBoundaryFunction.java` |
| `VehicleMonitor` | unplanned stops, sensor faults and silence | `VehicleMonitorFunction.java` |
| `SeqDedup` | the second implementation of the de-duplicator, for comparison | `dedup.py` |
| `Driver` | runs of the vehicle's driver over one log, with the transport's threads, and the verifier | `ship_to_gateway.py`, `verify_kafka.py` |
| `Loopback` | the shipper over the in-process gateway, with restarts | `shipping.py`, `dedup.py` |
| `StorageSink` | batches, checkpoints, failures and restores of the sink | `ClickHouseSink.java` |
| `ReplayStream` | the replay cursor and the windows it asks for | `StreamController.java`, `TelemetryQueries.java` |
| `LiveAlerts` | an alert's way from Kafka through the hub and an SSE connection to the board | `AlertHub.java`, `sse.ts`, `telemetryStore.ts` |
| `Campaign` | a validation campaign with its fault thread | `run_campaign.py` |
| `Clips` | conversion of scenes, killed anywhere, and the verifier of the clips | `nuscenes_source.py`, `mcap_writer.py`, `convert_scenes.py`, `verify_mcap.py` |
| `Series` | nearest value, windows, joint order of channels | `nuscenes_source.py`, `batching.py` |

`Delivery` EXTENDS `AckTracker` and `SeqWindow`, whose every record carries `ThisBoot` there;
`Loopback` EXTENDS `AckTracker` and instantiates `SeqWindow` with one boot. Both refine
`ExactlyOnce` with `issued <- walNext, times <- passed, acked <- commit` and
`kept <- floor`, or 0 for `Loopback`, whose log has no cap.
`MC*` modules are the instances TLC runs. An operator marked `Mutant` is a plausible bug
in the definition after it, and no specification uses it. `MCAlerts`, `MCServing` and
`MCTools` hold several components that share no state: a behaviour is one of one of them
(`subject`), and the properties of each go by its name. `MCServing` EXTENDS three of them,
which is why the definitions of `StorageSink` and `LiveAlerts` have names of their own
(`SinkNext`, `LiveNext`).

### State and actions

**SeqWindow.** `win` is the Flink state object; `passed` counts what was collected since
the last `reset()`, `base` is where that reset put `contiguous`. A record takes one of
four actions by its verdict: `OpenWindow` (FIRST, BOOT_RESET), `Accept`, `Late`, `Drop`
(DUPLICATE, TOO_OLD). `advance()` and `pullContiguous()` are closed forms (`Missed`,
`Reused`, `Pulled`), so that they can be reasoned about; `SeqWindowLoops` has the Java
loops, and `LoopsAgree` compares them on every reachable window.

**Wal.** `files` maps a segment's first seq to its end and to the end of its fsynced
part. A record moves from Python's buffer (`flushed`), to the page cache, to the disk
(`safe`). Its content is the life of the process that wrote it. Public methods hold one
lock, so they do not interleave, but `commit()` and `_enforce_disk_cap()` are one step
per file operation (`busy` names the next), because a kill can fall between them. `Kill`
keeps what left the buffer; `LosePower`, only in `PowerSpec`, keeps what was fsynced and
any prefix of the rest. `Recover` is `__init__`.

**IngestStream.** `handler` holds the fields of `StreamHandler`; `hand` is a record
between the two critical sections of `onNext()` (`Receive`, then `Publish` or
`Refuse`). `Written` and `NotWritten` are the Kafka callback; a failed write may still
be in the log (`w = {s}`). `FlushTick` is the timer; `HalfClose` and `Cancel` come from
the transport. `ok = FALSE` is an `onNext()` of the response that throws.

**Delivery.** `queue` is `_pending`, `sentTo` how far the present RPC was given it,
`wire` and `writing` what is under way per stream. A broken RPC's stream stays in
`open` until the gateway closes it, so old and new streams write side by side.
`AppendRecord(keep)` is `append()` with the disk cap that follows it in the same call: what
lies below `floor` is dropped, and `Pump(n)`, one call that sends n records, steps over it
like the cursor (`NextHeld`).

`Ends` is what the end of the process forgets: `Kill`, and, if the process is the driver script (`Driven`), the three ways out of its loop. `Finish` is the
ordinary one, everything put into the queue, which waits for no ack and is bounded by
nothing; `Fail` follows a lost stream (`terminal_error`); `Stall` is the timeout, which the
model lets fire only where nothing else can happen (`Quiet`).

**SegmentUpload.** `intent` is the directory of state files, `job` the `UploadState` in
memory, `pc` where the run is; a run handles pending uploads first, then its clips, then
publishes. `Publish` acknowledges any part of what is left of the log, or none: `_publish()`
queues it and closes the channel. The gateway's `complete()` is a handler of its own (`FinishUpload`, `Verify`,
`DeleteBroken`), because it goes on when its caller dies, and so may a PUT (`stray`).
`wal` and `safe` are the log and what of it was fsynced; what lies below `opened` was
written by an earlier run and is not in its open segment.

**OddBoundary, VehicleMonitor.** One action for `processElement()`, one for `onTimer()`,
and a clock. `alerts` is what was collected; `track` is the history of what was heard,
which the function does not keep: the properties say what the alerts must be from the
history alone, while the code decides from a few values of state. Flink calls a timer at
its time or up to `TimerLag` later, with elements in between.

**Driver.** `pc` is where `main()` is; `Begin` is everything up to the first append (wiping
the directory unless `--keep-wal`). `pending`, `unsent`, `start` and `error` are the
transport, whose threads are `Carry`, `ReadAck` and `Break`. `Verify` is what
`verify_kafka.py` would say of the topic.

**Loopback.** `send()` is two steps (`Write`, `Take`), because a kill may fall between the
line in the log and the ack that covers it; `Take` is also where `on_ack()` is called back.

**StorageSink.** `flush()` reaches one table per step, so a failure may leave half a batch
inserted. `Barrier` is the checkpoint's flush, `Snapshot` the answer, `Complete` and
`GiveUp` the coordinator; `Fail` is any exception, with or without the insert's effect, and
runs `close()`; `Restore` rewinds the source.

**ReplayStream.** One step per `push()`, which Spring runs one at a time. `lost` records, for
the properties, the signals the code has a reason to skip.

**LiveAlerts.** Numbers stand for event ids in the order of detection. `RestoreJob` is the alert
job's, which repeats alerts; `RestartApi` empties the hub, whose consumer then reads the
topic from the beginning. `link`, `timer` and `visible` are the SSE client, `feed` (with its
ids) and `board` the store.

**Campaign.** `pc` is `main()` and `run_load()`, `thread` is `inject_fault()`. Docker commands
fail with or without effect, or hang. What the load saw is read where the code reads it.

**Clips.** A dataset is the chain of one sensor over two scenes. Clips and the manifest outlive
a run that dies.

## Runs

| Run | Instance | States | Shows |
|---|---|---|---|
| `seq_window` | W = 8, seqs 0..12, 2 boots | 73 k | `AtMostOnce`, `NoFreshDuplicate`, `LossIsExact`, `LossIsFinal`; `ImplementationsAgree`: the Java loops and `dedup.py` compute the closed forms |
| `wal` | 6 seqs, 2-record segments, cap 3, batches of up to 2, 3 lives | 120 k | under process kills: `SeqIdentity`, `NoSilentGap`, `CursorComplete`; `Consistent` has the disk cap and that the segment in use is never unlinked |
| `wal_power` | the same with power loss | | `SeqIdentity` is violated |
| `delivery` | 3 seqs, window 2 = W, 3 streams side by side, 1 break, 1 exit, 2 failed writes or drops | 908 k | `ImplementsExactlyOnce`, `OnlyDuplicatesDropped`; `Consistent` has that the vehicle's window bounds the gateway's and that what is not committed is pending |
| `delivery_live` | 5 seqs, window 1, W = 2, 2 streams side by side, 1 break, 2 failed writes or drops; the driver ends early any number of times, or stalls | 183 k | `AllButTheWindowDelivered` |
| `delivery_stall` | 3 seqs, window 2, with a process that does not time out | | `FailedWriteIsResent` is violated |
| `segment_upload` | 2 clips of 2 parts, 3 segments, 2 faults, 1 rewrite, 1 abort; runs end with any ack or none | 217 k | `AnnouncedIsWhole`, `NoOrphanObject`, under fairness `EveryUploadReferenced`; `Consistent` has that no reference is appended twice |
| `alerts` | 5 positions in 2 places, times 0..6, silence 2, sustained 3; 4 observations in 2 contexts, times 1..5, stop 2, silence 2 | 1.12 M | `TransitionsExact`, `SustainedExact`; `MonitorExact`, and in `Consistent` that raises and clears alternate |
| `serving` | gateway stream: 5 seqs, limit 2, an ack every 2; sink: 4 records, batches of 2, 2 failures; replay: times 0..4, interval 2, limit 1, 1 failure; alerts: 4 alerts, history and feed of 3, one restore, restart, break, hidden tab and other event | 223 k | `AcksAreExact`, `AcksArrive`; `StoredExactly`; `PassComplete`, `ComesRound`; `NothingMissed`, `BoardFollows`, `CatchesUp` |
| `live_board` | the alerts with a feed of 2 | | `BoardIsLatest` is violated |
| `stream_rewind` | the replay | | `RewindAnnounced` is violated |
| `tools` | driver: 4 seqs, window and budget 2, 2 runs, 1 break; harness: the same log, W = 2, 3 starts; campaign: 2 records, 2 failing commands, 1 job restart; clips: a chain of 4; series of up to 4 values | 167 k | `SuccessIsComplete`, `MainReturns`; `ResendsExact`, `ImplementsExactlyOnce`; `PassedIsTrue`, `NeverLeftPaused`, `CampaignEnds`; `VerifierAgrees`; `SeriesExact` |

### Why the bounds are enough

* `seq_window`: 13 seqs over 8 slots reach every branch of `accept()`, slots used a second
  time, and `advance()`'s jump of more than W past `lastSeen` (a stream that opens at
  seq 0 and jumps to 9 or beyond). The theorems below need no bound.
* `wal`: 2-record segments make every second append rotate; three records of cap drop
  segments while a cursor stands in them; three lives allow a kill during the recovery of
  a kill. A batch of 2 crosses a segment's end.
* `serving`: limit 2 of 5 seqs reaches `RESOURCE_EXHAUSTED`, and an ack every 2 makes the timer
  needed for the last record. Four records in batches of 2 go to both tables in every
  order of batch end, checkpoint and failure, and the second failure may hit the replay of
  the first. Three windows of the replay hold one with more signals than the limit, an
  empty one and a gap to leap over. Four alerts push one out of a history and a feed of 3.
* `tools`: a log of 4 seqs is longer than the window, and two runs leave every backlog; three
  starts let a resume be killed and resumed. Two failing commands are what the clean-up of
  the campaign is written against (one) and one more. A chain of 4 has two scenes, sweeps
  inside and outside the keyframes, and a missing file.
* `delivery`: three seqs over two slots use a slot again, and the vehicle's window is as wide
  as the bitmap, the widest the assumption
  `MaxInflight <= W` allows, so one record too many would fall out of it (the mutant
  `AllowedWide` does). The deployed values (1024, 4096) leave more room. Three streams
  put two abandoned ones beside the present one. `MaxMishaps` counts failed writes on the
  stream in use and appends that drop records, any number of them, each. Liveness has two,
  so that a hole may open on the stream that follows a stall. Its window is 1, so that four of
  the five seqs lie further than the window from the end of the log, and so that one write
  that fails, or one hole, closes the window.
* `segment_upload`: three segments for two clips let a clip be begun a second time after a
  death; two parts are the least for a rewrite between them; two faults let the run that
  recovers from a death die as well.
* `alerts`: five positions one unit apart last past the sustained time with one to spare;
  two places and silences make every branch of `processElement()` reachable. Four
  observations raise a stop, break it and raise it again within
  the five units of time; event times lag behind the clock, so gaps and silences differ.

Deadlock is not checked where the instance may stop: a WAL at its last seq and last life,
a stream that is over, a vehicle that has delivered all. Every bound is a constant whose
comment says `bound`; all others are parameters of the code.

### Fairness

* `MCServing` conjoins the fairness of its components: where another one is the subject
  nothing of it is enabled, so the conditions ask nothing of it. `MCTools` states each
  under its subject.
* `IngestStream`: `onNext()` returns, the producer completes every future
  (`delivery.timeout.ms`, 120 s, then an error), and the scheduled flush fires. The
  vehicle need not go on sending or half-close, and the transport need not cancel.
* `ReplayStream`: `push()` is scheduled again after each end. `LiveAlerts`: the consumer polls,
  the browser connects, receives, and its timer fires; restarts, breaks, hiding and other
  events are never fair and finite, and `CatchesUp` asks for a tab that stays visible.
* `Driver`: `main()` runs on; neither gateway nor transport owes it an answer, which is what
  the stall clock is for. `Campaign`: `main()` runs on and its drain meets its deadline, the
  thread goes on unless a command of its hangs.
* `Delivery`: the vehicle's threads loop, a process that ended is started again (the
  deployment's restart policy, outside this code), the gateway reads its streams and
  flushes, and Kafka answers. A break is fair only once the gateway closed the stream:
  then the vehicle's reader sees the status. The dataset is appended whole, the driver ends
  once it has sent all, acknowledged or not (`Finish` waits for nothing), and the stall
  timeout fires where it would wait for ever. It is taken to be longer than what is under
  way needs (30 s by default): with a Kafka that is slower every time no run gets anywhere.
  The gateway notices in the end that a stream was given up. Lost links, kills, failures and
  drops are never fair. `AllButTheWindowDelivered` claims no more than this gives: the loop
  ends only when all but the shipper's window is acknowledged, so the rest of the log arrives
  although every run may close its stream too early; that the last window arrives does not
  follow, and TLC shows a driver that ends early for ever if it is claimed.
* `SegmentUpload`: the script is started again after each end, runs on while it lives, and
  the gateway serves its calls. Deaths, lost PUTs and rewritten clips are never fair, and
  nothing makes a run end with an ack: `EveryUploadReferenced` stops at the durable reference.
* `OddBoundary` and `VehicleMonitor` use no fairness: `TimerLag` bounds how late Flink calls
  a timer, which must be less than the 5 s of `freshForMs` for `SustainedWhenDue`.

## Findings

1. **A record is shipped before it is durable** (`wal_power`). `WalCursor.read()` flushes to
   the page cache only; the group commit fsyncs up to 10 ms later. After a power loss in
   between, recovery issues the shipped seq to another reading, which the de-duplicator
   drops as a duplicate without a gap. `docs/wal-design.md:70` (W-1) excludes this.
2. **A failed Kafka write is not resent while the stream lives** (`delivery_stall`). The
   gateway's comment says the missing ack makes the vehicle resend; the transport resends
   only on a new RPC, and nothing ends the old one but the end of the driver.
3. **An alert that has ended is shown again** (`live_board`). A raise whose id has left the
   feed of 300 is applied again when a restarted API reads the topic from the beginning,
   and the clear after it is skipped as a repetition. `telemetryStore.test.ts:39` says a
   repeated exit does not open the alert again.
4. **The replay rewinds in silence** (`stream_rewind`). The cursor moves before the queries; if
   those of the last window fail it is back at the start and no epoch was sent, against
   the comment of the class (`StreamController.java:36`).

Also noticed, without a run:

* Log: a kill, a restart and then a power loss make recovery open a segment that is not the
  newest by name, and `commit()` then unlinks the file being appended to (`wal.py:366`).
  `max_disk_bytes` is set by no script.
* Upload: a death between the gateway's `begin` and the save of the state file leaves an open
  multipart upload nobody lists (`segment_upload.py:236`); a reference found in the log after
  a kill is not fsynced before its state file goes (`:288`); a clip that changed under its
  upload fails its checksum, and every later run raises in `resume()` of it, before
  `_publish()`, which is why `EveryUploadReferenced` excepts rewritten and aborted clips;
  `_publish()` prints that the references are published and returns 0 though none may be
  acknowledged (`ship_segments.py:269-282`), so no run need ever announce one.
* Transport and driver: `close()` does not wait for the last ack though the driver says so
  (`ship_to_gateway.py:244`; nothing is lost, the next start resends, but may close early
  again: the last window of the log is promised to nobody); a run with an empty dataset and a backlog
  returns 1 and ships nothing; the transport's queue (8192) is never the limit, since the
  shipper's window is 1024.
* Kafka verifier: it looks for gaps among the signals' seqs alone, which misses objects and
  reports a gap that is none after a second run over a kept log; `drain()` ends silently at
  a poll that times out.
* Campaign: a `docker pause` that hangs past the join lets a fault run pass without its
  fault; the thread may outlive a load that was cut short; a missing `numRestarts` reads as
  0; lag rows without a number are passed over; the polling thread of the first run may
  write the metric of the second.
* Clips: `n_raw` counts samples whose file is missing or that `--no-raw` left out, so the
  verifier refuses what was written as asked; sweeps outside a scene's keyframes are never
  extracted.
* Replay: windows are open at the left, so a signal at the very beginning is never sent;
  gaps are found among signals only, so objects in them are leapt over; the range is read
  once, so later data is never replayed; a window with more than the limit is cut silently.
* Alerts: a return after a silence raises no alert (`TransitionsExact` says so), so the count
  of `docs/sdd.md:902` of vehicles outside includes one that is back; a restore of the job's
  checkpoint can leave a `TELEMETRY_STALE` without its end.

## Proofs

Every theorem is about the specification TLC runs, for all values of the constants
that satisfy the module's named assumptions. All of them rest on one inductive
invariant per component, proved with one lemma per action; the lemmas about helpers
(sequences, runs of integers, the tracker, the bitmap, the segments) come first. Bounds
like `MaxBreaks` or `MaxLife` are arbitrary in the theorems: no number of failures breaks
what they say.

### De-duplication

`SeqWindowProofs` proves, for every W > 0, every set of boots and every range of seqs:

| Theorem | States |
|---|---|
| `TypeCorrect` | `WindowSpec => []WindowTypeOK` |
| `ForwardsAtMostOnce` | `WindowSpec => []AtMostOnce` |
| `DuplicatesWereForwarded` | `WindowSpec => []NoFreshDuplicate` |
| `LossStands` | `WindowSpec => LossIsFinal` |
| `LossExact` | `WindowSpec => []LossIsExact` |
| `LoopsComputeTheWindow` | `WindowSpec => []ImplementationsAgree` |

`AtMostOnce` alone is not inductive: whether a record passes depends on a bit, and
nothing says that the bit is about this seq. The inductive invariant `WindowInv` adds
`Mirror` (inside the window a bit is set exactly for what went downstream), `Ahead`
(nothing above `lastSeen` has), the order `base <= contiguous <= lastSeen`, and
`Condemned` (what `contiguous` passed without its record has left the window). `Mirror`
survives a step because `advance()` empties every slot between the old and the new
`lastSeen`, and two seqs less than W apart never share a slot (`SlotsDiffer`). `Condemned`
gives `LossIsFinal`: a condemned seq can only be TOO_OLD.

`LossExact` needs one thing more, `Judged`: `contiguous` is never behind the lower edge of
the window. What `advance()` counts then has its bit still, so that the bit says whether it
went downstream, and it is disjoint from what was counted before; a late record fills a
hole above `contiguous` only, and `pullContiguous()` takes `contiguous` past what is there.

The proof needs `WindowAssumption`, `SeqAssumption` and `BootAssumption`, which TLC
evaluates too. It does not need W to be a power of two, only the mask to be `% W`.

The lemmas are about closed forms (`Missed`, `Reused`, `Pulled`), the code has loops.
`LoopsComputeTheWindow` closes that gap: on every window that is reached, `advance()`'s loop over
the slots, its jump branch and `pullContiguous()` end where the closed forms do, and `dedup.py`
judges alike. A fold is a function on sets of indices that a CHOOSE picks; `FoldExists` shows
that there is one, `TurnsMake` and `PullLoopPulls` find by induction over the turns (the least
wrong one) what each turn leaves. A turn judges the seq W back by its own bit, because none of
the slots emptied so far is its (`SlotsDiffer`), and a jump by more than W clears every slot
(`SlotsAllUsed`). It needs `Judged` as well: a `contiguous` left behind the window would
be judged by other seqs' bits.

### Gateway stream

`ServingProofs` proves, for every in-flight limit, ack period and range of seqs:

| Theorem | States, assuming `IngestAssumption` |
|---|---|
| `AcksExact` | `Spec => []AcksAreExact`: an ack is true, and a stream that completes has acknowledged all it could |
| `AcksRise` | `Spec => AcksAdvance` |
| `CountExact` | `Spec => []InflightIsExact` |

The inductive invariant has four parts. `Tracked`: what the tracker calls written is, and
what it keeps aside begins above a hole, or else the ack would stop too early. `AckSent`: the
last ack that was sent is the last one taken from the tracker, unless sending it ended the
stream. `Places`: a record is in one place at a time. `Accounted`: on an open stream a record that
has not failed is in `hand`, pending, or known to the tracker. Completeness follows
because `finishIfDone()` completes the call with nothing in flight, so by `InflightIsExact`
both places are empty, every record is known to the tracker, and the seq after the last
ack is one that failed or never came. The helpers are proved first (`CompleteTracked`,
`EmitSound`, `FinishSound`, `FailSound`), then one lemma per action.

### Write-ahead log

`WalProofs` proves, for every segment size, disk cap, batch size and number of lives:

| Theorem | States, with process kills (`Spec`) |
|---|---|
| `SeqsNameOneRecord` | `Spec => []SeqIdentity` |
| `NothingLeavesSilently` | `Spec => []NoSilentGap` |
| `CursorMissesNothing` | `Spec => []CursorComplete` |
| `ConsistentHolds` | `Spec => []Consistent` |

`SeqIdentity` says nothing of a log whose process is dead, and there it is decided. The
invariant therefore says what recovery would find *at any moment*: `Resumes(s)` holds if
COMMIT, the journal or a segment would make it go on above `s`. `Told` says that it does so for
whatever a reader was given; `Chained`, that each segment starts where recovery could have
opened it, so that even an empty segment marks its place; `Traced`, that what it goes on
above is held, dropped or acknowledged. While the process lives the open segment is the
newest (`ActiveLast`), the cursor is past COMMIT and past older segments (`CursorAhead`), and
`Midway` says what a method holding the lock is in the middle of: the journal is written
before the file is unlinked. Under `PowerSpec` none of this holds (finding 1), since the cut
of the page cache takes back what `Told` says.

### Delivery

`DeliveryProofs` proves, for every `MaxInflight <= W`, queue, number of streams side by side
and budget of failures:

| Theorem | States |
|---|---|
| `ConsistentHolds` | `Spec => []Consistent` |
| `DropsOnlyDuplicates` | `Spec => []OnlyDuplicatesDropped` |
| `DeliversExactlyOnce` | `Spec => ImplementsExactlyOnce` |

A seq is `Covered` once it went downstream or the disk cap dropped it. `CommitCovers`
and `AckCovers` say that COMMIT and the tracker's ack cover *every* seq up to them, those of
earlier streams included; the ack of a new stream starts at its first record, so this needs
`Present`: until the first record is received, the wire holds all that was sent of the queue,
and the queue all that is uncommitted. `AllNear` says that nothing on its way, and
nothing the de-duplicator saw, is more than a window above what is covered; `Sizes` bounds
what each stream holds. With `MaxInflight <= W` a record that is still due is then inside
the bitmap, so TOO_OLD never hits a new record. The proof cites `SeqWindowProofs` for the
steps of the bitmap. `DeliversExactlyOnce` maps each action to `Issue`, `Deliver` or
`Acknowledge` of `ExactlyOnce`, or to a stutter.

### Segment upload

`SegmentUploadProofs` proves, for any finite set of clips, number of parts, deaths, rewrites and aborts:

| Theorem | States |
|---|---|
| `AnnouncedStaysWhole` | `Spec => []AnnouncedIsWhole` |
| `NoObjectForgotten` | `Spec => []NoOrphanObject` |
| `ConsistentHolds` | `Spec => []Consistent` |

All three hang on calls of `complete()` and PUTs that outlive their run. `Served`: a call that
is about to delete an object has one that was never whole, and a call whose upload still
exists has its state file. `Stored`: a verified upload has its whole object, and
`AtWork`: where the run is, what it has in memory is what its state file says. `Unacknowledged`:
a reference whose state file is still there has not been acknowledged, so recovery
finds it in the log and does not append it again.

### Sink, live alerts and replay

Also in `ServingProofs`:

| Of | Theorem | States |
|---|---|---|
| Sink | `StoresExactly` | `SinkSpec => []StoredExactly`, assuming `SinkAssumption` |
| Live alerts | `ConnectsOnce` | `LiveSpec => []OneConnection`, assuming `LiveAssumption` |
| | `MissesNothing` | `LiveSpec => []NothingMissed`, likewise |
| | `BoardTrue` | `LiveSpec => []BoardFollows`, likewise |
| Replay | `PassIsComplete` | `Services => []PassComplete` |
| All | `ServicesConsistent` | `Services => []Consistent` |

Sink: `Stored` says that what was read is in a table or in the buffer, and that what a flush is
past, a checkpoint covers or a snapshot answered for is in a table. `DuplicatesBounded` is
not inductive: a failure adds two rows at most, one by the insert that failed with effect
or by `close()`, and one by reading again. `Spared` keeps these two apart: what is still due,
or may be read again, has one row less than the bound.

Live alerts: a restore publishes alerts again, so the topic is not in order; `Rising` is what
remains of it: every alert is preceded by all lower ones, and the topic goes back less than
`Rewind`. From it `Kept` follows: what the hub keeps is a run of consecutive alerts that ends
with the greatest it read, because a repetition is still kept (`Rewind <= History`). So one id
is enough to say where the browser stands: `Behindhand` has that everything below
`lastId`, and below what is on the wire, was received or had been dropped, and that on an open
connection the wire leads to the last alert of the hub. `Remembered` ties `seen` to the feed;
with nothing forgotten, an id that the feed does not know is above all that were received,
and so the one the board must show.

Replay: `Covered` says that every signal of the range up to the cursor was sent or is one of those
the code has a reason to skip. It survives a leap over a gap because the cursor stops one
interval short of the next signal, and the end of a pass because the windows up to there meet.

`ServicesConsistent` brings the components together, each of which keeps its invariant while
another one is the subject.

### Alert functions

`AlertsProofs` proves, for all times after which an excursion, a stop or a silence counts, every delay
of a timer (of an excursion's: below `FreshFor`), and every sequence of positions and observations:

| Theorem | States |
|---|---|
| `TransitionsAreExact` | `Spec => []TransitionsExact` |
| `SustainedAreExact` | `Spec => []SustainedExact` |
| `MonitorIsExact` | `Spec => []MonitorExact` |
| `ConsistentHolds` | `Spec => []Consistent` |

The properties speak of the whole history, the functions keep a few values of it; the invariants
tie the two. Excursions: `Mirrors` has that the state is the last position, `Remembers` that
the exit it keeps began the present excursion, `Awaits` that the one timer is for an
excursion not reported yet, and `Spoken` why there is none otherwise: it was reported, or
the timer found the vehicle silent. `SustainedAreExact` follows because a timer is late by
`TimerLag` at most: what is due and was heard has been reported. Monitor: `Stands` has that
`since` is where the row of standing observations begins, `Listens` where the deadline is.
That alerts alternate is not inductive either; `Shown` says that the last alert of a kind is
what the state says, and `Unsaid` that what may still be said of the present observation
was not said of it before, so that event ids differ.

### Tools

`ToolsProofs` proves, for every window, number of runs and budget of failures:

| Of | Theorem | States |
|---|---|---|
| Driver | `SuccessMeansComplete` | `Spec => []SuccessIsComplete` |
| Harness | `ResendsAreExact` | `Spec => []ResendsExact` |
| | `HarnessImplementsExactlyOnce` | `Spec => ImplementsExactlyOnce` |
| Campaign | `PassedMeansSo` | `Spec => []PassedIsTrue` |
| | `NotLeftPaused` | `Spec => []NeverLeftPaused` |
| Clips | `VerifierIsSound` | `Spec => []VerifierAgrees` |

Driver: `Nested` (what is committed is in Kafka, what is in Kafka is in the log) outlives a run,
`Planned` and `Held` tie a run's counts to its log and stream: what it still has to send is what
the log has beyond `next`. So when it returns 0 the commit is the log's end. `SentOnce` is for
the verifier's count of a first run over an unbroken stream.

Harness: `InOrder` says that its log is a prefix without holes of which `SeqDedup` saw each seq
once, so that the window is `0..Top` with `lost = 0`; `Tracked`, that the tracker completed what
this process wrote, in order, up to the write that fails; `Rewritten`, how often. The
refinement maps an append to `Issue`, a write above `Top` to `Deliver`, one of an earlier seq
and a restart to a stutter, and an ack that rises to `Acknowledge`.

Campaign: `ThreadTrue` says where the fault thread is at each step of `main()` and what it has
left behind; `OneFailed`, that an outage nobody will end took a command that failed, so that
with the clean-up's own failure there are two.

Clips: `Inside` holds of every file at any time, whatever run wrote it. `Fresh` has, during
a run, that the files of the scenes it converted are its own, and after one that finished, that
the manifest names those and no others.

### What stays with TLC

* Liveness: `AllButTheWindowDelivered`, `EveryUploadReferenced`, `CatchesUp`, `ComesRound`, the parts
  of `AcksArrive` that say an ack comes, `MainReturns`, `CampaignEnds`.
* `SeriesExact`: its functions sort, flatten and join, and what they compute is found by
  induction over the data alone.

## Simplifications

* `Wal`: creating, renaming and unlinking a file is durable at once, which is kinder than
  the file system. A record is its seq and its life; CRC and framing are a torn tail, cut
  off on the spot. One cursor. Sizes are counted in records.
* `SeqWindow`: bytes and shifts of the packed array are a slot number. The constructor's
  check (a power of two) admits W < 8, whose array would be empty; the model does not.
* `IngestStream`: one vehicle, seqs in rising order on a stream, with gaps; identity and
  validation refusals are the `invalid` end.
* `Delivery`: a record counts once it left the write buffer (`Wal` shows that such a record
  survives a kill); segments have any size, so the cap may drop any prefix (the scripts set
  no cap, `Wal` and its tests do); a commit never gives up records by itself; one boot id; the gateway emits
  an ack whenever it has one (`IngestStream` has the rules); the de-duplicator judges a
  record in the step that writes it, which nothing can tell from later. A gateway crash is
  `CloseStream` of its streams and `NotWritten` of their records. The stall timeout
  runs while the seqs are all appended, as the driver appends before it connects; a stall
  while something is still under way has the effect of a kill. The driver returns without shipping a backlog
  when its dataset is empty; the model always restarts the shipper.
* `SegmentUpload`: a clip's content is a version number, its parts and checksum too. The
  metadata and the sha256 of a clip are read in the step that begins its upload. URLs do
  not expire (a PUT the store refuses ends the run like any other failure). `Publish` has
  `_publish()` in one step, with any outcome; `Delivery` has the steps of shipping.
* `OddBoundary`, `VehicleMonitor`: late and invalid records are left out, as they change
  nothing. Boot id and mission are one context. No restore of a checkpoint.
* `Driver`: one stream at a time (`Delivery` has streams that overlap), and the gateway
  acknowledges what it wrote (`IngestStream`). Records are their kind.
* `StorageSink`: which of two tables a record goes to is its parity; the third, for segments,
  is another of the same.
* `ReplayStream`: a signal is its time; objects follow the same windows.
* `LiveAlerts`: one kind of alert of one vehicle, whose raises and clears alternate
  (`VehicleMonitor`). A restore of the alert job repeats no more alerts than the hub keeps
  (`Rewind <= History`): an id the hub forgot would be published again. Heartbeats carry
  nothing. What the store shows of telemetry is left out.
* `Campaign`: a run sends a fixed number of records; the order of Prometheus queries within
  the judgement is one step. `Clips`: one sensor; other sensors are chains like it.

## Plan

Done: every component of the table but those named below. Left, in this order:

1. A restore of the alert job's checkpoint in front of `OddBoundary` and `VehicleMonitor`,
   and what `LiveAlerts` makes of it.
2. `Delivery` with a wiped log: a second boot id beside streams of the first (A-L4).

## Not modelled

* Decode and validation: stateless maps of one record to rows or the dead-letter topic.
* Peer identity: a check of a certificate against a claimed id, without state.
* The store's telemetry (ring buffers, trails), the panels, `geo.py` and `Enu.java`
  (arithmetic on reals), and the queries of `QueryController` (one read of the tables each).
* Build files, generated stubs, the mock server, and the scripts that count a dataset or cut
  a sample out of it (`measure_dataset.py`, `export_fixture.py`, `replay_rerun.py`).
