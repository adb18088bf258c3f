# Formal model of ingestd (keyframe)

TLA+ models of the ingest daemons under `src/ingestd/`, TLC configurations that
check them on small instances, and TLAPS proofs of their invariants for every
value of the constants.

## The system

`ingestd-httpd` receives an upload (an HTTP PUT) and serves GETs of the same
file while the upload is still running. All of it runs on one `smol` executor
thread. Every future below is polled without preemption, so one poll is one
atomic step.

| Part | Source | What it does |
|---|---|---|
| MagicBuffer | `ring/queue.rs:8-38` | A memfd of `RING_SIZE` = 512 KiB, mapped twice back to back, so that any window of at most 512 KiB is contiguous. |
| Queue | `ring/queue.rs:40-146` | Single-producer, single-consumer cursors `write_start` (committed) and `write_end` (drained + capacity). Each `Drop` writes `u64::MAX` into the cursor of the side that went away. |
| Ring orchestrator | `ring/mod.rs:17-169` | One `poll` first drives the GET futures, then the drain consumer, then the producer. The producer pulls the PUT body into the queue, bumps `bytes_written` and wakes every GET. The consumer's result is stashed until no GET is left (`Running`, `ConsumerSettled`, `Terminated`). |
| RingConsumer / write_from_ring | `ring/mod.rs:181-221`, `fs/ring.rs` | Drains the queue to the file with io_uring writes of at most 4096 bytes at increasing offsets. |
| write_file | `put.rs:17-28` | write_from_ring, then the 201 response. |
| RingReader | `ring/mod.rs:233-269` | A GET's cursor. It peeks at `[bytes_read, bytes_written)` in the ring and fails with `Overrun` when more than a ring's worth behind. |
| GetBodyFromRing | `get.rs:178-222` | On `Overrun`, reads up to 4096 bytes of the file at `bytes_read` and `skip`s the RingReader by as many. |
| process_put_request | `put.rs:30-77` | Inserts the path's `mpsc` sender into `in_flight_files` (a 409 if one is there, removed again by `_remove_guard`), opens the file with create+truncate, builds the Ring, and `select!`s between `push`ing a queued GET and the Ring's result. |
| process_get_request | `get.rs:28-62` | While the path is in flight, `try_send`s the request with a `oneshot` sender to the PUT and awaits the result. Otherwise it opens the file (404 if absent) and streams it with `GetBodyAtRest` until a 0-byte read. |
| process_delete_request | `put.rs:79-85` | `remove_file`, then 201, or a 500. |
| main, process_request | `main.rs:47-136` | Two accept loops spawn one task per connection. `process_request` unwraps `http::decode`, and ends the connection without a response on a `ResponseWriterError`. |

`ingestd-srt` accepts SRT streams on a dedicated thread (`srt.rs`). Each
connection's packets go into a shared `Mutex<Packets>`, from which a smol task
(`gpac.rs`) pipes them into a `gpac` child process and supervises that process.

| Part | Source | What it does |
|---|---|---|
| srt thread | `srt.rs:97-173` | `srt_epoll_wait`. On the listener it accepts, pushes a `NewConnection` and wakes `gpac::listen`. On a broken socket it calls `remove_connection` (without `srt_close`). Otherwise it runs `process_socket` and wakes the sender, or removes and closes the socket. |
| process_socket | `srt.rs:56-95` | Under the `Packets` lock: returns false if `closed`. Otherwise it receives at most `1024 - packets.len()` messages. An error or a 0-length message returns false, after the packets already pushed. |
| remove_connection | `srt.rs:47-54` | Out of epoll and the map, `closed = true`, wake the sender. |
| gpac::listen | `gpac.rs:209-254` | A `poll_fn` that registers the shared waker and takes `new_connections`. The streams query spawns `handle_gpac`, and an error sets `closed`. |
| handle_gpac_sender | `gpac.rs:100-126` | Registers the connection's waker, locks, parks if empty and not closed, else swaps the vector out. If `closed` it returns Ok, else it `write_all`s each packet. |
| handle_gpac | `gpac.rs:143-196` | `select!` of the sender task against the pidfd. A finished sender sets `closed` and races `kill_gpac` (5 s, SIGTERM, 10 s, SIGKILL) against the pidfd. An exit of gpac first sets `closed` and drops the sender. Then the offline notification. |

## Modules

| Module | Models | State | Actions |
|---|---|---|---|
| `MagicBuffer` | `magic`, `buffer_from`, `Drop` | `buffer`: slot ↦ the stream position whose byte it holds (`-1` before the first write) | `FillWindow` (the producer's write into a `poll_buf` window), `SliceAt` |
| `Queue` | `Queue`, `QueueWriter`, `QueueReader` | `write_start`, `write_end`, `queue_handles` (live `Rc` holders) | `Written`, `Consume`, `DropReader` and the window lengths |
| `LiveRing` | Ring, RingConsumer, write_from_ring, write_file, RingReader, GetBodyFromRing, Ring::push | see below | `Produce` (SourceData/SourceEof/SourceError), `Drain` (DrainSubmit, DrainWriteDone, DrainWriteFail, DrainEof, DrainSourceError, DrainRespond), `OrchestratorFinish`, `Attach(r)`, `TailStep(r)` (ReaderOverrun, ReaderCopy, ReaderCaughtUp, FallbackDone) |
| `MC_LiveRing` | TLC instance: two GETs as model values, with symmetry | | |
| `LiveTail` | what the Ring future promises (abstract) | `phase`, `produced`, `stored` (the file's prefix), `tails`, `got`, `source`, `outcome`, `result` | `Accept(n)`, `Close(e)`, `Store(k)`, `Attach(r)`, `Deliver(r,k)`, `Detach(r,how)`, `ConsumerDone(res)`, `Finish` |
| `InFlight` | process_put_request, process_get_request, process_delete_request and main for one path, over a `LiveTail` ring | see below | `PutConflict`, `PutOpenFail`, `PutStart`, `PutAllocFail`, `PutTake`, `PutResolve`; `RingSource`, `RingStore`, `ConsumerSettles`, `RingDeliver(g)`, `RingDetach(g)`; `GetQueue(g)`, `GetAtRest(g)`, `AtRestRead(g)`; `Delete(d)`; `ServerPanic`, `AwaitConnections` |
| `MC_InFlight` | TLC instance: two PUTs, two GETs, one DELETE | | |
| `InFlightProofs` | TLAPS proofs about `InFlight` | | |
| `InFlightTypeProofs` | TLAPS proof of `InFlight`'s `TypeOK` | | |
| `LiveRingProofs` | TLAPS proofs about `LiveRing` | | |
| `RingContentProofs` | TLAPS proofs about the Ring's contents (file and GET bodies) | | |
| `TailRefinementProofs` | TLAPS proof that `LiveRing` implements `LiveTail` (safety part) | | |
| `SrtRelay` | one SRT connection: srt thread, `gpac::listen`, handle_gpac_sender, handle_gpac, kill_gpac | see below | `PeerSend`, `PeerClose`, `GpacExit` (environment); `Accept`, `RemoveBroken`, `ProcessSocket` (srt thread); `ListenRegister`, `ListenTake`, `ListenQueryDone(ok)`; `SenderRegister`, `SenderCheck`, `SenderWrite`; `SenderFinished`, `PidfdFired`, `KillTimer`, `Reaped`, `GoOffline` |
| `SrtStream` | what one SRT connection promises (abstract) | `peer`, `sent`, `delivered`, `relay` (Waiting/Relaying/Stopped), `gpac` (None/Running/Exited), `offline` | `Send`, `Close`, `Start`, `Forward`, `Stop`, `Exit`, `Offline` |
| `SrtRelayProofs` | TLAPS proofs about `SrtRelay` | | |
| `SrtRefinementProofs` | TLAPS proof that `SrtRelay` implements `SrtStream` (safety) | | |

**Data abstraction.** A byte is the tag of its stream position: the producer
writes the value `p` at position `p`. Each property about content then says
"position `i` holds `i`". A GET's output is the history variable `got[r]`, and
the file is `file[p]`.

**State of LiveRing and the code it mirrors.**
- `bytes_written` and `reader_error` are `RingStateInner`'s fields. `reader_error` takes the values `None`, `Eof` (`Some(None)`) and `Err` (`Some(Some(e))`).
- `source_live` is `Ring.reader.is_some()`.
- `orch`, `stash` and `result` are `Ring.consumer` and the value `Ring` resolved to.
- `wakers[r]` is the slab entry of GET `r`, and `parked` is the set of GET tasks that returned `Pending` and wait for a wake.
- `drain_pc`, `inflight` and `drained` are where `write_file` is suspended, the length of the submitted write, and write_from_ring's own `bytes_written`.
- `rpc[r]` is where GET `r`'s `GetBodyFromRing::read` is (`Detached`, `Reading`, `Fallback`, `Finished`, `Failed`), and `bytes_read[r]` is its cursor.
- `drain_result` and `source_end` are history variables.

**LiveTail, the Ring's contract.** It hides the queue, the double mapping,
the wakers and the overrun fallback. What is left:
- the upload accepted so far (`produced`) and its durable copy (`stored`, always a prefix);
- each GET's delivered body (`got[r]`, always a prefix);
- the `Running -> ConsumerSettled -> Terminated` lifecycle.

A GET may end cleanly only with every byte the upload will ever accept.
The consumer may return Ok only after EOF, with everything stored. The
result waits for the last attached GET. `Failures` gates the error outcomes.

**Refinement.** `LiveRing` implements `LiveTail`. The instance
`Contract == INSTANCE LiveTail WITH ...` in `LiveRing` maps:
- `phase <- orch`, `produced <- bytes_written`, `source <- source_end`, `outcome <- drain_result`;
- `stored <-` the file's first `drained` bytes;
- `tails <-` `Attached` for `Reading` and `Fallback`, and otherwise `rpc[r]`;
- `Failures <- SourceFaults \/ DiskFaults`.

Every LiveRing step is a LiveTail step or a stutter:
- a write completion is `Store`;
- a ring copy or a fallback read is `Deliver`;
- an overrun, a park or a wake stutters.

`TailRefined == Contract!SafeSpec` and `TailRefinedLive == Contract!Spec`
are checked as properties.

**State of InFlight and the code it mirrors.**
- `entry` is `in_flight_files[path]`: the PUT whose sender is registered, or `NoPut`.
- `chan` is the GET messages waiting in that sender's `mpsc` channel.
- `ppc`, `gpc` and `dpc` say where each request is. `Reset` means the connection died with the process.
- `ino` is the inode the path names, `nino` counts the inodes created, and `content[i]` is inode `i`'s bytes. Each byte is tagged `<<upload, position>>`, so a mixed file is visible.
- `pino` is the running PUT's `Rc<File>`, `opened[g]` is an at-rest GET's open file, and `body[g]` is what it has sent.
- The rest are `LiveTail`'s variables, through `Ring == INSTANCE LiveTail`. The select loop's actions call `Ring!Attach`, `Ring!ConsumerDone`, `Ring!Finish` and the others, so the handler and the ring move in one step where the code does.

A panic is modelled as a process exit. async-task resumes the unwind into
smol's executor, which has no `catch_unwind`, so it leaves `smol::run` and
`main`. This is `ConnectionsReset` in `PutAllocFail` and `ServerPanic`.
The listening sockets are inherited fds, so requests that arrive later are
served by the next process.

**State of SrtRelay and the code it mirrors.**
- A packet is its number: the client sends 1, 2, ..., `sent`. `recvd` counts what `srt_recvmsg2` has returned.
- `packets` and `closed` are `Packets`' fields. `batch` is the sender's local vector. `delivered` is a history of the `write_all`s.
- `conn` is the socket's entry in `connections` (`Listening` before the accept, `Removed` after `remove_connection`). `sock_closed` records `srt_close`.
- `new_conn` is the entry in `new_connections`.
- `lpc`, `spc` and `hpc` are where `gpac::listen`, the sender and `handle_gpac` are suspended.
- `lwaker`/`gwaker` say that an `AtomicWaker` holds a registered waker. A wake takes it and reschedules a `Parked` task. A wake between the registration and the check sets `lnotified`/`snotified`, so the `Pending` is followed by another poll: that is how `AtomicWaker` avoids the lost wakeup.
- `gproc` and `kill` are the child process and the last signal `kill_gpac` sent.

One `process_socket` call is one step, and so is one poll of a `poll_fn`. Each runs under its mutex. The register and the locked check of a `poll_fn` are two steps, because the srt thread can run between them. One `write_all` is one step. The receive loop's `EASYNCRCV` iterations are folded into `Received`, which is min(room, packets waiting).

**Granularity.** Each action is one poll of one future, up to its next
suspension:
- Ring::poll's producer half, including the wake loop, is one step.
- The drain's submit and its completion are two steps. The io_uring write is in flight between them, and the producer keeps running meanwhile.
- A GET's `poll_read` is one step, and its fallback file read is a second step.

The consumer half of `Ring::poll` is merged into the drain step that resolves
the consumer future (`ConsumerDone`). That is the same poll.

**Bounds, named as constants.**
- `Capacity` is `RING_SIZE`.
- `ChunkSize` is the 4096 of `alloc_read_buffer` and of write_from_ring.
- `StreamMax` bounds the upload's length.
- `Readers` is the set of GETs that may attach.
- `SourceFaults` and `DiskFaults` switch the error paths on.
- `U64Max` stands for `u64::MAX`. It only has to exceed every cursor value.

## Runs

The ring runs use `Capacity = 3`, `ChunkSize = 2`, `StreamMax = 5` and two GETs.
These bounds are enough for the interesting cases:
- a 5-byte upload through a 3-byte ring wraps the ring once and more;
- 2-byte chunks make a write or a copy cover the wrap point and leave partial windows;
- one GET can be lapped (Overrun) while the other keeps up;
- an Overrun can happen while the drain is still behind the GET.

Every action and every disjunct of `Next` fires in `ring_safety`.

| Run | Expect | Checks | Shows |
|---|---|---|---|
| `ring_safety` | pass | `TypeOK`, `QueueBounds`, `TailReadsExact`, `DurableCopyExact`, `FallbackTargetDurable`, `ResultDeferred`, `TailRefined` | With source and disk faults, every interleaving keeps the queue's cursors ordered. Every byte a GET serves, from the ring or from the file, is the right byte of the upload, and so is every byte of the file. A fallback read never asks for bytes the file does not have. The upload resolves only after its GETs, and to the drain's result. Every behaviour is a behaviour of `LiveTail`. |
| `ring_liveness` | pass | `GetsComplete`, `UploadResolves`, `TailRefinedLive` | Without disk faults, under the fairness below, every GET ends and the PUT resolves, also after a source error. `LiveTail`'s fairness holds too: LiveRing's scheduling delivers what the contract promises its users. |
| `ring_hang` | violation | `GetsComplete` | A disk write failure while a GET is parked: nobody wakes the GET, and the PUT waits for it forever. |
| `ring_source_error` | violation | `TailObservesSourceError` | After a source error, a GET can end its body cleanly with a truncated file. |
| `ring_buffer_leak` | violation | `BufferReleased` | The double mapping is never unmapped. |

`ring_safety` does not check deadlock. With disk faults, the hang of
`ring_hang` leaves states with no successor, and that stop is real.
`ring_liveness` does not check deadlock either. `Resolved` stutters at
`Terminated`, so any other stuck state already violates `UploadResolves`.

**Fairness** (`LiveRing!Fairness`): weak fairness of `Produce`, `Drain`,
`OrchestratorFinish` and each GET's `TailStep`.
- smol polls every woken task.
- io_uring completes every submission.
- The PUT client keeps sending until EOF or error.
- Each GET client keeps reading.

`Attach` is not fair: a GET is never obliged to arrive.

### InFlight runs

`MC_InFlight` uses two PUTs, two GETs and one DELETE of one path, with
symmetry on the GETs in the safety runs. Two PUTs make the second truncate,
or get a 409 on, the file the first wrote. Two GETs let one be queued
while the other reads at rest. `UploadMax` bounds an upload's length:
- 2 lets a second, shorter upload over a longer one show leftover bytes;
- 1 is enough for the two violation runs.

| Run | Expect | Checks | Shows |
|---|---|---|---|
| `inflight_safety` | pass | `TypeOK`, `CreatedExact`, `EntryOwned` | With open, read and write failures and panics (642 016 states), a PUT whose 201 is written leaves exactly its own upload in its file. `in_flight_files` names exactly the PUT in its select loop, whose Ring has not returned, and its channel holds exactly the queued GETs. |
| `inflight_liveness` | pass | `GetsEnd` | Without faults, every GET ends: served, 404, failed, or dropped. |
| `inflight_dropped_get` | violation | `QueuedGetAttached` | A GET queued just before the Ring resolves is dropped without a response. |
| `inflight_alloc_truncates` | violation | `AllocFailKeepsFile` | A PUT whose ring buffer cannot be allocated has already created or truncated the file. |

Deadlock is checked: `AwaitConnections` lets the server wait for
connections once every modelled request has arrived, as both accept loops
do. **Fairness** (`InFlight!Fairness`): weak fairness of the select loop's
branches, of the ring's progress (`LiveTail`'s fairness, which
`TailRefinedLive` shows LiveRing provides without disk faults), and of each
GET's reads. Requests need not arrive.

### SrtRelay runs

Both runs use `PacketMax = 3`, `BacklogMax = 2` (standing for 1024) and `DbFaults = TRUE`. Three packets through a backlog of 2 reach:
- a full backlog, where `process_socket` receives nothing and only wakes;
- a partial receive followed by an error, so packets are pushed in the same call that closes the connection;
- a swap between two pushes.

Every action and every disjunct fires in `srt_safety` (10 805 distinct states).

| Run | Expect | Checks | Shows |
|---|---|---|---|
| `srt_safety` | pass | `TypeOK`, `PipelineExact`, `NoLostWakeup`, `StreamRefined` | In every interleaving of the srt thread with the three smol tasks, with client close, gpac exit and query errors at any point, gpac receives 1, 2, ... in order. While the connection is open and the sender runs, what was written, the sender's batch and the queue concatenate to exactly what was received. No wakeup is lost: a parked sender never has a packet or a close waiting for it, including after the empty push of a full backlog. Every behaviour is a behaviour of `SrtStream`: gpac is spawned before any packet is written, each write is the next packet the client sent, and `notify_offline` comes only after the sender has stopped and gpac has exited. |
| `srt_liveness` | pass | `PacketsForwarded`, `ConnectionTornDown` | Every received packet reaches gpac unless the connection is closed first. Once the client closes, the socket leaves the map, the sender ends, gpac exits and `handle_gpac` returns. |

`StreamRefined` is `Stream!SafeSpec`, where `Stream` is `SrtStream` under the mapping `relay <- RelayOf(spc)` (Idle is Waiting, a returned or dropped sender is Stopped, every state of its loop is Relaying), `gpac <- gproc`, `offline <- (hpc = "Finished")`. The mutant that lets `handle_gpac` go on after `kill_gpac` without awaiting `pidfd_wait` breaks it: `notify_offline` would then be sent for a gpac that is still running.

Neither run checks deadlock. Once a connection is torn down every thread blocks (`srt_epoll_wait` with no timeout, parked tasks), and that stop is real.

**Fairness** (`SrtRelay!Fairness`): weak fairness of the srt thread, of `gpac::listen`, of the sender, of the supervisor, and of gpac's exit once SIGKILLed.
- epoll reports every readable socket.
- smol polls every woken task.
- Timers fire.
- SIGKILL ends the process.

The client is never obliged to send or to close, and gpac may run as long as it is not killed.

## Findings

1. **Drain failure hangs GETs and the PUT** (`ring_hang`, `ring/mod.rs:103-109`). `Ring::poll` stashes the consumer's error and wakes only itself, so a parked RingReader is never woken again.
2. **A source error becomes a clean EOF** (`ring_source_error`, `ring/mod.rs:107`). The consumer's resolution overwrites `Some(Some(e))` with `Some(None)`, so a lagging or late GET serves a truncated body as complete.
3. **The ring buffer leaks on every upload** (`ring_buffer_leak`, `ring/mod.rs:24`). The `MaybeUninit<RefCell<RingStateInner>>` is never dropped, and neither is its `QueueWriter`, so the `Rc` never reaches zero.

4. **A GET queued as the upload ends gets no response** (`inflight_dropped_get`, `put.rs:71`). The GET `try_send`s into the channel while the Ring is ready. `select!` takes the Ring branch, the receiver is dropped with the GET's `oneshot` sender in it, and the GET fails with `Canceled`. That error is a `ResponseWriterError`, so `process_request` closes the connection without a status.
5. **A failed buffer allocation has already changed the file** (`inflight_alloc_truncates`, `put.rs:57`). The file is opened with truncate before `queue()` unwraps `magic()`. The upload that spec section 7 says is aborted before it starts has already turned a 404 into an empty 200, or erased the previous upload.

Observed while modelling InFlight (hazards, not runs: nothing in the
repository says what a reader at rest should see):
- A PUT truncates the inode that at-rest GETs have open. With no content-length, such a GET ends early or serves a body mixing two uploads (12 states).
- A failed upload, or a panic mid-upload, leaves its partial file at the path, served with a 200.
- The `try_send` `Err` arm (`get.rs:48`) is unreachable: the entry and the receiver are dropped in the same poll.

Observed while modelling the SRT relay (a hazard, not a run: nothing in the
repository states the opposite). **The packets received with the client's
disconnect are dropped** (`gpac.rs:116`). `process_socket` pushes them, the
next `srt_recvmsg2` fails, and `remove_connection` sets `closed`. The sender
swaps them out, sees `closed` and returns without writing them. TLC reaches
this with `PacketMax = 2` against the invariant "the sender returned Ok while
gpac runs ⇒ every received packet was written".

## Proofs

### `LiveRingProofs`

Proved by `tlapm` for every value of the constants that satisfies the
assumptions:
- `CapacityAssumption`: `Capacity ∈ Nat \ {0}`
- `U64MaxAssumption`
- `ConstantsAssumption`: `ChunkSize > 0`, `StreamMax ∈ Nat`, `U64Max > StreamMax + Capacity`

| Theorem | Statement |
|---|---|
| `TypeCorrect` | `Spec => []TypeOK` |
| `QueueBoundsHold` | `Spec => []QueueBounds` |

Neither invariant is inductive alone. `QueueBounds` needs the drain's progress
tied to the queue, and `TypeOK` needs the sizes of writes and copies bounded.
The inductive invariant is `IInv == TypeOK /\ QueueBounds /\ CursorCoupling`,
where `CursorCoupling` says:
- `bytes_written = write_start`;
- the QueueReader is dropped exactly when write_from_ring has returned;
- `drained = write_end - Capacity` until then;
- a submitted write is at most the committed, undrained bytes.

TLC checked `IInv` as an invariant on the `ring_safety` instance before it was
proved. The proof has three parts:
- `InitIInv`.
- `NextIInv`, with one step per action. The reader actions go through the frame lemma `TailStepFrame`: a GET's step leaves the Ring, queue and drain state alone.
- The temporal step `PTL`.

Lemmas:
- `SliceIsSeq`: a ring slice is a sequence of bytes.
- `FunIsSeq`: a function on `1..n` is a sequence.

| `ResultAfterReaders` | `Spec => []ResultDeferred` |

`ResultDeferred` is not inductive: nothing says a `ConsumerSettled` ring's
stash is the drain's result. `Lifecycle` adds:
- `orch = Running` exactly while `drain_result = None`;
- the stash equals `drain_result` while settled;
- a terminated ring has no active GET and returned `drain_result`.

`LifecycleStep` proves that it is preserved under `IInv`. A GET's step needs
the GET to be active, so it cannot run once `Terminated`.

| `FallbackReadsDurable` | `Spec => []FallbackTargetDurable` |

A GET that falls back to the file after an overrun (`poll_read`) reads only
bytes that write_from_ring has already written. The strengthening is
`FallbackInv`, which adds `bytes_written <= drained + Capacity`: an overrun
means `bytes_read < bytes_written - Capacity`, so the fallback target is below
`drained`. `FallbackStep` proves it under `IInv`.

### `InFlightProofs`

For every set of requests and every `UploadMax`, from `InFlightAssumption`:

| Theorem | Statement |
|---|---|
| `CreatedFileExact` | `Spec => []CreatedExact` |

`CreatedExact` is not inductive. It speaks only once the outcome is Ok and
says nothing of the file before. `IInv == Typing /\ FileCoupling`, where
`FileCoupling` says:
- the phase is `Running` exactly while there is no outcome;
- Ok implies the whole upload is stored;
- while a PUT holds the entry, its inode exists and holds `Written(entry, n)`, where `stored = Upload(n)` and `n <= produced`.

The lemmas:
- `OpenPutFileEmpty`: create or truncate leaves the opened inode empty;
- `WriteAtGrows`: a write of bytes `[0, k)` over the first `n` gives the first `k`;
- `EmptyPrefix`, `UploadLen`, `WrittenLen`.

The panics only clear the entry, so they keep the invariant.

| `EntryOwnedHolds` | `Spec => []EntryOwned` |

`EntryOwned` is not inductive either. `Owned == OwnTyping /\ EntryOwned /\ Queueing`, where `Queueing` says:
- no channel outlives its entry: the receiver is dropped with the guard, or the process dies;
- the channel holds each GET once (`IsInjective(chan)`), because `try_send` queues only from `Idle`;
- a GET that is idle or queued has no reader in the Ring, so a detach never concerns a queued GET.

Two lemmas carry the channel: `TakeHead` (the select loop's `recv` keeps the
rest injective and loses only the head) and `QueueAppend` (`try_send` of a GET
not yet in the channel keeps it injective).

### `InFlightTypeProofs`

Extends `InFlightProofs`. From `InFlightAssumption`, which requires `Puts` to be finite:

| Theorem | Statement |
|---|---|
| `InFlightTyped` | `Spec => []TypeOK` |

`TypeOK` bounds every inode number by `Cardinality(Puts)`, and that bound is
not inductive. Only `OpenForWrite` creates an inode, and only a PUT leaving
`Idle` runs it, once. The strengthening is `TInv == IInv /\ Owned /\ Typed /\ Counted`:
- `Typed` is `TypeOK` with `nino`, the inode counter, as the bound in place of `Cardinality(Puts)`; an at-rest GET's open inode is in `1..nino`;
- `Counted` says `nino <= Cardinality(Started)`, where `Started` is the set of PUTs not in `Idle`.

`CountedStep` shows that a step either keeps `nino` and never shrinks `Started`
(`CountKeep`), or adds one inode while moving one PUT out of `Idle`
(`CountGrow`, from `FS_AddElement`). `TypedStep` has one case per action;
`FilesKeep`, `OpenTyped` and `WriteAtTyped` carry the file system's shape.
`TInvTypeOK` widens `0..nino` to `0..Cardinality(Puts)` with `FS_Subset`.

### `SrtRelayProofs`

Proved for every value of the constants allowed by `SrtConstantsAssumption`
(`PacketMax ∈ Nat`, `BacklogMax ∈ Nat \ {0}`, `DbFaults ∈ BOOLEAN`):

| Theorem | Statement |
|---|---|
| `SrtTypeCorrect` | `Spec => []TypeOK` |
| `StreamInOrder` | `Spec => []PipelineExact` |

`SrtTypeCorrect` and `StreamInOrder` rest on `IInvHolds == Spec => []IInv`, where
`IInv == TypeOK /\ BacklogBounded /\ BatchShape /\ Handoff /\ Numbered`:
- `BacklogBounded`: `Len(packets) <= BacklogMax`, the loop bound of `process_socket`, which the arithmetic of `ProcessSocket` needs.
- `BatchShape`: the sender holds packets only between its swap and its last write.
- `Handoff`: the connection is handed to `gpac::listen` once, and a sender task exists exactly when `handle_gpac` does. This rules out a sender before the accept.
- `Numbered`: position by position, `delivered` holds 1, 2, ..., the batch continues from `Len(delivered)`, and the queue continues from the batch. While the connection is open and the sender runs, the three lengths add up to `recvd`.

`PipelineExact` alone is not inductive, because a concatenation says nothing about where each piece starts. `Numbered` states it piece by piece. The lemma `NumberedRun` turns it back into `delivered \o batch \o packets = [i \in 1..recvd |-> i]`.

TLC checked `IInv` on the `srt_safety` instance before it was proved. `NextIInv` has one step per action. Under each, the control variables' types go through `TypeCtlStep`, and the data half is shown conjunct by conjunct. `SenderWrite` uses the library's `HeadTailProperties` and `AppendProperties`. `ProcessSocket` uses `ConcatProperties`.

| `SenderNeverStranded` | `Spec => []NoLostWakeup` |
|---|---|

`NoLostWakeup` (a parked sender has an empty, open `Packets`) is not
inductive: a push onto a parked sender's queue keeps it only if the push
wakes it. The strengthening `Wakeup` adds that a parked sender still holds its
registered waker, and that a sender between `register` and its check holds
the waker or has been notified. `WakeClears` shows that `AtomicWaker::wake`
then never leaves the sender parked, which covers every push and removal of
the srt thread. `WakeupStep` has one case per group of actions, and the
theorem combines it with `IInv`, which supplies `Handoff` for a failed query.

### `RingContentProofs`

Extends `LiveRingProofs`. For every ring size, chunk size and upload length:

| Theorem | Statement |
|---|---|
| `FileCopyExact` | `Spec => []DurableCopyExact` |
| `TailBytesExact` | `Spec => []TailReadsExact` |

Both rest on the content invariant `ContentInv == RingContent /\ DurableCopyExact /\ ReadsNumbered`:
- `RingContent`: every position `p` in `[bytes_written - Capacity, bytes_written)` is held by slot `p % Capacity`. The producer overwrites a slot only after the drain has moved past it (`QueueBounds`).
- `ReadsNumbered`: every GET's body is the upload's first `bytes_read` bytes.

The mod lemmas (`ModDecomp`, `ModUnique`, `ModShift`, `ModPlusRing`,
`ModDistinct`) give what the double mapping means: reading `n` bytes from
slot `p % Capacity` reads positions `p .. p + n - 1`. `RingContentStep`
covers the producer's write. `DurableStep` covers the io_uring write from
`FillBuf`. `ReadStep` covers the reader's copy and the fallback. `ContentStep`
combines them, under `IInv`.

### `TailRefinementProofs`

Extends `RingContentProofs`.

| Theorem | Statement |
|---|---|
| `TailRefinement` | `Spec => TailRefined` |

`TailRefined` is `Contract!SafeSpec`, where `Contract` is `LiveTail` under the
refinement mapping of `LiveRing`. The proof uses
`RInv == IInv /\ FallbackInv /\ Lifecycle /\ ContentInv /\ TailCoupling`.
`TailCoupling` ties the reader's ends to the cursors:
- every `bytes_read` and `drained` is at most `bytes_written`;
- a live source is still streaming;
- a reader's `Eof` comes after the source's end or the drain's result;
- an `Err` happens only with `SourceFaults`;
- the 201 response waits for the end of the stream and the last drained byte.

TLC checked `RInv` and `TailRefined` on two instances before the proof:
3/2/5 with faults, and 2/3/6 without.

`StepMaps` maps each `LiveRing` action to a `LiveTail` step, with one lemma per action:
- `MapSourceData` gives `Accept`.
- `MapSourceEnd` gives `Close`.
- `MapWriteDone` gives `Store`.
- `MapCopy` gives `Deliver`.
- `MapFallback` gives `Deliver` or `Detach(r, "Failed")`.
- `MapCaughtUp` gives `Detach`.
- `MapDrainEnd` gives `ConsumerDone`.
- The queue-internal steps (`MapOverrun`, `MapStutter`) are stutters of what the contract sees.

`InitMaps` shows that the initial states map to `Contract!Init`.

### `SrtRefinementProofs`

Extends `SrtRelayProofs`.

| Theorem | Statement |
|---|---|
| `StreamRefinement` | `Spec => StreamRefined` |

The proof uses `SInv == IInv /\ SCoupling`. `SCoupling` says:
- gpac is `None` exactly while `handle_gpac` has not started;
- once the supervisor is past its `select!`, the sender has returned or been dropped;
- `notify_offline` comes only after gpac has exited;
- `Len(delivered) + Len(batch) <= recvd`, even after the connection closes and `PipelineExact` stops speaking.

TLC checked `SInv` and `StreamRefined` on two instances before the proof: 3/2
and 5/3. `CouplingStep` has one case per action. `StepMaps` maps each action:
- `PeerSend`, `PeerClose` and `GpacExit` give `Send`, `Close` and `Exit`.
- `ListenQueryDone(TRUE)` gives `Start` (`MapStart`). `Handoff` gives that the sender is `Idle`, and `SCoupling` that gpac is `None`.
- `SenderWrite` to a running gpac gives `Forward` (`MapForward`). `Numbered` gives that the head of the batch is `Len(delivered) + 1`. `SCoupling` and `recvd <= sent` give that it was sent.
- A failed write, a closed `Packets` seen by the sender, and `PidfdFired` on a running sender give `Stop` (`MapStop`).
- `GoOffline` gives `Offline` (`MapOffline`).
- The rest are stutters (`MapHidden`). A wake only turns Parked into Poll, and both are Relaying.

### Only model-checked

- All liveness: `PacketsForwarded`, `ConnectionTornDown`, `GetsComplete`, `UploadResolves`, `GetsEnd`, and the fairness half of the refinement, `TailRefinedLive`. The provers available here do not handle fairness or `ENABLED`.
- The violation runs. They show what the code does against a stated promise, and there is nothing to prove about them.

## Not modelled

- The OS calls of `magic()`: their failure is one step, `PutAllocFail`. The fd and mappings it leaks die with the process.
- io_uring itself: a submission is a later completion with a count or an error.
- HTTP framing and the response writer. `InFlight` keeps only the decode panic and the `ResponseWriterError` rule.
- HEAD: it reads the map or the file's metadata and changes nothing.
- Other paths: `in_flight_files` is keyed by path, and requests for other paths touch neither this entry nor this file.
- The stream database (a query is a step that returns a row or an error), notifications (a step that always completes), the logger and `libsrt-sys`.
- `auth` (`srt.rs:180-214`): a check of one string. The same checks in `gpac::listen` (`gpac.rs:230-240`) therefore always pass for an accepted connection and are not modelled. A stream id shorter than 6 bytes panics at `stream_id[6..]` inside the FFI callback, which is left to a unit test.
- `spawn()` (clone3, dup2, execv) and the pidfd syscalls.

## Plan

1. `SrtRelay` with several connections sharing `new_connections` and the listener's waker. Signal errors in `kill_gpac`.
2. `InFlight` with two paths, to check that the 409 and the handoff stay per path.
