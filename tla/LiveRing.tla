------------------------------- MODULE LiveRing -------------------------------
(***************************************************************************)
(* One upload of ingestd-httpd (put.rs) with its live ring: the Ring       *)
(* future of ring/mod.rs pulls the PUT body into the Queue, the drain      *)
(* consumer write_from_ring (fs/ring.rs, inside write_file of put.rs)      *)
(* writes the committed bytes to the file, and every GET attached while    *)
(* the upload is in flight runs a RingReader (ring/mod.rs) wrapped in the  *)
(* overrun fallback GetBodyFromRing (get.rs).  All of it runs on one smol  *)
(* thread: every action below is one poll, which runs without preemption.  *)
(***************************************************************************)
EXTENDS Queue, Sequences

CONSTANTS
    Readers,        \* the GET requests that may attach (slab waker ids)
    ChunkSize,      \* 4096: alloc_read_buffer() and the drain's write size
    StreamMax,      \* bound on the length of the PUT body
    SourceFaults,   \* may the PUT connection fail (body read, 201 write)?
    DiskFaults      \* may a write or read of the file fail?

ASSUME ConstantsAssumption ==
    /\ ChunkSize \in Nat \ {0}
    /\ StreamMax \in Nat
    /\ U64Max > StreamMax + Capacity
    /\ SourceFaults \in BOOLEAN
    /\ DiskFaults \in BOOLEAN

VARIABLES
    bytes_written,  \* RingStateInner.bytes_written
    reader_error,   \* RingStateInner.reader_error: None, Some(None), Some(Some(e))
    source_live,    \* Ring.reader is Some: the PUT body is still pulled
    orch,           \* Ring.consumer: Ok(future) / Err(stash), or returned Ready
    stash,          \* the consumer result kept in Ring.consumer = Err(..)
    result,         \* the value the Ring future resolved to
    wakers,         \* RingStateInner.wakers: slab entry is Some(waker)
    parked,         \* reader tasks that returned Pending on the ring
    drain_pc,       \* where write_file / write_from_ring is suspended
    inflight,       \* length of the submitted, uncompleted file write
    drained,        \* write_from_ring's bytes_written: file length so far
    file,           \* the file's bytes, as stream-position tags
    rpc,            \* where each GET's GetBodyFromRing is
    bytes_read,     \* RingReader.bytes_read (= GetBodyFromRing.bytes_read)
    got,            \* history: the body bytes each GET has delivered
    drain_result,   \* history: what the consumer future returned
    source_end      \* history: how the PUT body ended

ringVars == <<buffer, write_start, write_end, queue_handles, bytes_written,
              reader_error, source_live, orch, stash, result, wakers, parked>>
drainVars == <<inflight, drained, file, drain_pc>>
tailVars == <<rpc, bytes_read, got>>
historyVars == <<drain_result, source_end>>
vars == <<ringVars, drainVars, tailVars, historyVars>>

Results == {"None", "Ok", "Err"}
Positions == 0 .. StreamMax - 1

MinOf(a, b) == IF a < b THEN a ELSE b

MaxOf(a, b) == IF a < b THEN b ELSE a

(* Mutant: finished GET tasks are never removed from Ring.futures.        *)
ActiveEver == {r \in Readers : rpc[r] # "Detached"}

(* GET tasks still in Ring.futures (attached and not yet returned).        *)
Active == {r \in Readers : rpc[r] \in {"Reading", "Fallback"}}

Init ==
    /\ QueueInit
    /\ bytes_written = 0
    /\ reader_error = "None"
    /\ source_live = TRUE
    /\ orch = "Running"
    /\ stash = "None"
    /\ result = "None"
    /\ wakers = [r \in Readers |-> FALSE]
    /\ parked = {}
    /\ drain_pc = "Fill"
    /\ inflight = 0
    /\ drained = 0
    /\ file = [p \in Positions |-> Unwritten]
    /\ rpc = [r \in Readers |-> "Detached"]
    /\ bytes_read = [r \in Readers |-> 0]
    /\ got = [r \in Readers |-> <<>>]
    /\ drain_result = "None"
    /\ source_end = "Streaming"

-----------------------------------------------------------------------------
(* Mutant: the producer forgets to wake the tail readers.                 *)
WakeNone ==
    /\ parked' = parked
    /\ wakers' = [r \in Readers |-> FALSE]

(* Ring::poll, producer half: the wake loop over state.wakers.             *)
WakeAll ==
    /\ parked' = parked \ {r \in Readers : wakers[r]}
    /\ wakers' = [r \in Readers |-> FALSE]

(* Ring::poll, producer half: reached only while the consumer future is    *)
(* pending and Ring.reader is Some; poll_buf must yield a non-empty        *)
(* window (the None case needs a dropped QueueReader, and the consumer     *)
(* drops it only when it resolves, which returns earlier in the same poll). *)
ProducerReady ==
    /\ orch = "Running"
    /\ source_live
    /\ ~ReaderDropped
    /\ WritableLen > 0

(* poll_read returned n > 0 bytes: they land in the window, then written() *)
(* and bytes_written += n, and every tail reader is woken.                 *)
SourceData(n) ==
    /\ ProducerReady
    /\ FillWindow(write_start, write_start + n)
    /\ Written(n)
    /\ bytes_written' = bytes_written + n
    /\ WakeAll
    /\ UNCHANGED <<write_end, queue_handles, reader_error, source_live, orch,
                   stash, result, drainVars, tailVars, historyVars>>

(* poll_read returned Ok(0): the body ended.                               *)
SourceEof ==
    /\ ProducerReady
    /\ source_live' = FALSE
    /\ reader_error' = "Eof"
    /\ source_end' = "Eof"
    /\ WakeAll
    /\ UNCHANGED <<buffer, write_start, write_end, queue_handles, bytes_written,
                   orch, stash, result, drainVars, tailVars, drain_result>>

(* poll_read returned Err(e).                                              *)
SourceError ==
    /\ SourceFaults
    /\ ProducerReady
    /\ source_live' = FALSE
    /\ reader_error' = "Err"
    /\ source_end' = "Err"
    /\ WakeAll
    /\ UNCHANGED <<buffer, write_start, write_end, queue_handles, bytes_written,
                   orch, stash, result, drainVars, tailVars, drain_result>>

Produce ==
    \/ \E n \in 1 .. MinOf(WritableLen, StreamMax - bytes_written) : SourceData(n)
    \/ SourceEof
    \/ SourceError

-----------------------------------------------------------------------------
(* Mutant: the consumer's result is returned without waiting for GETs.    *)
ConsumerDoneEager(res) ==
    /\ drain_pc' = "Done"
    /\ drain_result' = res
    /\ orch' = "Terminated"
    /\ result' = res
    /\ UNCHANGED <<stash, source_live, reader_error>>

(* Ring::poll, consumer half: the consumer future resolved with res.  With *)
(* no GET left it is the result; otherwise it is stashed, the body is no   *)
(* longer pulled and reader_error becomes Some(None).  Only the Ring's own *)
(* waker is woken, not the tail readers' wakers.                          *)
ConsumerDone(res) ==
    /\ drain_pc' = "Done"
    /\ drain_result' = res
    /\ IF Active = {}
       THEN /\ orch' = "Terminated"
            /\ result' = res
            /\ UNCHANGED <<stash, source_live, reader_error>>
       ELSE /\ orch' = "ConsumerSettled"
            /\ stash' = res
            /\ source_live' = FALSE
            /\ reader_error' = "Eof"
            /\ UNCHANGED result

(* Mutant: the min(4096, ..) cap on a write is dropped.                  *)
DrainSubmitUncapped ==
    /\ orch = "Running"
    /\ drain_pc = "Fill"
    /\ ~WriterDropped
    /\ ReadableLen > 0
    /\ inflight' = ReadableLen
    /\ drain_pc' = "Writing"
    /\ UNCHANGED <<ringVars, drained, file, tailVars, historyVars>>

(* write_from_ring: poll_fill_buf found committed bytes; the first         *)
(* min(4096, len) of them are submitted as one write at offset drained.    *)
DrainSubmit ==
    /\ orch = "Running"
    /\ drain_pc = "Fill"
    /\ ~WriterDropped
    /\ ReadableLen > 0
    /\ inflight' = MinOf(ChunkSize, ReadableLen)
    /\ drain_pc' = "Writing"
    /\ UNCHANGED <<ringVars, drained, file, tailVars, historyVars>>

(* The write completed with m bytes: the kernel copied them from the ring  *)
(* at write_end % Capacity; consume(m) frees them (waking the producer).   *)
DrainWriteDone(m) ==
    /\ orch = "Running"
    /\ drain_pc = "Writing"
    /\ LET bytes == FillBuf(m)
       IN file' = [p \in Positions |->
                     IF drained <= p /\ p < drained + m
                     THEN bytes[p - drained + 1] ELSE file[p]]
    /\ Consume(m)
    /\ drained' = drained + m
    /\ inflight' = 0
    /\ drain_pc' = "Fill"
    /\ UNCHANGED <<buffer, write_start, queue_handles, bytes_written,
                   reader_error, source_live, orch, stash, result, wakers,
                   parked, tailVars, historyVars>>

(* The write failed: `res?` returns, the RingConsumer (and so the          *)
(* QueueReader) is dropped, and write_file resolves with the error.        *)
DrainWriteFail ==
    /\ DiskFaults
    /\ orch = "Running"
    /\ drain_pc = "Writing"
    /\ DropReader
    /\ ConsumerDone("Err")
    /\ inflight' = 0
    /\ UNCHANGED <<buffer, write_start, bytes_written, wakers, parked,
                   drained, file, tailVars, source_end>>

(* Mutant: an empty queue is taken for the end of the body.              *)
DrainEofEarly ==
    /\ orch = "Running"
    /\ drain_pc = "Fill"
    /\ ReadableLen = 0
    /\ DropReader
    /\ drain_pc' = "Respond"
    /\ UNCHANGED <<buffer, write_start, bytes_written, reader_error,
                   source_live, orch, stash, result, wakers, parked,
                   inflight, drained, file, tailVars, historyVars>>

(* The queue is empty and RingConsumer::poll_fill_buf sees Some(None):     *)
(* write_from_ring returns Ok, dropping the consumer; write_file goes on   *)
(* to write the 201 response.                                              *)
DrainEof ==
    /\ orch = "Running"
    /\ drain_pc = "Fill"
    /\ ReadableLen = 0
    /\ reader_error = "Eof"
    /\ DropReader
    /\ drain_pc' = "Respond"
    /\ UNCHANGED <<buffer, write_start, bytes_written, reader_error,
                   source_live, orch, stash, result, wakers, parked,
                   inflight, drained, file, tailVars, historyVars>>

(* The queue is empty and poll_fill_buf sees Some(Some(e)): write_from_ring *)
(* fails with it and write_file resolves with the error.                   *)
DrainSourceError ==
    /\ orch = "Running"
    /\ drain_pc = "Fill"
    /\ ReadableLen = 0
    /\ reader_error = "Err"
    /\ DropReader
    /\ ConsumerDone("Err")
    /\ UNCHANGED <<buffer, write_start, bytes_written, wakers, parked,
                   inflight, drained, file, tailVars, source_end>>

(* write_201 finished (res Ok) or failed on the PUT connection (res Err).  *)
DrainRespond(res) ==
    /\ orch = "Running"
    /\ drain_pc = "Respond"
    /\ res = "Err" => SourceFaults
    /\ ConsumerDone(res)
    /\ UNCHANGED <<buffer, write_start, write_end, queue_handles, bytes_written,
                   wakers, parked, inflight, drained, file, tailVars,
                   source_end>>

Drain ==
    \/ DrainSubmit
    \/ \E m \in 1 .. inflight : DrainWriteDone(m)
    \/ DrainWriteFail
    \/ DrainEof
    \/ DrainSourceError
    \/ \E res \in {"Ok", "Err"} : DrainRespond(res)

(* Ring::poll in Err(stash): the last GET has returned, so the stashed     *)
(* consumer result is returned.                                            *)
OrchestratorFinish ==
    /\ orch = "ConsumerSettled"
    /\ Active = {}
    /\ orch' = "Terminated"
    /\ result' = stash
    /\ UNCHANGED <<buffer, write_start, write_end, queue_handles, bytes_written,
                   reader_error, source_live, stash, wakers, parked,
                   drainVars, tailVars, historyVars>>

-----------------------------------------------------------------------------
(* put.rs select loop: a GET for this path arrives; Ring::push inserts a   *)
(* None slab entry and a RingReader at offset 0.                           *)
Attach(r) ==
    /\ orch # "Terminated"
    /\ rpc[r] = "Detached"
    /\ rpc' = [rpc EXCEPT ![r] = "Reading"]
    /\ wakers' = [wakers EXCEPT ![r] = FALSE]
    /\ UNCHANGED <<buffer, write_start, write_end, queue_handles, bytes_written,
                   reader_error, source_live, orch, stash, result, parked,
                   drainVars, bytes_read, got, historyVars>>

(* RingReader::poll_read, first its waker is stored in the slab.           *)
ReaderPolled(r) ==
    /\ rpc[r] = "Reading"
    /\ r \notin parked
    /\ wakers' = [wakers EXCEPT ![r] = TRUE]

(* Mutants: the overrun test of poll_read one late, or firing whenever    *)
(* the reader is behind at all.                                          *)
OverranLate(r) == bytes_written > bytes_read[r] + Capacity + 1

OverranEager(r) == bytes_written > bytes_read[r]

Overran(r) == bytes_written > bytes_read[r] + Capacity

(* Overrun: GetBodyFromRing::read submits read_from_file at bytes_read.    *)
ReaderOverrun(r) ==
    /\ ReaderPolled(r)
    /\ Overran(r)
    /\ rpc' = [rpc EXCEPT ![r] = "Fallback"]
    /\ UNCHANGED <<buffer, write_start, write_end, queue_handles, bytes_written,
                   reader_error, source_live, orch, stash, result, parked,
                   drainVars, bytes_read, got, historyVars>>

(* Copy min(bytes_written - bytes_read, 4096) bytes from buffer_from().    *)
ReaderCopy(r) ==
    /\ ReaderPolled(r)
    /\ ~Overran(r)
    /\ bytes_written > bytes_read[r]
    /\ LET len == MinOf(bytes_written - bytes_read[r], ChunkSize)
       IN /\ got' = [got EXCEPT ![r] = @ \o SliceAt(bytes_read[r] % Capacity, len)]
          /\ bytes_read' = [bytes_read EXCEPT ![r] = @ + len]
    /\ UNCHANGED <<buffer, write_start, write_end, queue_handles, bytes_written,
                   reader_error, source_live, orch, stash, result, parked,
                   drainVars, rpc, historyVars>>

(* Caught up: Ok(0) ends the GET body, Err ends it with an error, and      *)
(* while reader_error is None the task returns Pending.                    *)
ReaderCaughtUp(r) ==
    /\ ReaderPolled(r)
    /\ ~(bytes_written > bytes_read[r])
    /\ \/ /\ reader_error = "Eof"
          /\ rpc' = [rpc EXCEPT ![r] = "Finished"]
          /\ UNCHANGED parked
       \/ /\ reader_error = "Err"
          /\ rpc' = [rpc EXCEPT ![r] = "Failed"]
          /\ UNCHANGED parked
       \/ /\ reader_error = "None"
          /\ parked' = parked \cup {r}
          /\ UNCHANGED rpc
    /\ UNCHANGED <<buffer, write_start, write_end, queue_handles, bytes_written,
                   reader_error, source_live, orch, stash, result,
                   drainVars, bytes_read, got, historyVars>>

(* read_from_file(bytes_read, 4096) completed with the m bytes the file    *)
(* holds there; bytes_read and the RingReader skip m.  GetBody treats      *)
(* m = 0 as the end of the body.  Or the read failed.                      *)
FallbackDone(r) ==
    /\ rpc[r] = "Fallback"
    /\ \/ LET m == MinOf(ChunkSize, MaxOf(0, drained - bytes_read[r]))
          IN /\ got' = [got EXCEPT ![r] = @ \o [k \in 1 .. m |-> file[bytes_read[r] + k - 1]]]
             /\ bytes_read' = [bytes_read EXCEPT ![r] = @ + m]
             /\ rpc' = [rpc EXCEPT ![r] = IF m = 0 THEN "Finished" ELSE "Reading"]
       \/ /\ DiskFaults
          /\ rpc' = [rpc EXCEPT ![r] = "Failed"]
          /\ UNCHANGED <<bytes_read, got>>
    /\ UNCHANGED <<ringVars, drainVars, historyVars>>

TailStep(r) ==
    \/ ReaderOverrun(r)
    \/ ReaderCopy(r)
    \/ ReaderCaughtUp(r)
    \/ FallbackDone(r)

(* The upload has resolved: nothing is left to do.                         *)
Resolved ==
    /\ orch = "Terminated"
    /\ UNCHANGED vars

Next ==
    \/ Produce
    \/ Drain
    \/ OrchestratorFinish
    \/ \E r \in Readers : Attach(r) \/ TailStep(r)
    \/ Resolved

(* smol polls every woken task, io_uring completes every submission, the   *)
(* PUT client keeps sending until EOF or error and every GET client keeps  *)
(* reading; a GET is not obliged to arrive.                                *)
Fairness ==
    /\ WF_vars(Produce)
    /\ WF_vars(Drain)
    /\ WF_vars(OrchestratorFinish)
    /\ \A r \in Readers : WF_vars(TailStep(r))

Spec == Init /\ [][Next]_vars /\ Fairness

-----------------------------------------------------------------------------
(* Every variable has the type the code gives it.                          *)
TypeOK ==
    /\ buffer \in [Slots -> Int]
    /\ write_start \in 0 .. StreamMax
    /\ write_end \in (Capacity .. StreamMax + Capacity) \cup {U64Max}
    /\ queue_handles \subseteq {"Writer", "Reader"}
    /\ bytes_written \in 0 .. StreamMax
    /\ reader_error \in {"None", "Eof", "Err"}
    /\ source_live \in BOOLEAN
    /\ orch \in {"Running", "ConsumerSettled", "Terminated"}
    /\ stash \in Results
    /\ result \in Results
    /\ wakers \in [Readers -> BOOLEAN]
    /\ parked \subseteq Readers
    /\ drain_pc \in {"Fill", "Writing", "Respond", "Done"}
    /\ inflight \in 0 .. ChunkSize
    /\ drained \in 0 .. StreamMax
    /\ file \in [Positions -> Int]
    /\ rpc \in [Readers -> {"Detached", "Reading", "Fallback", "Finished", "Failed"}]
    /\ bytes_read \in [Readers -> 0 .. StreamMax]
    /\ got \in [Readers -> Seq(Int)]
    /\ drain_result \in Results
    /\ source_end \in {"Streaming", "Eof", "Err"}

-----------------------------------------------------------------------------
(* The queue's cursors: the drain never passes the producer and the        *)
(* producer never gets more than Capacity ahead of the drain, whatever     *)
(* order poll_buf/written and poll_fill_buf/consume interleave in          *)
(* (queue.rs written/consume and their asserts).                           *)
QueueBounds ==
    ~ReaderDropped => /\ write_end - Capacity <= write_start
                      /\ write_start <= write_end

(* Every byte a GET has sent equals the upload's byte at that offset, the  *)
(* ones copied from the ring by RingReader::poll_read and the ones         *)
(* recovered from the file after an Overrun alike: no byte overwritten by  *)
(* wraparound is ever served, and none is skipped or repeated.             *)
TailReadsExact ==
    \A r \in Readers : \A i \in 1 .. Len(got[r]) : got[r][i] = i - 1

(* The file written by write_from_ring is a prefix of the upload: the      *)
(* producer never refills the ring bytes an in-flight write still reads.   *)
DurableCopyExact ==
    \A p \in Positions : p < drained => file[p] = p

(* When GetBodyFromRing falls back to the file after an Overrun, the bytes *)
(* it asks for are already in the file, so the read cannot come back       *)
(* empty and end the GET early (get.rs, the comment on the fallback).      *)
FallbackTargetDurable ==
    \A r \in Readers : rpc[r] = "Fallback" => bytes_read[r] < drained

(* The Ring future resolves only once no GET task is left, and to the      *)
(* consumer's own result, however the stash in Ring.consumer was reached.  *)
ResultDeferred ==
    orch = "Terminated" => /\ Active = {}
                           /\ result = drain_result

(* A GET never ends its body cleanly when the upload failed: tail readers  *)
(* observe the source error (spec, error handling: SourceError).           *)
TailObservesSourceError ==
    \A r \in Readers : rpc[r] = "Finished" => source_end # "Err"

(* The double mapping is unmapped once the upload resolves (spec, data     *)
(* model lifecycle: buffer and cursors are torn down together).            *)
BufferReleased ==
    orch = "Terminated" => ~BufferMapped

(* Every GET attached to the upload eventually finishes its body.          *)
GetsComplete ==
    \A r \in Readers :
        rpc[r] \in {"Reading", "Fallback"} ~> rpc[r] \in {"Finished", "Failed"}

(* The Ring future, and with it the PUT request, eventually resolves.      *)
UploadResolves == <>(orch = "Terminated")

-----------------------------------------------------------------------------
(* The refinement mapping to the Ring's contract: the orchestrator state   *)
(* is Ring.consumer, the durable copy is the file's first drained bytes,   *)
(* and a GET between its push and its last poll_read is attached, whether  *)
(* it reads the ring or the file.                                          *)
Contract == INSTANCE LiveTail WITH
    phase <- orch,
    produced <- bytes_written,
    stored <- [i \in 1 .. drained |-> file[i - 1]],
    tails <- [r \in Readers |-> IF rpc[r] \in {"Reading", "Fallback"}
                                THEN "Attached" ELSE rpc[r]],
    source <- source_end,
    outcome <- drain_result,
    Failures <- SourceFaults \/ DiskFaults

(* Ring, its queue, drain and readers implement LiveTail: every GET body   *)
(* is the upload's bytes in order, a clean end comes only after every byte *)
(* the upload will accept, a 201 only after the whole body is in the file, *)
(* and the Ring returns the consumer's result after the last reader.       *)
TailRefined == Contract!SafeSpec

(* ... and, when the disk does not fail, meets the contract's progress     *)
(* promises: the body is pulled to its end, the consumer returns, every    *)
(* reader ends and the Ring returns.                                       *)
TailRefinedLive == Contract!Spec

=============================================================================
