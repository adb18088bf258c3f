-------------------------------- MODULE Queue --------------------------------
(***************************************************************************)
(* The single-producer / single-consumer queue of ring/queue.rs.  The      *)
(* producer owns [write_start, write_end) (the free space), the consumer   *)
(* owns [write_end - Capacity, write_start) (the committed, undrained      *)
(* bytes).  Dropping a handle sets the other side's cursor to u64::MAX.    *)
(* Both handles share one Rc; the mapping is released when both are gone. *)
(***************************************************************************)
EXTENDS MagicBuffer

CONSTANT U64Max             \* u64::MAX, the "other side dropped" sentinel

ASSUME U64MaxAssumption == U64Max \in Nat /\ U64Max > Capacity

VARIABLES
    write_start,            \* Queue.write_start: bytes committed
    write_end,              \* Queue.write_end: bytes drained + Capacity
    queue_handles           \* the live Rc holders: QueueWriter, QueueReader

QueueInit ==
    /\ MagicInit
    /\ write_start = 0
    /\ write_end = Capacity
    /\ queue_handles = {"Writer", "Reader"}

(* QueueWriter::poll_buf: None once the reader is dropped, else the free   *)
(* window of write_end - write_start bytes (Pending when it is empty).     *)
ReaderDropped == write_end = U64Max

(* Mutant: the free window one byte too long.                            *)
WritableLenPlusOne == write_end - write_start + 1

WritableLen == write_end - write_start

(* QueueReader::poll_fill_buf: EOF once the writer is dropped, else the    *)
(* committed bytes, Capacity - (write_end - write_start) of them, starting *)
(* at physical index write_end % Capacity.                                 *)
WriterDropped == write_start = U64Max

ReadableLen == Capacity - (write_end - write_start)

(* Mutant: the committed bytes are sliced at the producer's cursor.       *)
FillBufAtWriter(len) == SliceAt(write_start % Capacity, len)

(* The slice poll_fill_buf hands out: len bytes at write_end % Capacity.   *)
FillBuf(len) == SliceAt(write_end % Capacity, len)

(* QueueWriter::written(amount), after its assertion.                      *)
Written(amount) == write_start' = write_start + amount

(* QueueReader::consume(amount), after its assertion.                      *)
Consume(amount) == write_end' = write_end + amount

(* Drop for QueueReader.                                                   *)
DropReader ==
    /\ write_end' = U64Max
    /\ queue_handles' = queue_handles \ {"Reader"}

(* Drop for MagicBuffer runs when the last Rc<RefCell<Queue>> goes.        *)
BufferMapped == queue_handles # {}
=============================================================================
