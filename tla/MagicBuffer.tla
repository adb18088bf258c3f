----------------------------- MODULE MagicBuffer -----------------------------
(***************************************************************************)
(* The double-mapped ring of ring/queue.rs (MagicBuffer, magic()).  One    *)
(* memfd of Capacity bytes is mapped at base and base+Capacity, so the     *)
(* virtual bytes [i, i+len) for i < Capacity and len <= Capacity alias the *)
(* physical bytes (i+k) % Capacity.  A byte is abstracted to the tag of    *)
(* the stream position that wrote it: the byte the producer stores for     *)
(* stream offset p is p, and the zero fill of ftruncate is Unwritten.      *)
(***************************************************************************)
EXTENDS Integers

CONSTANT Capacity           \* RING_SIZE, the memfd length

ASSUME CapacityAssumption == Capacity \in Nat \ {0}

VARIABLE buffer             \* the physical bytes of the memfd

Slots == 0 .. Capacity - 1

Unwritten == -1

MagicInit == buffer = [s \in Slots |-> Unwritten]

(* The contiguous view data.add(index)[..len] of queue.rs: thanks to the   *)
(* second mapping its k-th byte is physical byte (index + k) % Capacity.   *)
SliceAt(index, len) == [k \in 1 .. len |-> buffer[(index + k - 1) % Capacity]]

(* The producer's poll_read into the writable window [from, to) stores the *)
(* stream bytes from .. to-1; the one offset of the window that lands on   *)
(* slot s is from + ((s - from) % Capacity).                               *)
FillWindow(from, to) ==
    buffer' = [s \in Slots |->
                 IF from + ((s - from) % Capacity) < to
                 THEN from + ((s - from) % Capacity)
                 ELSE buffer[s]]
=============================================================================
