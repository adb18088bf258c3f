-------------------------- MODULE RingContentProofs --------------------------
(***************************************************************************)
(* Proofs that the bytes LiveRing moves are the upload's own: what the     *)
(* double-mapped ring holds, what write_from_ring copies into the file and *)
(* what every GET body carries, for every ring size, chunk size, upload    *)
(* length and set of GETs.                                                 *)
(***************************************************************************)
EXTENDS LiveRingProofs

-----------------------------------------------------------------------------
(* Arithmetic modulo the ring size, which the slot of a stream position    *)
(* (p % Capacity) and the wrapped views of queue.rs rest on.              *)

(* x % C is x minus a whole number of rings.                               *)
LEMMA ModDecomp ==
    ASSUME NEW C \in Nat \ {0}, NEW x \in Int
    PROVE  /\ x \div C \in Int
           /\ x = C * (x \div C) + (x % C)
           /\ (x % C) \in 0 .. C - 1
BY SMT

(* The remainder is the only r in 0 .. C - 1 that x differs from by a      *)
(* whole number of rings.                                                  *)
LEMMA ModUnique ==
    ASSUME NEW C \in Nat \ {0}, NEW x \in Int, NEW q \in Int,
           NEW r \in 0 .. C - 1, x = C * q + r
    PROVE  x % C = r
BY SMT

(* Shifting by the slot of x instead of x itself lands on the same slot.   *)
LEMMA ModShift ==
    ASSUME NEW C \in Nat \ {0}, NEW x \in Int, NEW y \in Int
    PROVE  ((x % C) + y) % C = (x + y) % C
<1>1. x \div C \in Int /\ x = C * (x \div C) + (x % C)
    BY ModDecomp
<1>2. /\ (x + y) \div C \in Int
      /\ x + y = C * ((x + y) \div C) + ((x + y) % C)
      /\ ((x + y) % C) \in 0 .. C - 1
    <2>1. x + y \in Int
        OBVIOUS
    <2>. QED
        BY <2>1, ModDecomp
<1>3. (x % C) + y = C * ((x + y) \div C - x \div C) + ((x + y) % C)
    BY <1>1, <1>2
<1>4. (x + y) \div C - x \div C \in Int /\ (x % C) + y \in Int
    BY <1>1, <1>2
<1>. QED
    BY <1>2, <1>3, <1>4, ModUnique, Zenon

(* A whole ring further on is the same slot.                               *)
LEMMA ModPlusRing ==
    ASSUME NEW C \in Nat \ {0}, NEW x \in Int
    PROVE  (x + C) % C = (x % C)
<1>1. /\ x \div C \in Int /\ x = C * (x \div C) + (x % C)
      /\ (x % C) \in 0 .. C - 1
    BY ModDecomp
<1>2. x + C = C * (x \div C + 1) + (x % C) /\ x \div C + 1 \in Int /\ x + C \in Int
    BY <1>1
<1>. QED
    BY <1>1, <1>2, ModUnique, Zenon

(* Two positions less than a ring apart have different slots.              *)
LEMMA ModDistinct ==
    ASSUME NEW C \in Nat \ {0}, NEW x \in Int, NEW y \in Int,
           x =< y, y < x + C, (x % C) = (y % C)
    PROVE  x = y
<1>1. /\ x \div C \in Int /\ x = C * (x \div C) + (x % C)
      /\ y \div C \in Int /\ y = C * (y \div C) + (y % C)
    <2>1. x \div C \in Int /\ x = C * (x \div C) + (x % C)
        BY ModDecomp
    <2>2. y \div C \in Int /\ y = C * (y \div C) + (y % C)
        BY ModDecomp
    <2>. QED
        BY <2>1, <2>2
<1>2. y - x = C * (y \div C - x \div C) + 0
    BY <1>1
<1>3. (y - x) % C = 0
    <2>1. y - x \in Int /\ y \div C - x \div C \in Int /\ 0 \in 0 .. C - 1
        BY <1>1
    <2>. QED
        BY <1>2, <2>1, ModUnique, Zenon
<1>4. (y - x) % C = y - x
    <2>1. y - x \in 0 .. C - 1
        OBVIOUS
    <2>. QED
        BY <2>1
<1>. QED
    BY <1>3, <1>4

-----------------------------------------------------------------------------
(* What the ring holds: the slot of each of the last Capacity positions   *)
(* the producer committed still holds that position's byte (the free      *)
(* window it fills next only covers positions the drain has consumed).    *)
RingContent ==
    \A p \in MaxOf(0, bytes_written - Capacity) .. bytes_written - 1 :
        buffer[p % Capacity] = p

(* s is the upload's first b bytes.                                        *)
Numbered(s, b) ==
    /\ s \in Seq(Int)
    /\ Len(s) = b
    /\ \A i \in 1 .. b : s[i] = i - 1

(* t is the upload's bytes from position b on.                             *)
Continues(t, b) ==
    /\ t \in Seq(Int)
    /\ \A k \in 1 .. Len(t) : t[k] = b + k - 1

(* Every GET's body is the upload's first bytes_read bytes.                *)
ReadsNumbered ==
    \A r \in Readers : Numbered(got[r], bytes_read[r])

ContentInv == RingContent /\ DurableCopyExact /\ ReadsNumbered

(* A body that goes on where it stopped stays the upload's prefix.         *)
LEMMA NumberedConcat ==
    ASSUME NEW s, NEW t, NEW b \in Nat, Numbered(s, b), Continues(t, b)
    PROVE  Numbered(s \o t, b + Len(t))
<1>1. /\ s \in Seq(Int) /\ t \in Seq(Int) /\ Len(s) = b /\ Len(t) \in Nat
    BY DEF Numbered, Continues
<1>2. /\ s \o t \in Seq(Int)
      /\ Len(s \o t) = b + Len(t)
      /\ \A i \in 1 .. b + Len(t) :
            (s \o t)[i] = IF i <= b THEN s[i] ELSE t[i - b]
    BY <1>1, ConcatProperties
<1>3. ASSUME NEW i \in 1 .. b + Len(t) PROVE (s \o t)[i] = i - 1
    <2>1. CASE i <= b
        BY <1>2, <2>1 DEF Numbered
    <2>2. CASE i > b
        <3>1. i - b \in 1 .. Len(t) /\ (s \o t)[i] = t[i - b]
            BY <1>1, <1>2, <2>2
        <3>. QED
            BY <3>1 DEF Continues
    <2>. QED
        BY <1>1, <2>1, <2>2
<1>. QED
    BY <1>2, <1>3 DEF Numbered


-----------------------------------------------------------------------------
(* Only the producer's poll_read writes the ring and moves bytes_written.  *)
LEMMA RingFrame ==
    ASSUME [Next]_vars, ~\E n \in 1 .. MinOf(WritableLen, StreamMax - bytes_written) :
                            SourceData(n)
    PROVE  UNCHANGED <<buffer, bytes_written>>
<1>1. CASE SourceEof \/ SourceError
    BY <1>1 DEF SourceEof, SourceError
<1>2. CASE Drain
    BY <1>2 DEF Drain, DrainSubmit, DrainWriteDone, DrainWriteFail, DrainEof,
                DrainSourceError, DrainRespond, ringVars
<1>3. CASE OrchestratorFinish \/ Resolved \/ UNCHANGED vars
    BY <1>3 DEF OrchestratorFinish, Resolved, vars, ringVars
<1>4. CASE \E r \in Readers : Attach(r) \/ TailStep(r)
    BY <1>4 DEF Attach, TailStep, ReaderOverrun, ReaderCopy, ReaderCaughtUp,
                FallbackDone, ringVars
<1>. QED
    BY <1>1, <1>2, <1>3, <1>4 DEF Next, Produce

(* poll_read into the free window [write_start, write_start + n) keeps the *)
(* last Capacity positions in their slots: the new ones land on the slots  *)
(* of positions the drain consumed, the older ones are not touched.        *)
LEMMA RingContentStep ==
    IInv /\ RingContent /\ [Next]_vars => RingContent'
<1> SUFFICES ASSUME IInv, RingContent, [Next]_vars PROVE RingContent'
    OBVIOUS
<1> USE CapacityAssumption, ConstantsAssumption
<1>1. ASSUME NEW n \in 1 .. MinOf(WritableLen, StreamMax - bytes_written),
             SourceData(n)
      PROVE  RingContent'
    <2> DEFINE bw == bytes_written
               C == Capacity
    <2>1. /\ bytes_written' = bw + n
          /\ buffer' = [s \in Slots |->
                          IF write_start + ((s - write_start) % C) < write_start + n
                          THEN write_start + ((s - write_start) % C)
                          ELSE buffer[s]]
        BY <1>1 DEF SourceData, FillWindow, Written
    <2>2. /\ bw = write_start /\ n \in 1 .. C /\ bw \in 0 .. StreamMax
        <3>1. ~ReaderDropped
            BY <1>1 DEF SourceData, ProducerReady
        <3>. QED
            BY <1>1, <3>1 DEF IInv, CursorCoupling, QueueBounds, MinOf,
                              WritableLen, TypeOK
    <2>3. SUFFICES ASSUME NEW p \in MaxOf(0, bw + n - C) .. bw + n - 1
                   PROVE  buffer'[p % C] = p
        <3>1. bytes_written' - Capacity = bw + n - C /\ bytes_written' - 1 = bw + n - 1
            BY <2>1, <2>2
        <3>. QED
            BY <3>1 DEF RingContent
    <2>4. /\ p \in Int /\ 0 =< p /\ bw + n - C =< p /\ p < bw + n
          /\ (p % C) \in Slots
        BY <2>2 DEF MaxOf, Slots
    (* The slot of p, and the offset of that slot from the window's start. *)
    <2>5. PICK sl \in Slots : sl = p % C
        BY <2>4
    <2>6. PICK j \in Int : /\ j = (p - bw) % C
                           /\ buffer'[sl] = IF bw + j < bw + n THEN bw + j
                                            ELSE buffer[sl]
        <3>1. ((p % C) + (-bw)) % C = (p + (-bw)) % C
            <4>1. p \in Int /\ -bw \in Int /\ C \in Nat \ {0}
                BY <2>2, <2>4
            <4>. QED
                BY <4>1, ModShift, Zenon
        <3>2. (sl - bw) % C = (p - bw) % C
            BY <3>1, <2>2, <2>4, <2>5
        <3>3. buffer'[sl] = IF bw + ((sl - bw) % C) < bw + n
                            THEN bw + ((sl - bw) % C) ELSE buffer[sl]
            BY <2>1, <2>2
        <3>4. (p - bw) % C \in Int
            BY <2>2, <2>4
        <3>. QED
            BY <3>2, <3>3, <3>4
    <2>7. CASE p >= bw
        <3>1. j = p - bw
            BY <2>2, <2>4, <2>6, <2>7
        <3>2. buffer'[sl] = p
            BY <2>2, <2>4, <2>6, <3>1
        <3>. QED
            BY <2>5, <3>2
    <2>8. CASE p < bw
        <3>1. j = p - bw + C
            <4>1. /\ p - bw = C * (-1) + (p - bw + C)
                  /\ p - bw \in Int /\ -1 \in Int
                  /\ p - bw + C \in 0 .. C - 1
                BY <2>2, <2>4, <2>8
            <4>2. (p - bw) % C = p - bw + C
                BY <4>1, ModUnique, Zenon
            <4>. QED
                BY <2>6, <4>2
        <3>2. buffer[p % C] = p
            <4>1. p \in MaxOf(0, bw - C) .. bw - 1
                BY <2>2, <2>4, <2>8 DEF MaxOf
            <4>. QED
                BY <4>1 DEF RingContent
        <3>3. buffer'[sl] = buffer[sl]
            BY <2>2, <2>4, <2>6, <3>1
        <3>. QED
            BY <2>5, <3>2, <3>3
    <2>. QED
        BY <2>2, <2>4, <2>7, <2>8
<1>2. CASE ~\E n \in 1 .. MinOf(WritableLen, StreamMax - bytes_written) :
             SourceData(n)
    BY <1>2, RingFrame DEF RingContent
<1>. QED
    BY <1>1, <1>2

-----------------------------------------------------------------------------
(* Only a completed write of write_from_ring extends the file.             *)
LEMMA DrainFrame ==
    ASSUME [Next]_vars, ~\E m \in 1 .. inflight : DrainWriteDone(m)
    PROVE  UNCHANGED <<file, drained>>
<1>1. CASE Produce
    BY <1>1 DEF Produce, SourceData, SourceEof, SourceError, drainVars
<1>2. CASE Drain
    BY <1>2 DEF Drain, DrainSubmit, DrainWriteFail, DrainEof,
                DrainSourceError, DrainRespond
<1>3. CASE OrchestratorFinish \/ Resolved \/ UNCHANGED vars
    BY <1>3 DEF OrchestratorFinish, Resolved, vars, drainVars
<1>4. CASE \E r \in Readers : Attach(r) \/ TailStep(r)
    BY <1>4 DEF Attach, TailStep, ReaderOverrun, ReaderCopy, ReaderCaughtUp,
                FallbackDone, drainVars
<1>. QED
    BY <1>1, <1>2, <1>3, <1>4 DEF Next

(* The write of m bytes at file offset drained copies FillBuf(m), the ring *)
(* bytes at write_end % Capacity: these are the slots of positions drained *)
(* .. drained + m - 1, which the producer has committed and, as the free   *)
(* window never reaches them, not yet overwritten.                        *)
LEMMA DurableStep ==
    IInv /\ RingContent /\ DurableCopyExact /\ [Next]_vars => DurableCopyExact'
<1> SUFFICES ASSUME IInv, RingContent, DurableCopyExact, [Next]_vars
             PROVE  DurableCopyExact'
    OBVIOUS
<1> USE CapacityAssumption, ConstantsAssumption
<1>1. ASSUME NEW m \in 1 .. inflight, DrainWriteDone(m)
      PROVE  DurableCopyExact'
    <2> DEFINE C == Capacity
    <2>1. /\ drained' = drained + m
          /\ buffer' = buffer
          /\ m \in 1 .. C - (write_end - write_start)
          /\ drained = write_end - C
          /\ drained \in 0 .. StreamMax
          /\ write_end \in Int
          /\ bytes_written - C =< drained
          /\ drained + m =< bytes_written
          /\ bytes_written \in Int
        <3>1. drain_pc = "Writing" /\ ~ReaderDropped
            BY <1>1 DEF DrainWriteDone, IInv, CursorCoupling
        <3>. QED
            BY <1>1, <3>1 DEF DrainWriteDone, Consume, IInv, TypeOK,
                              QueueBounds, CursorCoupling, ReadableLen
    <2>2. SUFFICES ASSUME NEW p \in Positions, p < drained + m
                   PROVE  file'[p] = p
        BY <2>1 DEF DurableCopyExact
    <2>3. CASE p < drained
        <3>1. file'[p] = file[p]
            <4>1. ~(drained <= p /\ p < drained + m)
                BY <2>1, <2>3 DEF Positions
            <4>. QED
                BY <1>1, <4>1, Zenon DEF DrainWriteDone
        <3>. QED
            BY <2>3, <3>1 DEF DurableCopyExact
    <2>4. CASE drained =< p
        <3>1. p \in Int /\ p - drained + 1 \in 1 .. m
            BY <2>1, <2>2, <2>4 DEF Positions
        <3>2. file'[p] = FillBuf(m)[p - drained + 1]
            <4>1. drained <= p /\ p < drained + m
                BY <2>1, <2>2, <2>4 DEF Positions
            <4>. QED
                BY <1>1, <4>1, Zenon DEF DrainWriteDone
        <3>3. PICK w \in Int : w = write_end % C
            BY <2>1
        <3>4. FillBuf(m)[p - drained + 1] = buffer[(w + (p - drained)) % C]
            <4>1. FillBuf(m)[p - drained + 1] =
                    buffer[(w + (p - drained + 1) - 1) % C]
                BY <3>1, <3>3, Zenon DEF FillBuf, SliceAt
            <4>2. w + (p - drained + 1) - 1 = w + (p - drained)
                BY <2>1, <3>1
            <4>. QED
                BY <4>1, <4>2, Zenon
        <3>5. (w + (p - drained)) % C = (p % C)
            <4>1. (w + (p - drained)) % C = (write_end + (p - drained)) % C
                <5>1. write_end \in Int /\ p - drained \in Int /\ C \in Nat \ {0}
                    BY <2>1, <3>1
                <5>. QED
                    BY <3>3, <5>1, ModShift, Zenon
            <4>2. write_end + (p - drained) = p + C
                BY <2>1, <3>1
            <4>3. (p + C) % C = (p % C)
                BY <3>1, ModPlusRing
            <4>. QED
                BY <4>1, <4>2, <4>3
        <3>6. buffer[p % C] = p
            <4>1. p \in MaxOf(0, bytes_written - C) .. bytes_written - 1
                BY <2>1, <2>2, <2>4, <3>1 DEF Positions, MaxOf
            <4>. QED
                BY <4>1 DEF RingContent
        <3>. QED
            BY <3>2, <3>4, <3>5, <3>6
    <2>. QED
        BY <2>3, <2>4, <2>1, <2>2 DEF Positions
<1>2. CASE ~\E m \in 1 .. inflight : DrainWriteDone(m)
    BY <1>2, DrainFrame DEF DurableCopyExact
<1>. QED
    BY <1>1, <1>2

-----------------------------------------------------------------------------
(* Appending to a GET body the bytes that continue it, and advancing its   *)
(* bytes_read by as many, keeps every body the upload's prefix.            *)
LEMMA ReadsAppend ==
    ASSUME NEW r \in Readers, NEW t, NEW L \in Nat,
           ReadsNumbered,
           got \in [Readers -> Seq(Int)], bytes_read \in [Readers -> Nat],
           Continues(t, bytes_read[r]), Len(t) = L,
           got' = [got EXCEPT ![r] = got[r] \o t],
           bytes_read' = [bytes_read EXCEPT ![r] = bytes_read[r] + L]
    PROVE  ReadsNumbered'
<1>1. Numbered(got[r] \o t, bytes_read[r] + L)
    <2>1. Numbered(got[r], bytes_read[r]) /\ bytes_read[r] \in Nat
        BY DEF ReadsNumbered
    <2>. QED
        BY <2>1, NumberedConcat
<1>2. SUFFICES ASSUME NEW q \in Readers PROVE Numbered(got'[q], bytes_read'[q])
    BY DEF ReadsNumbered
<1>3. CASE q = r
    BY <1>1, <1>3
<1>4. CASE q # r
    BY <1>4 DEF ReadsNumbered
<1>. QED
    BY <1>3, <1>4

(* A sequence on 1 .. n has length n.                                      *)
LEMMA FunLen ==
    ASSUME NEW S, NEW n \in Nat, NEW f \in [1 .. n -> S]
    PROVE  f \in Seq(S) /\ Len(f) = n
<1>1. f \in Seq(S)
    BY FunIsSeq
<1>2. Len(f) \in Nat /\ DOMAIN f = 1 .. Len(f)
    BY <1>1, LenProperties
<1>. QED
    BY <1>1, <1>2

(* Only RingReader::poll_read's copy and the file fallback of              *)
(* GetBodyFromRing extend a GET body.                                      *)
LEMMA ReadFrame ==
    ASSUME [Next]_vars, \A r \in Readers : ~ReaderCopy(r) /\ ~FallbackDone(r)
    PROVE  UNCHANGED <<got, bytes_read>>
<1>1. CASE Produce
    BY <1>1 DEF Produce, SourceData, SourceEof, SourceError, tailVars
<1>2. CASE Drain
    BY <1>2 DEF Drain, DrainSubmit, DrainWriteDone, DrainWriteFail, DrainEof,
                DrainSourceError, DrainRespond, tailVars
<1>3. CASE OrchestratorFinish \/ Resolved \/ UNCHANGED vars
    BY <1>3 DEF OrchestratorFinish, Resolved, vars, tailVars
<1>4. CASE \E r \in Readers : Attach(r) \/ TailStep(r)
    BY <1>4 DEF Attach, TailStep, ReaderOverrun, ReaderCaughtUp
<1>. QED
    BY <1>1, <1>2, <1>3, <1>4 DEF Next

(* A GET's copy out of the ring (not overrun, so within the last Capacity  *)
(* positions) and its read of the file after an overrun (below drained)   *)
(* both deliver the bytes at bytes_read onwards.                          *)
LEMMA ReadStep ==
    IInv /\ RingContent /\ DurableCopyExact /\ ReadsNumbered /\ [Next]_vars
        => ReadsNumbered'
<1> SUFFICES ASSUME IInv, RingContent, DurableCopyExact, ReadsNumbered,
                    [Next]_vars
             PROVE  ReadsNumbered'
    OBVIOUS
<1> USE CapacityAssumption, ConstantsAssumption
<1>0. /\ got \in [Readers -> Seq(Int)]
      /\ bytes_read \in [Readers -> Nat]
      /\ bytes_read \in [Readers -> 0 .. StreamMax]
      /\ bytes_written \in 0 .. StreamMax
      /\ drained \in 0 .. StreamMax
      /\ buffer \in [Slots -> Int]
      /\ file \in [Positions -> Int]
    BY DEF IInv, TypeOK
<1>1. ASSUME NEW r \in Readers, ReaderCopy(r)
      PROVE  ReadsNumbered'
    <2> DEFINE br == bytes_read[r]
               C == Capacity
               len == MinOf(bytes_written - br, ChunkSize)
               t == SliceAt(br % C, len)
    <2>1. /\ br \in 0 .. StreamMax
          /\ bytes_written > br
          /\ bytes_written =< br + C
        BY <1>0, <1>1 DEF ReaderCopy, Overran
    <2>2. len \in 1 .. bytes_written - br
        BY <1>0, <2>1 DEF MinOf
    <2>3. /\ got' = [got EXCEPT ![r] = got[r] \o t]
          /\ bytes_read' = [bytes_read EXCEPT ![r] = br + len]
        BY <1>1 DEF ReaderCopy
    <2> HIDE DEF len
    <2>4. t \in [1 .. len -> Int]
        <3>1. \A k \in 1 .. len : ((br % C) + k - 1) % C \in Slots
            BY <2>1, <2>2 DEF Slots
        <3>. QED
            BY <1>0, <3>1 DEF SliceAt
    <2>5. t \in Seq(Int) /\ Len(t) = len
        BY <2>2, <2>4, FunLen
    <2>6. ASSUME NEW k \in 1 .. len PROVE t[k] = br + k - 1
        <3>1. PICK w \in Int : w = br % C
            BY <2>1
        <3>2. t[k] = buffer[(w + (k - 1)) % C]
            <4>1. t[k] = buffer[(w + k - 1) % C]
                BY <3>1, Zenon DEF SliceAt
            <4>2. w + k - 1 = w + (k - 1)
                BY <2>2
            <4>. QED
                BY <4>1, <4>2, Zenon
        <3>3. (w + (k - 1)) % C = (br + (k - 1)) % C
            <4>1. br \in Int /\ k - 1 \in Int /\ C \in Nat \ {0}
                BY <2>1, <2>2
            <4>. QED
                BY <3>1, <4>1, ModShift, Zenon
        <3>4. buffer[(br + (k - 1)) % C] = br + (k - 1)
            <4>1. br + (k - 1) \in MaxOf(0, bytes_written - C) .. bytes_written - 1
                BY <1>0, <2>1, <2>2 DEF MaxOf
            <4>. QED
                BY <4>1 DEF RingContent
        <3>. QED
            BY <2>1, <2>2, <3>2, <3>3, <3>4
    <2>7. Continues(t, br)
        BY <2>5, <2>6 DEF Continues
    <2> HIDE DEF t
    <2>8. /\ len \in Nat /\ Len(t) = len /\ Continues(t, bytes_read[r])
          /\ got' = [got EXCEPT ![r] = got[r] \o t]
          /\ bytes_read' = [bytes_read EXCEPT ![r] = bytes_read[r] + len]
        BY <2>2, <2>3, <2>5, <2>7
    <2>. QED
        BY <1>0, <2>8, ReadsAppend, Zenon
<1>2. ASSUME NEW r \in Readers, FallbackDone(r)
      PROVE  ReadsNumbered'
    <2> DEFINE br == bytes_read[r]
               m == MinOf(ChunkSize, MaxOf(0, drained - br))
               fetched == [k \in 1 .. m |-> file[br + k - 1]]
    <2>1. br \in 0 .. StreamMax
        BY <1>0
    <2>2. /\ m \in 0 .. ChunkSize
          /\ br + m =< drained \/ m = 0
        <3>1. CASE drained =< br
            BY <1>0, <2>1, <3>1 DEF MinOf, MaxOf
        <3>2. CASE drained > br
            BY <1>0, <2>1, <3>2 DEF MinOf, MaxOf
        <3>. QED
            BY <1>0, <2>1, <3>1, <3>2
    <2> HIDE DEF m
    <2>3. ASSUME NEW k \in 1 .. m PROVE fetched[k] = br + k - 1
        <3>1. br + k - 1 \in Positions /\ br + k - 1 < drained
            BY <1>0, <2>1, <2>2 DEF Positions
        <3>. QED
            BY <3>1 DEF DurableCopyExact
    <2>4. fetched \in [1 .. m -> Int]
        BY <2>3, <2>1, <2>2
    <2>5. fetched \in Seq(Int) /\ Len(fetched) = m /\ Continues(fetched, br)
        <3>1. fetched \in Seq(Int) /\ Len(fetched) = m
            BY <2>2, <2>4, FunLen
        <3>. QED
            BY <2>3, <3>1 DEF Continues
    <2> HIDE DEF fetched
    <2>6. CASE /\ got' = [got EXCEPT ![r] = got[r] \o fetched]
               /\ bytes_read' = [bytes_read EXCEPT ![r] = br + m]
        <3>1. /\ m \in Nat /\ Len(fetched) = m /\ Continues(fetched, bytes_read[r])
              /\ got' = [got EXCEPT ![r] = got[r] \o fetched]
              /\ bytes_read' = [bytes_read EXCEPT ![r] = bytes_read[r] + m]
            BY <2>2, <2>5, <2>6
        <3>. QED
            BY <1>0, <3>1, ReadsAppend, Zenon
    <2>7. CASE UNCHANGED <<bytes_read, got>>
        BY <2>7 DEF ReadsNumbered
    <2>. QED
        BY <1>2, <2>6, <2>7 DEF FallbackDone, m, fetched
<1>3. CASE \A r \in Readers : ~ReaderCopy(r) /\ ~FallbackDone(r)
    BY <1>3, ReadFrame DEF ReadsNumbered
<1>. QED
    BY <1>1, <1>2, <1>3

-----------------------------------------------------------------------------
(* Before the upload starts the ring, the file and every body are empty.   *)
LEMMA InitContent == Init => ContentInv
<1> SUFFICES ASSUME Init PROVE ContentInv
    OBVIOUS
<1>1. RingContent /\ DurableCopyExact
    BY CapacityAssumption DEF Init, RingContent, DurableCopyExact, MaxOf
<1>2. ReadsNumbered
    BY EmptySeq DEF Init, ReadsNumbered, Numbered
<1>. QED
    BY <1>1, <1>2 DEF ContentInv

(* Every step keeps the ring, the file and the bodies the upload's bytes.  *)
LEMMA ContentStep == IInv /\ ContentInv /\ [Next]_vars => ContentInv'
BY RingContentStep, DurableStep, ReadStep DEF ContentInv

(* write_from_ring's file is always the upload's prefix, for every ring    *)
(* size, write size and upload length: the producer never refills a slot   *)
(* an io_uring write submitted from FillBuf still reads.                   *)
THEOREM FileCopyExact == Spec => []DurableCopyExact
<1>1. ContentInv => DurableCopyExact
    BY DEF ContentInv
<1>. QED
    BY <1>1, InitIInv, NextIInv, InitContent, ContentStep, PTL DEF Spec

(* Every byte a GET body carries is the upload's byte at that offset,      *)
(* whether RingReader::poll_read copied it from the ring or the overrun    *)
(* fallback of GetBodyFromRing read it from the file, for every ring size, *)
(* chunk size, upload length and set of GETs.                              *)
THEOREM TailBytesExact == Spec => []TailReadsExact
<1>1. ContentInv => TailReadsExact
    BY DEF ContentInv, ReadsNumbered, Numbered, TailReadsExact
<1>. QED
    BY <1>1, InitIInv, NextIInv, InitContent, ContentStep, PTL DEF Spec

=============================================================================
