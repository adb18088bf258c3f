---------------------------- MODULE LiveRingProofs ----------------------------
(***************************************************************************)
(* Proofs about LiveRing for every value of the constants.                 *)
(***************************************************************************)
EXTENDS LiveRing, SequenceTheorems, TLAPS

(* How the cursors of the queue, the Ring and the drain consumer stay      *)
(* coupled: bytes_written mirrors write_start, the drain's file length is  *)
(* write_end - Capacity until the QueueReader is dropped (which happens    *)
(* exactly when write_from_ring returns), and a submitted write never      *)
(* covers more than the committed bytes.                                   *)
CursorCoupling ==
    /\ bytes_written = write_start
    /\ ReaderDropped <=> drain_pc \in {"Respond", "Done"}
    /\ ~ReaderDropped => drained = write_end - Capacity
    /\ drain_pc = "Writing" => inflight \in 1 .. ReadableLen

IInv == TypeOK /\ QueueBounds /\ CursorCoupling

-----------------------------------------------------------------------------
(* A function on 1 .. n is a sequence.                                    *)
LEMMA FunIsSeq ==
    ASSUME NEW S, NEW n \in Nat, NEW f \in [1 .. n -> S]
    PROVE  f \in Seq(S)
BY SeqDef

(* A slice of the ring is a sequence of bytes.                             *)
LEMMA SliceIsSeq ==
    ASSUME buffer \in [Slots -> Int], NEW i \in Int, NEW cnt \in Nat
    PROVE  SliceAt(i, cnt) \in Seq(Int)
<1>1. \A k \in 1 .. cnt : (i + k - 1) % Capacity \in Slots
    BY CapacityAssumption DEF Slots
<1>2. SliceAt(i, cnt) \in [1 .. cnt -> Int]
    BY <1>1 DEF SliceAt
<1>. QED
    BY <1>2, FunIsSeq

(* The invariant holds initially.                                          *)
LEMMA InitIInv == Init => IInv
BY CapacityAssumption, U64MaxAssumption, ConstantsAssumption
DEF Init, QueueInit, MagicInit, IInv, TypeOK, QueueBounds, CursorCoupling,
    ReaderDropped, ReadableLen, Slots, Unwritten, Positions, Results

(* A GET task's step touches only its own reader state: the Ring, the     *)
(* queue and the drain consumer keep the invariant whatever it does, as    *)
(* long as the reader state keeps its type.                                *)
LEMMA TailStepFrame ==
    ASSUME IInv,
           UNCHANGED <<buffer, write_start, write_end, queue_handles,
                       bytes_written, reader_error, source_live, orch, stash,
                       result, drainVars, historyVars>>,
           wakers' \in [Readers -> BOOLEAN],
           parked' \subseteq Readers,
           rpc' \in [Readers -> {"Detached", "Reading", "Fallback", "Finished", "Failed"}],
           bytes_read' \in [Readers -> 0 .. StreamMax],
           got' \in [Readers -> Seq(Int)]
    PROVE  IInv'
<1>1. (QueueBounds /\ CursorCoupling)'
    BY DEF IInv, QueueBounds, CursorCoupling, ReaderDropped, ReadableLen,
           drainVars, historyVars
<1>2. (/\ buffer \in [Slots -> Int]
       /\ write_start \in 0 .. StreamMax
       /\ write_end \in (Capacity .. StreamMax + Capacity) \cup {U64Max}
       /\ queue_handles \subseteq {"Writer", "Reader"}
       /\ bytes_written \in 0 .. StreamMax
       /\ reader_error \in {"None", "Eof", "Err"}
       /\ source_live \in BOOLEAN
       /\ orch \in {"Running", "ConsumerSettled", "Terminated"}
       /\ stash \in Results
       /\ result \in Results)'
    BY DEF IInv, TypeOK
<1>3. (/\ drain_pc \in {"Fill", "Writing", "Respond", "Done"}
       /\ inflight \in 0 .. ChunkSize
       /\ drained \in 0 .. StreamMax
       /\ file \in [Positions -> Int]
       /\ drain_result \in Results
       /\ source_end \in {"Streaming", "Eof", "Err"})'
    BY DEF IInv, TypeOK, drainVars, historyVars
<1>. QED
    BY <1>1, <1>2, <1>3 DEF IInv, TypeOK

(* Every step of the system preserves the invariant.                       *)
LEMMA NextIInv == IInv /\ [Next]_vars => IInv'
<1> SUFFICES ASSUME IInv, [Next]_vars PROVE IInv'
    OBVIOUS
<1> USE CapacityAssumption, U64MaxAssumption, ConstantsAssumption
<1> USE DEF IInv, TypeOK, QueueBounds, CursorCoupling, ReaderDropped,
            WriterDropped, ReadableLen, WritableLen, Slots, Positions,
            Results, MinOf, MaxOf, Active,
            vars, ringVars, drainVars, tailVars, historyVars
<1>1. ASSUME NEW n \in 1 .. MinOf(WritableLen, StreamMax - bytes_written),
             SourceData(n)
      PROVE  IInv'
    BY <1>1 DEF SourceData, ProducerReady, FillWindow, Written, WakeAll
<1>2. CASE SourceEof
    BY <1>2 DEF SourceEof, ProducerReady, WakeAll
<1>3. CASE SourceError
    BY <1>3 DEF SourceError, ProducerReady, WakeAll
<1>4. CASE DrainSubmit
    BY <1>4 DEF DrainSubmit
<1>5. ASSUME NEW m \in 1 .. inflight, DrainWriteDone(m)
      PROVE  IInv'
    <2>1. FillBuf(m) \in Seq(Int)
        BY SliceIsSeq DEF FillBuf
    <2>2. FillBuf(m) \in [1 .. m -> Int]
        BY CapacityAssumption DEF FillBuf, SliceAt
    <2>. QED
        BY <1>5, <2>2 DEF DrainWriteDone, Consume
<1>6. CASE DrainWriteFail
    <2>1. CASE Active = {}
        BY <1>6, <2>1 DEF DrainWriteFail, DropReader, ConsumerDone
    <2>2. CASE Active # {}
        <3>1. /\ write_end' = U64Max
              /\ queue_handles' = queue_handles \ {"Reader"}
              /\ drain_pc' = "Done" /\ drain_result' = "Err"
              /\ orch' = "ConsumerSettled" /\ stash' = "Err"
              /\ source_live' = FALSE /\ reader_error' = "Eof"
              /\ result' = result /\ inflight' = 0
            BY <1>6, <2>2 DEF DrainWriteFail, DropReader, ConsumerDone
        <3>2. (QueueBounds /\ CursorCoupling)'
            BY <1>6, <3>1 DEF DrainWriteFail
        <3>3. UNCHANGED <<buffer, write_start, bytes_written, wakers, parked,
                          drained, file, rpc, bytes_read, got, source_end>>
            BY <1>6 DEF DrainWriteFail
        <3>4. (/\ buffer \in [Slots -> Int]
               /\ write_start \in 0 .. StreamMax
               /\ write_end \in (Capacity .. StreamMax + Capacity) \cup {U64Max}
               /\ queue_handles \subseteq {"Writer", "Reader"}
               /\ bytes_written \in 0 .. StreamMax
               /\ reader_error \in {"None", "Eof", "Err"}
               /\ source_live \in BOOLEAN)'
            BY <3>1, <3>3
        <3>5. (/\ orch \in {"Running", "ConsumerSettled", "Terminated"}
               /\ stash \in Results
               /\ result \in Results
               /\ wakers \in [Readers -> BOOLEAN]
               /\ parked \subseteq Readers
               /\ drain_pc \in {"Fill", "Writing", "Respond", "Done"}
               /\ inflight \in 0 .. ChunkSize)'
            BY <3>1, <3>3
        <3>6. (/\ drained \in 0 .. StreamMax
               /\ file \in [Positions -> Int]
               /\ rpc \in [Readers -> {"Detached", "Reading", "Fallback", "Finished", "Failed"}]
               /\ bytes_read \in [Readers -> 0 .. StreamMax]
               /\ got \in [Readers -> Seq(Int)]
               /\ drain_result \in Results
               /\ source_end \in {"Streaming", "Eof", "Err"})'
            BY <3>1, <3>3
        <3>7. TypeOK'
            BY <3>4, <3>5, <3>6
        <3>. QED
            BY <3>2, <3>7
    <2>. QED
        BY <2>1, <2>2
<1>7. CASE DrainEof
    BY <1>7 DEF DrainEof, DropReader
<1>8. CASE DrainSourceError
    BY <1>8 DEF DrainSourceError, DropReader, ConsumerDone
<1>9. ASSUME NEW res \in {"Ok", "Err"}, DrainRespond(res)
      PROVE  IInv'
    BY <1>9 DEF DrainRespond, ConsumerDone
<1>10. CASE OrchestratorFinish
    BY <1>10 DEF OrchestratorFinish
<1>11. ASSUME NEW r \in Readers, Attach(r)
       PROVE  IInv'
    BY <1>11, TailStepFrame DEF Attach
<1>12. ASSUME NEW r \in Readers, ReaderOverrun(r)
       PROVE  IInv'
    BY <1>12, TailStepFrame DEF ReaderOverrun, ReaderPolled
<1>13. ASSUME NEW r \in Readers, ReaderCopy(r)
       PROVE  IInv'
    <2> DEFINE len == MinOf(bytes_written - bytes_read[r], ChunkSize)
    <2>1. bytes_read[r] \in 0 .. StreamMax /\ bytes_written \in 0 .. StreamMax
        OBVIOUS
    <2>2. bytes_written > bytes_read[r]
        BY <1>13 DEF ReaderCopy
    <2> HIDE DEF IInv, TypeOK, QueueBounds, CursorCoupling
    <2>3. len \in 1 .. (bytes_written - bytes_read[r])
        BY <2>1, <2>2 DEF len
    <2>4. buffer \in [Slots -> Int] /\ got[r] \in Seq(Int)
        BY DEF IInv, TypeOK
    <2>5. bytes_read[r] % Capacity \in Int /\ len \in Nat
        BY <2>1, <2>3
    <2>6. SliceAt(bytes_read[r] % Capacity, len) \in Seq(Int)
        BY <2>4, <2>5, SliceIsSeq
    <2>7. got' \in [Readers -> Seq(Int)]
        BY <1>13, <2>4, <2>6, ConcatProperties DEF ReaderCopy, len, IInv, TypeOK
    <2>8. bytes_read[r] + len \in 0 .. StreamMax
        BY <2>1, <2>3
    <2>9. bytes_read' \in [Readers -> 0 .. StreamMax]
        BY <1>13, <2>8 DEF ReaderCopy, len, IInv, TypeOK
    <2>. QED
        BY <1>13, <2>7, <2>9, TailStepFrame DEF ReaderCopy, ReaderPolled, IInv, TypeOK
<1>14. ASSUME NEW r \in Readers, ReaderCaughtUp(r)
       PROVE  IInv'
    <2>1. rpc' \in [Readers -> {"Detached", "Reading", "Fallback", "Finished", "Failed"}]
          /\ parked' \subseteq Readers
        BY <1>14 DEF ReaderCaughtUp
    <2>. QED
        BY <1>14, <2>1, TailStepFrame DEF ReaderCaughtUp, ReaderPolled
<1>15. ASSUME NEW r \in Readers, FallbackDone(r)
       PROVE  IInv'
    <2> DEFINE m == MinOf(ChunkSize, MaxOf(0, drained - bytes_read[r]))
               fetched == [k \in 1 .. m |-> file[bytes_read[r] + k - 1]]
    <2>0. /\ bytes_read[r] \in 0 .. StreamMax
          /\ drained \in 0 .. StreamMax
          /\ file \in [0 .. StreamMax - 1 -> Int]
        OBVIOUS
    <2> HIDE DEF IInv, TypeOK, QueueBounds, CursorCoupling, m, fetched,
                 MinOf, MaxOf
    <2>1. /\ m \in 0 .. ChunkSize
          /\ bytes_read[r] + m \in 0 .. StreamMax
          /\ bytes_read[r] + m =< drained \/ m = 0
        <3>1. ChunkSize \in Nat \ {0}
            BY ConstantsAssumption
        <3>2. CASE drained =< bytes_read[r]
            <4>1. m = 0
                BY <2>0, <3>1, <3>2 DEF m, MinOf, MaxOf
            <4>. QED
                BY <2>0, <3>1, <4>1
        <3>3. CASE drained > bytes_read[r]
            <4>1. m = MinOf(ChunkSize, drained - bytes_read[r])
                BY <2>0, <3>3 DEF m, MaxOf
            <4>2. m \in 1 .. ChunkSize /\ m =< drained - bytes_read[r]
                BY <2>0, <3>1, <3>3, <4>1 DEF MinOf
            <4>. QED
                BY <2>0, <4>2
        <3>. QED
            BY <2>0, <3>2, <3>3
    <2>2. fetched \in [1 .. m -> Int]
        <3>1. \A k \in 1 .. m : bytes_read[r] + k - 1 \in 0 .. StreamMax - 1
            <4>1. m \in Nat /\ bytes_read[r] + m \in 0 .. StreamMax
                BY <2>1
            <4>. QED
                BY <2>0, <4>1
        <3>. QED
            BY <2>0, <3>1 DEF fetched
    <2>3. fetched \in Seq(Int)
        <3>1. m \in Nat
            BY <2>1
        <3>. QED
            BY <2>2, <3>1, FunIsSeq
    <2>4. got[r] \o fetched \in Seq(Int)
        BY <2>3, ConcatProperties DEF IInv, TypeOK
    <2>5. CASE /\ got' = [got EXCEPT ![r] = got[r] \o fetched]
               /\ bytes_read' = [bytes_read EXCEPT ![r] = bytes_read[r] + m]
               /\ rpc' = [rpc EXCEPT ![r] = IF m = 0 THEN "Finished" ELSE "Reading"]
        <3>1. /\ got' \in [Readers -> Seq(Int)]
              /\ bytes_read' \in [Readers -> 0 .. StreamMax]
              /\ rpc' \in [Readers -> {"Detached", "Reading", "Fallback", "Finished", "Failed"}]
            BY <2>1, <2>4, <2>5 DEF IInv, TypeOK
        <3>. QED
            BY <1>15, <3>1, TailStepFrame DEF FallbackDone, IInv, TypeOK
    <2>6. CASE /\ rpc' = [rpc EXCEPT ![r] = "Failed"]
               /\ UNCHANGED <<bytes_read, got>>
        BY <1>15, <2>6, TailStepFrame DEF FallbackDone, IInv, TypeOK
    <2>. QED
        BY <1>15, <2>5, <2>6 DEF FallbackDone, m, fetched
<1>16. CASE Resolved
    BY <1>16 DEF Resolved
<1>17. CASE UNCHANGED vars
    BY <1>17
<1>. QED
    BY <1>1, <1>2, <1>3, <1>4, <1>5, <1>6, <1>7, <1>8, <1>9, <1>10, <1>11,
       <1>12, <1>13, <1>14, <1>15, <1>16, <1>17
    DEF Next, Produce, Drain, TailStep
-----------------------------------------------------------------------------
(* Type correctness of the upload pipeline: every variable of the Ring,    *)
(* the queue, write_from_ring and the GET tasks keeps its type in every    *)
(* reachable state, for every capacity, chunk size and set of readers.     *)
THEOREM TypeCorrect == Spec => []TypeOK
<1>1. IInv => TypeOK
    BY DEF IInv
<1>. QED
    BY <1>1, InitIInv, NextIInv, PTL DEF Spec

(* The queue's cursors never cross: while the QueueReader is alive the     *)
(* drained cursor write_end - Capacity stays at or below the committed      *)
(* cursor write_start and write_start never passes write_end, whatever     *)
(* order Ring::poll, write_from_ring's submits and completions and the     *)
(* tail readers interleave in.                                             *)
THEOREM QueueBoundsHold == Spec => []QueueBounds
<1>1. IInv => QueueBounds
    BY DEF IInv
<1>. QED
    BY <1>1, InitIInv, NextIInv, PTL DEF Spec

-----------------------------------------------------------------------------
(* The Ring's lifecycle against what the consumer future returned: while  *)
(* Ring.consumer holds the future write_file has not resolved, the stash  *)
(* of Err(stash) is that result, and a resolved Ring has no GET task left *)
(* and returned it.                                                       *)
Lifecycle ==
    /\ orch = "Running" <=> drain_result = "None"
    /\ orch = "ConsumerSettled" => stash = drain_result
    /\ orch = "Terminated" => Active = {} /\ result = drain_result

(* Ring::poll's consumer half: resolving the running consumer with res    *)
(* keeps the lifecycle, whether the result is returned or stashed.        *)
LEMMA ConsumerDoneLifecycle ==
    ASSUME NEW res \in {"Ok", "Err"}, orch = "Running",
           ConsumerDone(res), rpc' = rpc
    PROVE  Lifecycle'
<1>1. Active' = Active
    BY DEF Active
<1>2. CASE Active = {}
    BY <1>1, <1>2 DEF ConsumerDone, Lifecycle
<1>3. CASE Active # {}
    BY <1>3 DEF ConsumerDone, Lifecycle
<1>. QED
    BY <1>2, <1>3

(* Every step keeps the lifecycle.                                        *)
LEMMA LifecycleStep == IInv /\ Lifecycle /\ [Next]_vars => Lifecycle'
<1> SUFFICES ASSUME IInv, Lifecycle, [Next]_vars PROVE Lifecycle'
    OBVIOUS
<1>1. CASE Produce
    <2>1. UNCHANGED <<orch, stash, result, drain_result, rpc>>
        BY <1>1 DEF Produce, SourceData, SourceEof, SourceError,
                    tailVars, historyVars
    <2>. QED
        BY <2>1 DEF Lifecycle, Active
<1>2. CASE \/ DrainSubmit
           \/ \E m \in 1 .. inflight : DrainWriteDone(m)
           \/ DrainEof
    <2>1. UNCHANGED <<orch, stash, result, drain_result, rpc>>
        BY <1>2 DEF DrainSubmit, DrainWriteDone, DrainEof, ringVars,
                    tailVars, historyVars
    <2>. QED
        BY <2>1 DEF Lifecycle, Active
<1>3. CASE DrainWriteFail
    BY <1>3, ConsumerDoneLifecycle DEF DrainWriteFail, tailVars
<1>4. CASE DrainSourceError
    BY <1>4, ConsumerDoneLifecycle DEF DrainSourceError, tailVars
<1>5. ASSUME NEW res \in {"Ok", "Err"}, DrainRespond(res) PROVE Lifecycle'
    BY <1>5, ConsumerDoneLifecycle DEF DrainRespond, tailVars
<1>6. CASE OrchestratorFinish
    <2>1. /\ orch = "ConsumerSettled" /\ Active = {}
          /\ orch' = "Terminated" /\ result' = stash
          /\ UNCHANGED <<stash, drain_result, rpc>>
        BY <1>6 DEF OrchestratorFinish, tailVars, historyVars
    <2>2. Active' = Active
        BY <2>1 DEF Active
    <2>. QED
        BY <2>1, <2>2 DEF Lifecycle
<1>7. ASSUME NEW r \in Readers, Attach(r) PROVE Lifecycle'
    <2>1. /\ orch # "Terminated"
          /\ UNCHANGED <<orch, stash, result, drain_result>>
        BY <1>7 DEF Attach, historyVars
    <2>. QED
        BY <2>1 DEF Lifecycle
<1>8. ASSUME NEW r \in Readers, TailStep(r) PROVE Lifecycle'
    <2>1. /\ r \in Active
          /\ UNCHANGED <<orch, stash, result, drain_result>>
        BY <1>8 DEF TailStep, ReaderOverrun, ReaderCopy, ReaderCaughtUp,
                    ReaderPolled, FallbackDone, Active, ringVars, historyVars
    <2>2. orch # "Terminated"
        BY <2>1 DEF Lifecycle
    <2>. QED
        BY <2>1, <2>2 DEF Lifecycle
<1>9. CASE Resolved
    BY <1>9 DEF Resolved, vars, ringVars, tailVars, historyVars, Lifecycle, Active
<1>10. CASE UNCHANGED vars
    BY <1>10 DEF vars, ringVars, tailVars, historyVars, Lifecycle, Active
<1>. QED
    BY <1>1, <1>2, <1>3, <1>4, <1>5, <1>6, <1>7, <1>8, <1>9, <1>10
    DEF Next, Drain

(* Ring::poll returns only once Ring.futures is empty, and it returns the *)
(* consumer's own result whether it resolved before or after the last    *)
(* GET task: ResultDeferred for every capacity, chunk size and set of    *)
(* readers.                                                               *)
THEOREM ResultAfterReaders == Spec => []ResultDeferred
<1>1. Init => Lifecycle
    BY DEF Init, Lifecycle, Active
<1>2. Lifecycle => ResultDeferred
    BY DEF Lifecycle, ResultDeferred
<1>. QED
    BY <1>1, <1>2, InitIInv, NextIInv, LifecycleStep, PTL DEF Spec

-----------------------------------------------------------------------------
(* What keeps FallbackTargetDurable inductive: the producer is never more *)
(* than Capacity bytes ahead of the file (its window ends at write_end =  *)
(* drained + Capacity, and after the QueueReader is dropped neither side  *)
(* moves), so a reader that Overran is behind the file.                   *)
FallbackInv ==
    /\ bytes_written <= drained + Capacity
    /\ FallbackTargetDurable


(* Every step keeps FallbackInv.                                          *)
LEMMA FallbackStep == IInv /\ FallbackInv /\ [Next]_vars => FallbackInv'
<1> SUFFICES ASSUME IInv, FallbackInv, [Next]_vars PROVE FallbackInv'
    OBVIOUS
<1> USE CapacityAssumption, ConstantsAssumption
<1>0. /\ bytes_written \in 0 .. StreamMax /\ drained \in 0 .. StreamMax
      /\ bytes_read \in [Readers -> 0 .. StreamMax]
      /\ rpc \in [Readers -> {"Detached", "Reading", "Fallback", "Finished", "Failed"}]
    BY DEF IInv, TypeOK
(* A step that leaves the readers, the producer's count and the file      *)
(* length alone, or only lengthens the file.                              *)
<1>1. ASSUME UNCHANGED <<bytes_written, rpc, bytes_read>>,
             NEW k \in Nat, drained' = drained + k
      PROVE  FallbackInv'
    <2>1. bytes_written' = bytes_written /\ rpc' = rpc /\ bytes_read' = bytes_read
        BY <1>1
    <2>2. bytes_written' =< drained' + Capacity
        <3>1. bytes_written =< drained + Capacity
            BY DEF FallbackInv
        <3>. QED
            BY <1>0, <1>1, <2>1, <3>1
    <2>3. \A q \in Readers : rpc'[q] = "Fallback" => bytes_read'[q] < drained'
        BY <1>0, <1>1, <2>1 DEF FallbackInv, FallbackTargetDurable
    <2>. QED
        BY <2>2, <2>3 DEF FallbackInv, FallbackTargetDurable
<1>2. ASSUME NEW n \in 1 .. MinOf(WritableLen, StreamMax - bytes_written),
             SourceData(n)
      PROVE  FallbackInv'
    <2>1. /\ ~ReaderDropped
          /\ bytes_written' = bytes_written + n
          /\ UNCHANGED <<drained, rpc, bytes_read>>
        BY <1>2 DEF SourceData, ProducerReady, drainVars, tailVars
    <2>2. /\ bytes_written = write_start
          /\ drained = write_end - Capacity
          /\ n =< write_end - write_start
        BY <1>2, <2>1 DEF IInv, CursorCoupling, MinOf, WritableLen, TypeOK
    <2>3. bytes_written' =< drained' + Capacity
        <3>1. n \in Nat /\ write_end \in Int /\ write_start \in Int
            BY DEF IInv, TypeOK, ReaderDropped
        <3>. QED
            BY <2>1, <2>2, <3>1
    <2>. QED
        BY <2>1, <2>3 DEF FallbackInv, FallbackTargetDurable
<1>3. CASE SourceEof \/ SourceError \/ OrchestratorFinish
    <2>1. UNCHANGED <<bytes_written, rpc, bytes_read, drained>>
        BY <1>3 DEF SourceEof, SourceError, OrchestratorFinish,
                    drainVars, tailVars
    <2>2. drained' = drained + 0
        BY <1>0, <2>1
    <2>. QED
        BY <2>1, <2>2, <1>1
<1>4. CASE Drain
    <2>1. UNCHANGED <<bytes_written, rpc, bytes_read>>
        BY <1>4 DEF Drain, DrainSubmit, DrainWriteDone, DrainWriteFail, DrainEof,
                    DrainSourceError, DrainRespond, ringVars, tailVars
    <2>2. \E k \in Nat : drained' = drained + k
        <3>1. CASE \E m \in 1 .. inflight : DrainWriteDone(m)
            BY <3>1 DEF DrainWriteDone
        <3>2. CASE ~\E m \in 1 .. inflight : DrainWriteDone(m)
            <4>1. drained' = drained
                BY <1>4, <3>2 DEF Drain, DrainSubmit, DrainWriteFail, DrainEof,
                                  DrainSourceError, DrainRespond
            <4>. QED
                BY <1>0, <4>1
        <3>. QED
            BY <3>1, <3>2
    <2>3. PICK k \in Nat : drained' = drained + k
        BY <2>2
    <2>. QED
        BY <2>1, <2>3, <1>1
<1>5. ASSUME NEW r \in Readers, Attach(r) PROVE FallbackInv'
    BY <1>0, <1>5 DEF Attach, FallbackInv, FallbackTargetDurable, drainVars
<1>6. ASSUME NEW r \in Readers, ReaderOverrun(r) PROVE FallbackInv'
    <2>1. /\ Overran(r)
          /\ rpc' = [rpc EXCEPT ![r] = "Fallback"]
          /\ UNCHANGED <<bytes_written, drained, bytes_read>>
        BY <1>6 DEF ReaderOverrun, drainVars
    <2>2. bytes_read[r] < drained
        BY <1>0, <2>1 DEF Overran, FallbackInv
    <2>. QED
        BY <1>0, <2>1, <2>2 DEF FallbackInv, FallbackTargetDurable
<1>7. ASSUME NEW r \in Readers, ReaderCopy(r) \/ ReaderCaughtUp(r)
      PROVE  FallbackInv'
    <2>1. /\ rpc[r] = "Reading"
          /\ rpc'[r] # "Fallback"
          /\ \A q \in Readers \ {r} : rpc'[q] = rpc[q] /\ bytes_read'[q] = bytes_read[q]
          /\ UNCHANGED <<bytes_written, drained>>
          /\ rpc' \in [Readers -> {"Detached", "Reading", "Fallback", "Finished", "Failed"}]
        BY <1>0, <1>7 DEF ReaderCopy, ReaderCaughtUp, ReaderPolled, drainVars
    <2>. QED
        BY <2>1 DEF FallbackInv, FallbackTargetDurable
<1>8. ASSUME NEW r \in Readers, FallbackDone(r) PROVE FallbackInv'
    <2>1. /\ rpc'[r] # "Fallback"
          /\ \A q \in Readers \ {r} : rpc'[q] = rpc[q] /\ bytes_read'[q] = bytes_read[q]
          /\ UNCHANGED <<bytes_written, drained>>
          /\ rpc' \in [Readers -> {"Detached", "Reading", "Fallback", "Finished", "Failed"}]
        BY <1>0, <1>8 DEF FallbackDone, ringVars, drainVars
    <2>. QED
        BY <2>1 DEF FallbackInv, FallbackTargetDurable
<1>9. CASE Resolved \/ UNCHANGED vars
    <2>1. UNCHANGED <<bytes_written, rpc, bytes_read, drained>>
        BY <1>9 DEF Resolved, vars, ringVars, drainVars, tailVars
    <2>2. drained' = drained + 0
        BY <1>0, <2>1
    <2>. QED
        BY <2>1, <2>2, <1>1
<1>. QED
    BY <1>2, <1>3, <1>4, <1>5, <1>6, <1>7, <1>8, <1>9 DEF Next, Produce, TailStep

(* GetBodyFromRing falls back to the file only for bytes the file already *)
(* holds, for every ring size, chunk size and upload length: read_from_file *)
(* at bytes_read cannot come back empty and end the GET early.            *)
THEOREM FallbackReadsDurable == Spec => []FallbackTargetDurable
<1>1. Init => FallbackInv
    BY CapacityAssumption DEF Init, FallbackInv, FallbackTargetDurable
<1>2. FallbackInv => FallbackTargetDurable
    BY DEF FallbackInv
<1>. QED
    BY <1>1, <1>2, InitIInv, NextIInv, FallbackStep, PTL DEF Spec

=====
