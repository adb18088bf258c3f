------------------------ MODULE TailRefinementProofs ------------------------
(***************************************************************************)
(* The proof that LiveRing implements the Ring's contract LiveTail under   *)
(* the refinement mapping Contract of LiveRing: every step of the queue,   *)
(* the drain and the readers is a step of the contract or leaves the       *)
(* mapped state alone (LiveRing!TailRefined).                              *)
(***************************************************************************)
EXTENDS RingContentProofs

(* What the contract's guards need beyond the content of ring, file and   *)
(* bodies: no GET and no write gets ahead of the producer, a live body    *)
(* has not ended, a reader told Ok(0) or Err by reader_error is told so   *)
(* for a reason the contract allows (the body ended, or the consumer      *)
(* returned; an Err only comes from a failing PUT connection), and the    *)
(* 201 is written only once the whole body is in the file.               *)
TailCoupling ==
    /\ \A r \in Readers : bytes_read[r] <= bytes_written
    /\ drained <= bytes_written
    /\ source_live => source_end = "Streaming"
    /\ reader_error = "Eof" => source_end = "Eof" \/ drain_result # "None"
    /\ reader_error = "Err" => SourceFaults
    /\ drain_pc = "Respond" => source_end = "Eof" /\ drained = bytes_written

RInv == IInv /\ FallbackInv /\ Lifecycle /\ ContentInv /\ TailCoupling

-----------------------------------------------------------------------------
(* Steps that leave the cursors, the body's end and the drain alone keep   *)
(* the coupling.                                                           *)
LEMMA CouplingFrame ==
    ASSUME TailCoupling,
           UNCHANGED <<bytes_read, bytes_written, drained, source_live,
                       source_end, reader_error, drain_result, drain_pc>>
    PROVE  TailCoupling'
BY DEF TailCoupling

(* The consumer future resolving (write error, body error, or the 201     *)
(* written) records its result, so a reader_error of Some(None) it sets  *)
(* is explained by it.                                                     *)
LEMMA CouplingConsumerDone ==
    ASSUME TailCoupling, NEW res \in {"Ok", "Err"}, ConsumerDone(res),
           UNCHANGED <<bytes_read, bytes_written, drained, source_end>>
    PROVE  TailCoupling'
<1>1. /\ drain_pc' = "Done" /\ drain_result' # "None"
      /\ reader_error' \in {reader_error, "Eof"}
      /\ source_live' \in {source_live, FALSE}
    BY DEF ConsumerDone
<1>2. source_live' => source_end' = "Streaming"
    BY <1>1 DEF TailCoupling
<1>3. reader_error' = "Err" => SourceFaults
    BY <1>1 DEF TailCoupling
<1>. QED
    BY <1>1, <1>2, <1>3 DEF TailCoupling

(* Every step keeps the coupling.                                          *)
LEMMA CouplingStep == RInv /\ [Next]_vars => TailCoupling'
<1> SUFFICES ASSUME RInv, [Next]_vars PROVE TailCoupling'
    OBVIOUS
<1> USE CapacityAssumption, ConstantsAssumption
<1>0. /\ bytes_read \in [Readers -> 0 .. StreamMax]
      /\ bytes_written \in 0 .. StreamMax
      /\ drained \in 0 .. StreamMax
      /\ TailCoupling /\ IInv /\ FallbackInv /\ Lifecycle
    BY DEF RInv, IInv, TypeOK
<1>1. ASSUME NEW n \in 1 .. MinOf(WritableLen, StreamMax - bytes_written),
             SourceData(n)
      PROVE  TailCoupling'
    <2>1. source_end = "Streaming"
        BY <1>0, <1>1 DEF SourceData, ProducerReady, TailCoupling
    <2>2. PICK k \in Nat : bytes_written' = bytes_written + k
        BY <1>1 DEF SourceData
    <2>3. UNCHANGED <<bytes_read, drained, source_live, source_end,
                      reader_error, drain_result, drain_pc>>
        BY <1>1 DEF SourceData, drainVars, tailVars, historyVars
    <2>. QED
        BY <1>0, <2>1, <2>2, <2>3 DEF TailCoupling
<1>2. CASE SourceEof \/ SourceError
    <2>1. /\ source_live' = FALSE
          /\ reader_error' = "Eof" => source_end' = "Eof"
          /\ reader_error' = "Err" => SourceFaults
          /\ source_end' # "Streaming"
          /\ UNCHANGED <<bytes_read, bytes_written, drained, drain_pc>>
        BY <1>2 DEF SourceEof, SourceError, drainVars, tailVars
    <2>2. drain_pc # "Respond"
        BY <1>0, <1>2 DEF SourceEof, SourceError, ProducerReady, TailCoupling
    <2>. QED
        BY <1>0, <2>1, <2>2 DEF TailCoupling
<1>3. CASE DrainSubmit
    <2>1. drain_pc' = "Writing"
        BY <1>3 DEF DrainSubmit
    <2>2. UNCHANGED <<bytes_read, bytes_written, drained, source_live,
                      source_end, reader_error, drain_result>>
        BY <1>3 DEF DrainSubmit, ringVars, tailVars, historyVars
    <2>. QED
        BY <1>0, <2>1, <2>2 DEF TailCoupling
<1>4. ASSUME NEW m \in 1 .. inflight, DrainWriteDone(m)
      PROVE  TailCoupling'
    <2>1. drained + m =< bytes_written /\ drained' = drained + m
        <3>1. drain_pc = "Writing" /\ ~ReaderDropped
            BY <1>0, <1>4 DEF DrainWriteDone, IInv, CursorCoupling
        <3>. QED
            BY <1>0, <1>4, <3>1 DEF DrainWriteDone, IInv, TypeOK,
                                    CursorCoupling, ReadableLen
    <2>2. /\ drain_pc' = "Fill"
          /\ UNCHANGED <<bytes_read, bytes_written, source_live, source_end,
                         reader_error, drain_result>>
        BY <1>4 DEF DrainWriteDone, tailVars, historyVars
    <2>. QED
        BY <1>0, <2>1, <2>2 DEF TailCoupling
<1>5. CASE DrainWriteFail \/ DrainSourceError
                \/ \E res \in {"Ok", "Err"} : DrainRespond(res)
    <2>1. \E res \in {"Ok", "Err"} : ConsumerDone(res)
        BY <1>5 DEF DrainWriteFail, DrainSourceError, DrainRespond
    <2>2. UNCHANGED <<bytes_read, bytes_written, drained, source_end>>
        BY <1>5 DEF DrainWriteFail, DrainSourceError, DrainRespond, tailVars
    <2>. QED
        BY <1>0, <2>1, <2>2, CouplingConsumerDone
<1>6. CASE DrainEof
    <2>1. source_end = "Eof"
        BY <1>0, <1>6 DEF DrainEof, Lifecycle, TailCoupling
    <2>2. drained = bytes_written
        <3>1. ~ReaderDropped
            BY <1>0, <1>6 DEF DrainEof, IInv, CursorCoupling
        <3>. QED
            BY <1>0, <1>6, <3>1 DEF DrainEof, IInv, TypeOK, CursorCoupling,
                                    ReadableLen
    <2>3. /\ drain_pc' = "Respond"
          /\ UNCHANGED <<bytes_read, bytes_written, drained, source_live,
                         source_end, reader_error, drain_result>>
        BY <1>6 DEF DrainEof, tailVars, historyVars
    <2>. QED
        BY <1>0, <2>1, <2>2, <2>3 DEF TailCoupling
<1>7. ASSUME NEW r \in Readers, ReaderCopy(r)
      PROVE  TailCoupling'
    <2> DEFINE len == MinOf(bytes_written - bytes_read[r], ChunkSize)
    <2>1. bytes_read[r] + len =< bytes_written
        BY <1>0, <1>7 DEF ReaderCopy, MinOf
    <2>2. bytes_read' = [bytes_read EXCEPT ![r] = bytes_read[r] + len]
        BY <1>7 DEF ReaderCopy
    <2>3. UNCHANGED <<bytes_written, drained, source_live, source_end,
                      reader_error, drain_result, drain_pc>>
        BY <1>7 DEF ReaderCopy, drainVars, historyVars
    <2>. QED
        BY <1>0, <2>1, <2>2, <2>3 DEF TailCoupling
<1>8. ASSUME NEW r \in Readers, FallbackDone(r)
      PROVE  TailCoupling'
    <2> DEFINE m == MinOf(ChunkSize, MaxOf(0, drained - bytes_read[r]))
    <2>1. bytes_read[r] + m =< bytes_written
        <3>1. bytes_read[r] < drained
            BY <1>0, <1>8 DEF FallbackDone, FallbackInv, FallbackTargetDurable
        <3>. QED
            BY <1>0, <3>1 DEF MinOf, MaxOf, TailCoupling
    <2>2. \/ bytes_read' = [bytes_read EXCEPT ![r] = bytes_read[r] + m]
          \/ bytes_read' = bytes_read
        BY <1>8 DEF FallbackDone
    <2>3. UNCHANGED <<bytes_written, drained, source_live, source_end,
                      reader_error, drain_result, drain_pc>>
        BY <1>8 DEF FallbackDone, ringVars, drainVars, historyVars
    <2>. QED
        BY <1>0, <2>1, <2>2, <2>3 DEF TailCoupling
<1>9. CASE \/ OrchestratorFinish \/ Resolved \/ UNCHANGED vars
           \/ \E r \in Readers : \/ Attach(r) \/ ReaderOverrun(r)
                                 \/ ReaderCaughtUp(r)
    BY <1>0, <1>9, CouplingFrame
       DEF OrchestratorFinish, Resolved, vars, Attach, ReaderOverrun,
           ReaderCaughtUp, ringVars, drainVars, tailVars, historyVars
<1>. QED
    BY <1>1, <1>2, <1>3, <1>4, <1>5, <1>6, <1>7, <1>8, <1>9
       DEF Next, Produce, Drain, TailStep

(* The invariant holds initially and is kept by every step.                *)
LEMMA InitRInv == Init => RInv
<1> SUFFICES ASSUME Init PROVE RInv
    OBVIOUS
<1>1. IInv /\ ContentInv
    BY InitIInv, InitContent
<1>2. FallbackInv /\ Lifecycle /\ TailCoupling
    BY CapacityAssumption DEF Init, FallbackInv, FallbackTargetDurable,
                              Lifecycle, Active, TailCoupling
<1>. QED
    BY <1>1, <1>2 DEF RInv

LEMMA RInvStep == RInv /\ [Next]_vars => RInv'
BY NextIInv, FallbackStep, LifecycleStep, ContentStep, CouplingStep DEF RInv

-----------------------------------------------------------------------------
(* The contract's view of the file and of the readers (the substitutions  *)
(* of Contract).                                                           *)
storedBar == [i \in 1 .. drained |-> file[i - 1]]

tailsBar == [r \in Readers |-> IF rpc[r] \in {"Reading", "Fallback"}
                               THEN "Attached" ELSE rpc[r]]

(* The Ring starts in the contract's initial state.                        *)
LEMMA InitMaps == Init => Contract!Init
<1> SUFFICES ASSUME Init PROVE Contract!Init
    OBVIOUS
<1>1. [i \in 1 .. drained |-> file[i - 1]] = <<>>
    BY DEF Init
<1>. QED
    BY <1>1 DEF Init, Contract!Init

(* f holds the upload's bytes below d.                                     *)
FilePrefix(f, d) == \A p \in Positions : p < d => f[p] = p

(* The file's first d bytes, read as a sequence, are the upload's.         *)
LEMMA PrefixView ==
    ASSUME NEW f, NEW d \in 0 .. StreamMax, FilePrefix(f, d)
    PROVE  [i \in 1 .. d |-> f[i - 1]] = Contract!Upload(d)
<1>1. \A i \in 1 .. d : f[i - 1] = i - 1
    BY ConstantsAssumption DEF FilePrefix, Positions
<1>. QED
    BY <1>1 DEF Contract!Upload

(* A body numbered up to b is the upload's first b bytes.                  *)
LEMMA NumberedView ==
    ASSUME NEW s, NEW b \in Nat, Numbered(s, b)
    PROVE  s = Contract!Upload(b)
<1>1. s \in [1 .. b -> Int]
    <2>1. s \in Seq(Int) /\ Len(s) = b
        BY DEF Numbered
    <2>. QED
        BY <2>1, LenProperties
<1>2. \A i \in 1 .. b : s[i] = i - 1
    BY DEF Numbered
<1>. QED
    BY <1>1, <1>2, Zenon DEF Contract!Upload

(* The contract's attached readers are the GET tasks in Ring.futures.      *)
LEMMA AttachedView ==
    ASSUME rpc \in [Readers -> {"Detached", "Reading", "Fallback", "Finished",
                                "Failed"}]
    PROVE  Contract!Attached = Active
BY DEF Contract!Attached, Active

(* A step that leaves the mapped variables alone is a contract stutter.    *)
LEMMA MapStutter ==
    ASSUME UNCHANGED <<orch, bytes_written, drained, file, rpc, got,
                       source_end, drain_result, result>>
    PROVE  UNCHANGED Contract!tailVars
BY DEF Contract!tailVars

-----------------------------------------------------------------------------
(* poll_read returning n bytes is the contract's Accept up to the new      *)
(* bytes_written.                                                          *)
LEMMA MapSourceData ==
    ASSUME RInv, NEW n \in 1 .. MinOf(WritableLen, StreamMax - bytes_written),
           SourceData(n)
    PROVE  /\ bytes_written + n \in 1 .. StreamMax
           /\ Contract!Accept(bytes_written + n)
<1>1. orch = "Running" /\ source_end = "Streaming"
    BY DEF SourceData, ProducerReady, RInv, TailCoupling
<1>2. /\ bytes_written \in 0 .. StreamMax
      /\ bytes_written + n \in 1 .. StreamMax
      /\ bytes_written < bytes_written + n
    BY ConstantsAssumption DEF RInv, IInv, TypeOK, MinOf, WritableLen
<1>3. /\ bytes_written' = bytes_written + n
      /\ UNCHANGED <<orch, drained, file, rpc, got, source_end, drain_result,
                     result>>
    BY DEF SourceData, drainVars, tailVars, historyVars
<1>. QED
    BY <1>1, <1>2, <1>3 DEF Contract!Accept

(* The body ending, with EOF or an error, is the contract's Close.         *)
LEMMA MapSourceEnd ==
    ASSUME RInv, SourceEof \/ SourceError
    PROVE  \E e \in {"Eof", "Err"} : Contract!Close(e)
<1>1. orch = "Running" /\ source_end = "Streaming"
    BY DEF SourceEof, SourceError, ProducerReady, RInv, TailCoupling
<1>2. UNCHANGED <<orch, bytes_written, drained, file, rpc, got, drain_result,
                  result>>
    BY DEF SourceEof, SourceError, drainVars, tailVars
<1>3. CASE SourceEof
    <2>1. source_end' = "Eof"
        BY <1>3 DEF SourceEof
    <2>. QED
        BY <1>1, <1>2, <2>1 DEF Contract!Close
<1>4. CASE SourceError
    <2>1. source_end' = "Err" /\ SourceFaults
        BY <1>4 DEF SourceError
    <2>. QED
        BY <1>1, <1>2, <2>1 DEF Contract!Close
<1>. QED
    BY <1>3, <1>4

(* The file as the contract sees it is the upload's first drained bytes.   *)
LEMMA StoredView ==
    ASSUME NEW f, NEW d \in 0 .. StreamMax, FilePrefix(f, d)
    PROVE  /\ [i \in 1 .. d |-> f[i - 1]] = Contract!Upload(d)
           /\ Len([i \in 1 .. d |-> f[i - 1]]) = d
<1>1. d \in 0 .. StreamMax
    OBVIOUS
<1>2. [i \in 1 .. d |-> f[i - 1]] = Contract!Upload(d)
    BY PrefixView
<1>3. Len(Contract!Upload(d)) = d
    <2>1. Contract!Upload(d) \in [1 .. d -> Int]
        BY <1>1 DEF Contract!Upload
    <2>. QED
        BY <1>1, <2>1, FunLen
<1>. QED
    BY <1>2, <1>3

(* A completed write of m bytes is the contract's Store of drained + m.   *)
LEMMA MapWriteDone ==
    ASSUME RInv, RInv', NEW m \in 1 .. inflight, DrainWriteDone(m),
           NEW k, k = drained + m
    PROVE  /\ k \in 1 .. StreamMax
           /\ Contract!Store(k)
<1>1. /\ drained \in 0 .. StreamMax
      /\ drained + m =< bytes_written
      /\ bytes_written \in 0 .. StreamMax
      /\ drained' = drained + m
      /\ inflight \in 0 .. ChunkSize
    <2>1. drain_pc = "Writing" /\ ~ReaderDropped
        BY DEF DrainWriteDone, RInv, IInv, CursorCoupling
    <2>. QED
        BY <2>1 DEF DrainWriteDone, Consume, RInv, IInv, TypeOK, QueueBounds,
                    CursorCoupling, ReadableLen
<1>2. orch = "Running"
    BY DEF DrainWriteDone
<1>3. /\ Len([i \in 1 .. drained |-> file[i - 1]]) = drained
      /\ [i \in 1 .. drained' |-> file'[i - 1]] = Contract!Upload(drained')
    <2>1. /\ Len([i \in 1 .. drained |-> file[i - 1]]) = drained
        <3>1. drained \in 0 .. StreamMax /\ FilePrefix(file, drained)
            BY DEF RInv, IInv, TypeOK, ContentInv, DurableCopyExact, FilePrefix
        <3>. QED
            BY <3>1, StoredView
    <2>2. [i \in 1 .. drained' |-> file'[i - 1]] = Contract!Upload(drained')
        <3>1. drained' \in 0 .. StreamMax /\ FilePrefix(file', drained')
            BY DEF RInv, IInv, TypeOK, ContentInv, DurableCopyExact, FilePrefix
        <3>. QED
            BY <3>1, StoredView
    <2>. QED
        BY <2>1, <2>2
<1>4. UNCHANGED <<orch, bytes_written, rpc, got, source_end, drain_result,
                  result>>
    BY DEF DrainWriteDone, tailVars, historyVars
<1>5. [i \in 1 .. drained' |-> file'[i - 1]] = Contract!Upload(drained + m)
    BY <1>1, <1>3, Zenon
<1>6. /\ m \in Nat \ {0}
      /\ drained + m =< bytes_written
      /\ drained + m \in 1 .. StreamMax
    BY <1>1, ConstantsAssumption
<1>7. Len([i \in 1 .. drained |-> file[i - 1]]) < drained + m
    BY <1>1, <1>3, <1>6
<1>. QED
    BY <1>2, <1>4, <1>5, <1>6, <1>7, Zenon DEF Contract!Store

(* Returning the stash after the last reader is the contract's Finish.     *)
LEMMA MapFinish ==
    ASSUME RInv, OrchestratorFinish
    PROVE  Contract!Finish
<1>1. /\ orch = "ConsumerSettled" /\ stash = drain_result
      /\ Contract!Attached = {}
    BY AttachedView DEF OrchestratorFinish, RInv, IInv, TypeOK, Lifecycle
<1>. QED
    BY <1>1 DEF OrchestratorFinish, Contract!Finish, drainVars, tailVars,
                historyVars

(* Ring::push of a GET is the contract's Attach.                           *)
LEMMA MapAttach ==
    ASSUME RInv, NEW r \in Readers, Attach(r)
    PROVE  Contract!Attach(r)
<1>1. rpc \in [Readers -> {"Detached", "Reading", "Fallback", "Finished",
                           "Failed"}]
    BY DEF RInv, IInv, TypeOK
<1>. QED
    BY <1>1 DEF Attach, Contract!Attach, drainVars, historyVars

(* Ring::poll's consumer half resolving write_file with res is the         *)
(* contract's ConsumerDone, when an Ok comes with the whole body in the    *)
(* file and an Err from something that can fail.                           *)
LEMMA MapResolve ==
    ASSUME RInv, NEW res \in {"Ok", "Err"}, orch = "Running",
           ConsumerDone(res),
           res = "Ok" => source_end = "Eof" /\ drained = bytes_written,
           res = "Err" => SourceFaults \/ DiskFaults,
           UNCHANGED <<bytes_written, drained, file, rpc, got, source_end>>
    PROVE  Contract!ConsumerDone(res)
<1>1. Contract!Attached = Active
    BY AttachedView DEF RInv, IInv, TypeOK
<1>2. Len([i \in 1 .. drained |-> file[i - 1]]) = drained
    <2>1. drained \in 0 .. StreamMax /\ FilePrefix(file, drained)
        BY DEF RInv, IInv, TypeOK, ContentInv, DurableCopyExact, FilePrefix
    <2>. QED
        BY <2>1, StoredView
<1>. QED
    BY <1>1, <1>2 DEF ConsumerDone, Contract!ConsumerDone

(* The three ways write_file resolves: a failed write, the body's error,   *)
(* and the 201 written (or failing on the PUT connection).                 *)
LEMMA MapDrainEnd ==
    ASSUME RInv, \/ DrainWriteFail \/ DrainSourceError
                 \/ \E res \in {"Ok", "Err"} : DrainRespond(res)
    PROVE  \E res \in {"Ok", "Err"} : Contract!ConsumerDone(res)
<1>1. CASE DrainWriteFail
    <2>1. /\ orch = "Running" /\ ConsumerDone("Err") /\ DiskFaults
          /\ UNCHANGED <<bytes_written, drained, file, rpc, got, source_end>>
        BY <1>1 DEF DrainWriteFail, tailVars
    <2>. QED
        BY <2>1, MapResolve
<1>2. CASE DrainSourceError
    <2>1. /\ orch = "Running" /\ ConsumerDone("Err") /\ SourceFaults
          /\ UNCHANGED <<bytes_written, drained, file, rpc, got, source_end>>
        BY <1>2 DEF DrainSourceError, tailVars, RInv, TailCoupling
    <2>. QED
        BY <2>1, MapResolve
<1>3. ASSUME NEW res \in {"Ok", "Err"}, DrainRespond(res)
      PROVE  Contract!ConsumerDone(res)
    <2>1. /\ orch = "Running" /\ ConsumerDone(res)
          /\ res = "Ok" => source_end = "Eof" /\ drained = bytes_written
          /\ res = "Err" => SourceFaults
          /\ UNCHANGED <<bytes_written, drained, file, rpc, got, source_end>>
        BY <1>3 DEF DrainRespond, tailVars, RInv, TailCoupling
    <2>. QED
        BY <2>1, MapResolve
<1>. QED
    BY <1>1, <1>2, <1>3

-----------------------------------------------------------------------------
(* Falling back to the file after an overrun keeps the GET attached: a     *)
(* contract stutter.                                                       *)
LEMMA MapOverrun ==
    ASSUME NEW r \in Readers, ReaderOverrun(r)
    PROVE  UNCHANGED Contract!tailVars
<1>1. rpc' = [rpc EXCEPT ![r] = "Fallback"] /\ rpc[r] = "Reading"
    BY DEF ReaderOverrun, ReaderPolled
<1>2. UNCHANGED <<orch, bytes_written, drained, file, got, source_end,
                  drain_result, result>>
    BY DEF ReaderOverrun, drainVars, historyVars
<1>. QED
    BY <1>1, <1>2 DEF Contract!tailVars

(* A GET's body after a step that gives it the bytes up to k.             *)
LEMMA DeliverBody ==
    ASSUME RInv', NEW r \in Readers, NEW k \in Nat,
           bytes_read'[r] = k,
           \E t : got' = [got EXCEPT ![r] = got[r] \o t]
    PROVE  got' = [got EXCEPT ![r] = Contract!Upload(k)]
<1>1. Numbered(got'[r], k)
    BY DEF RInv, ContentInv, ReadsNumbered
<1>2. got'[r] = Contract!Upload(k)
    BY <1>1, NumberedView
<1>3. PICK t : got' = [got EXCEPT ![r] = got[r] \o t]
    OBVIOUS
<1>. QED
    BY <1>2, <1>3, Zenon

(* RingReader::poll_read copying len bytes is the contract's Deliver up to *)
(* bytes_read + len.                                                       *)
LEMMA MapCopy ==
    ASSUME RInv, RInv', NEW r \in Readers, ReaderCopy(r)
    PROVE  \E k \in 1 .. StreamMax : Contract!Deliver(r, k)
<1> DEFINE br == bytes_read[r]
           len == MinOf(bytes_written - br, ChunkSize)
<1>1. /\ br \in 0 .. StreamMax /\ bytes_written \in 0 .. StreamMax
      /\ Len(got[r]) = br
    BY DEF RInv, IInv, TypeOK, ContentInv, ReadsNumbered, Numbered
<1>2. /\ br + len \in 1 .. StreamMax
      /\ br < br + len /\ br + len =< bytes_written
    BY <1>1, ConstantsAssumption DEF ReaderCopy, MinOf
<1>3. /\ bytes_read'[r] = br + len
      /\ \E t : got' = [got EXCEPT ![r] = got[r] \o t]
    BY DEF ReaderCopy, RInv, IInv, TypeOK
<1>4. got' = [got EXCEPT ![r] = Contract!Upload(br + len)]
    <2>1. br + len \in Nat
        BY <1>2
    <2>. QED
        BY <2>1, <1>3, DeliverBody, Zenon
<1>5. /\ rpc[r] = "Reading"
      /\ UNCHANGED <<orch, bytes_written, drained, file, rpc, source_end,
                     drain_result, result>>
    BY DEF ReaderCopy, ReaderPolled, drainVars, historyVars
<1>. QED
    BY <1>1, <1>2, <1>4, <1>5 DEF Contract!Deliver

(* The file fallback's read is the contract's Deliver (it returns at      *)
(* least one byte, as the bytes it asks for are durable) or, when it      *)
(* fails, the GET's Detach with an error.                                 *)
LEMMA MapFallback ==
    ASSUME RInv, RInv', NEW r \in Readers, FallbackDone(r)
    PROVE  \/ \E k \in 1 .. StreamMax : Contract!Deliver(r, k)
           \/ Contract!Detach(r, "Failed")
<1> DEFINE br == bytes_read[r]
           m == MinOf(ChunkSize, MaxOf(0, drained - br))
<1>1. /\ br \in 0 .. StreamMax /\ drained \in 0 .. StreamMax
      /\ bytes_written \in 0 .. StreamMax
      /\ Len(got[r]) = br
      /\ br < drained /\ drained =< bytes_written
      /\ rpc \in [Readers -> {"Detached", "Reading", "Fallback", "Finished",
                              "Failed"}]
    BY DEF FallbackDone, RInv, IInv, TypeOK, ContentInv, ReadsNumbered,
           Numbered, FallbackInv, FallbackTargetDurable, TailCoupling
<1>2. /\ m \in 1 .. ChunkSize
      /\ br + m \in 1 .. StreamMax
      /\ br < br + m /\ br + m =< bytes_written
    <2>1. MaxOf(0, drained - br) = drained - br
        BY <1>1 DEF MaxOf
    <2>2. m = MinOf(ChunkSize, drained - br)
        BY <2>1
    <2>3. m \in 1 .. ChunkSize /\ m =< drained - br
        BY <1>1, <2>2, ConstantsAssumption DEF MinOf
    <2> HIDE DEF m
    <2>4. br + m \in 1 .. StreamMax
        <3>1. br + m =< drained
            BY <1>1, <2>3
        <3>2. 1 =< br + m
            BY <1>1, <2>3
        <3>3. br + m \in Int
            BY <1>1, <2>3, ConstantsAssumption
        <3>. QED
            BY <1>1, <2>3, <3>1, <3>2, <3>3, ConstantsAssumption
    <2>5. br < br + m /\ br + m =< bytes_written
        <3>1. br + m =< drained /\ br < br + m
            BY <1>1, <2>3
        <3>. QED
            BY <1>1, <2>3, <3>1, ConstantsAssumption
    <2>. QED
        BY <2>3, <2>4, <2>5
<1>3. /\ rpc[r] = "Fallback"
      /\ UNCHANGED <<orch, bytes_written, drained, file, source_end,
                     drain_result, result>>
    BY DEF FallbackDone, ringVars, drainVars, historyVars
<1>4. CASE /\ got' = [got EXCEPT ![r] = got[r] \o
                                 [k \in 1 .. m |-> file[br + k - 1]]]
           /\ bytes_read' = [bytes_read EXCEPT ![r] = br + m]
           /\ rpc' = [rpc EXCEPT ![r] = IF m = 0 THEN "Finished" ELSE "Reading"]
    <2>1. got' = [got EXCEPT ![r] = Contract!Upload(br + m)]
        <3>1. bytes_read'[r] = br + m
            BY <1>4 DEF RInv, IInv, TypeOK
        <3>. QED
            <4>1. br + m \in Nat
                BY <1>2
            <4>. QED
                BY <1>4, <3>1, <4>1, DeliverBody, Zenon
    <2>2. rpc' = [rpc EXCEPT ![r] = "Reading"]
        <3>1. m # 0
            BY <1>2
        <3> HIDE DEF m
        <3>. QED
            BY <1>4, <3>1
    <2>. QED
        BY <1>1, <1>2, <1>3, <2>1, <2>2 DEF Contract!Deliver
<1>5. CASE /\ DiskFaults
           /\ rpc' = [rpc EXCEPT ![r] = "Failed"]
           /\ UNCHANGED <<bytes_read, got>>
    BY <1>1, <1>3, <1>5 DEF Contract!Detach
<1>. QED
    BY <1>4, <1>5 DEF FallbackDone

(* A caught-up reader ends its body as the contract allows: Ok(0) once     *)
(* the upload or its consumer is over, an error only from a failing PUT   *)
(* connection; parking it changes nothing the contract sees.             *)
LEMMA MapCaughtUp ==
    ASSUME RInv, NEW r \in Readers, ReaderCaughtUp(r)
    PROVE  \/ \E how \in {"Finished", "Failed"} : Contract!Detach(r, how)
           \/ UNCHANGED Contract!tailVars
<1>1. /\ rpc[r] = "Reading"
      /\ Len(got[r]) = bytes_written
      /\ rpc \in [Readers -> {"Detached", "Reading", "Fallback", "Finished",
                              "Failed"}]
      /\ UNCHANGED <<orch, bytes_written, drained, file, got, source_end,
                     drain_result, result>>
    <2>1. bytes_read[r] = bytes_written
        BY DEF ReaderCaughtUp, RInv, IInv, TypeOK, TailCoupling
    <2>. QED
        BY <2>1 DEF ReaderCaughtUp, ReaderPolled, RInv, IInv, TypeOK,
                    ContentInv, ReadsNumbered, Numbered, drainVars, historyVars
<1>2. CASE reader_error = "Eof"
    <2>1. rpc' = [rpc EXCEPT ![r] = "Finished"]
        BY <1>2 DEF ReaderCaughtUp
    <2>2. source_end # "Streaming" \/ drain_result # "None"
        BY <1>2 DEF RInv, TailCoupling
    <2>. QED
        BY <1>1, <2>1, <2>2 DEF Contract!Detach
<1>3. CASE reader_error = "Err"
    <2>1. rpc' = [rpc EXCEPT ![r] = "Failed"] /\ SourceFaults
        BY <1>3 DEF ReaderCaughtUp, RInv, TailCoupling
    <2>. QED
        BY <1>1, <2>1 DEF Contract!Detach
<1>4. CASE reader_error = "None"
    BY <1>1, <1>4, MapStutter DEF ReaderCaughtUp
<1>. QED
    BY <1>2, <1>3, <1>4 DEF ReaderCaughtUp

-----------------------------------------------------------------------------
(* Every step of the Ring is a step of its contract or leaves what the     *)
(* contract sees unchanged.                                                *)
LEMMA StepMaps ==
    ASSUME RInv, RInv', [Next]_vars
    PROVE  [Contract!Next]_Contract!tailVars
<1>1. ASSUME NEW n \in 1 .. MinOf(WritableLen, StreamMax - bytes_written),
             SourceData(n)
      PROVE  Contract!Next
    BY <1>1, MapSourceData DEF Contract!Next
<1>2. CASE SourceEof \/ SourceError
    BY <1>2, MapSourceEnd DEF Contract!Next
<1>3. ASSUME NEW m \in 1 .. inflight, DrainWriteDone(m)
      PROVE  Contract!Next
    <2>1. PICK k : k = drained + m
        OBVIOUS
    <2>2. k \in 1 .. StreamMax /\ Contract!Store(k)
        BY <1>3, <2>1, MapWriteDone
    <2>. QED
        BY <2>2 DEF Contract!Next
<1>4. CASE DrainWriteFail \/ DrainSourceError
           \/ \E res \in {"Ok", "Err"} : DrainRespond(res)
    BY <1>4, MapDrainEnd DEF Contract!Next
<1>5. CASE OrchestratorFinish
    BY <1>5, MapFinish DEF Contract!Next
<1>6. CASE DrainSubmit \/ DrainEof \/ Resolved \/ UNCHANGED vars
    <2>1. UNCHANGED <<orch, bytes_written, drained, file, rpc, got,
                      source_end, drain_result, result>>
        BY <1>6 DEF DrainSubmit, DrainEof, Resolved, vars, ringVars,
                    drainVars, tailVars, historyVars
    <2>. QED
        BY <2>1, MapStutter
<1>7. ASSUME NEW r \in Readers, Attach(r)
      PROVE  Contract!Next
    BY <1>7, MapAttach DEF Contract!Next
<1>8. ASSUME NEW r \in Readers, ReaderOverrun(r)
      PROVE  UNCHANGED Contract!tailVars
    BY <1>8, MapOverrun
<1>9. ASSUME NEW r \in Readers, ReaderCopy(r)
      PROVE  Contract!Next
    BY <1>9, MapCopy DEF Contract!Next
<1>10. ASSUME NEW r \in Readers, ReaderCaughtUp(r)
       PROVE  [Contract!Next]_Contract!tailVars
    BY <1>10, MapCaughtUp DEF Contract!Next
<1>11. ASSUME NEW r \in Readers, FallbackDone(r)
       PROVE  Contract!Next
    BY <1>11, MapFallback DEF Contract!Next
<1>. QED
    BY <1>1, <1>2, <1>3, <1>4, <1>5, <1>6, <1>7, <1>8, <1>9, <1>10, <1>11
       DEF Next, Produce, Drain, TailStep

(* The Ring future of ring/mod.rs, with its queue, its drain consumer and  *)
(* its readers, implements the contract LiveTail that InFlight relies on, *)
(* for every ring size, chunk size, upload length and set of GETs: each  *)
(* GET body is the upload's bytes in order, a clean end comes only after *)
(* every byte the upload will accept, a 201 only once the whole body is  *)
(* in the file, and the Ring returns the consumer's result after its     *)
(* last reader.                                                            *)
THEOREM TailRefinement == Spec => TailRefined
<1>1. Init => Contract!Init
    BY InitMaps
<1>2. RInv /\ RInv' /\ [Next]_vars => [Contract!Next]_Contract!tailVars
    BY StepMaps
<1>. QED
    BY <1>1, <1>2, InitRInv, RInvStep, PTL
       DEF Spec, TailRefined, Contract!SafeSpec

=============================================================================
